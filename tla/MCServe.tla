------------------------------ MODULE MCServe ------------------------------
(* What a machine serves, each part on its own small instance: the routes of *)
(* a request (Routes), the chat route with its gate and its ledger           *)
(* (ChatRoute), the line the engine is started with (EngineCommand), and the *)
(* jobs of an agent that is reached from outside (AgentDirect).  Chats are   *)
(* interchangeable, and so are connections.                                  *)
EXTENDS ChatRoute, Routes, EngineCommand, AgentDirect, TLC

VARIABLE component   \* "routes", "chat", "command" or "direct": which of them this behavior is of

Symm == Permutations(Requests) \cup Permutations(Conns)
LocalOrPlatform == {[origin |-> "local", hops |-> 0], [origin |-> "proven", hops |-> 1]}

\* Each path as its own client sends it, and with what each gate and each origin looks at.
Plain(path) == [NoAsk EXCEPT !.path = path]
SomeAsks ==
    {Plain(p) : p \in {"health", "privacy", "stats", "cluster", "capability", "unknown", "models",
                       "count", "chat", "tokenize"}}
    \cup UNION {{Plain(p), [Plain(p) EXCEPT !.browser = TRUE], [Plain(p) EXCEPT !.key = FALSE],
                 [Plain(p) EXCEPT !.sound = FALSE]} : p \in {"admit", "count"}}
    \cup {[Plain("chat") EXCEPT !.browser = TRUE], [Plain("tokenize") EXCEPT !.key = FALSE],
          [Plain("overflow") EXCEPT !.browser = TRUE], Plain("overflow"),
          [Plain("overflow") EXCEPT !.sound = FALSE]}
    \cup {[Plain(p) EXCEPT !.cap = c] : p \in {"chat", "health"}, c \in {"ticket", "forged"}}
    \cup {[Plain("count") EXCEPT !.cap = "ticket", !.key = FALSE]}
    \cup {[Plain("chat") EXCEPT !.mark = m] : m \in {"legacy", "local", "wrong"}}
\* Beside any request, one that makes this machine a provider, or that it matters to.
OneHandler == CHOOSE h \in Handlers : TRUE
AsksOfEach ==
    [h \in Handlers |->
        IF h = OneHandler THEN SomeAsks
        ELSE {Plain("admit"), [Plain("chat") EXCEPT !.cap = "ticket"]}]
Ordinary == [shared |-> FALSE, vocabularyOnly |-> FALSE, unverified |-> FALSE,
             configured |-> TRUE, engine |-> "llama"]
SomeMachines ==
    {Ordinary, [Ordinary EXCEPT !.shared = TRUE, !.unverified = TRUE],
     [Ordinary EXCEPT !.vocabularyOnly = TRUE, !.configured = FALSE],
     [Ordinary EXCEPT !.engine = "mock", !.configured = FALSE]}

\* What an engine is started for, with every option on and off, and what its user may append.
UserArg(flag, spelled) == [flag |-> flag, spelled |-> spelled]
UsersOwn ==
    {<<>>, <<UserArg("--threads", "plainly")>>, <<UserArg("--reasoning", "plainly")>>,
     <<UserArg("-c", "plainly")>>, <<UserArg("--device", "plainly")>>,
     <<UserArg("--tensor-split", "underscored")>>,
     <<UserArg("-v", "plainly"), UserArg("-ngl", "quoted")>>, <<UserArg("--lora", "with a value")>>,
     [i \in 1..24 |-> UserArg("--threads", "plainly")]}
Alone ==
    [os |-> "posix", shared |-> FALSE, sock |-> "", gpuOnly |-> TRUE, moe |-> FALSE, vision |-> FALSE,
     mtp |-> FALSE, draft |-> FALSE, device |-> "GPU0", orig |-> 0, ctk |-> "", ctkFile |-> "", ctv |-> "",
     mode |-> "alone", ngl |-> "", grow |-> FALSE, spec |-> "auto", np |-> 1, ctx |-> 2, extra |-> <<>>,
     environment |-> {Name("", "PATH"), Name("LLAMA_", "ARG_CTX"), Name("GGML_", "RPC_ALLOW_PLAINTEXT"),
                      [Name("HF_", "TOKEN") EXCEPT !.capitals = FALSE], TowerDevice}]
SomeSettings ==
    {[Alone EXCEPT !.os = o, !.shared = s, !.sock = IF s THEN "ours" ELSE "", !.moe = x, !.vision = x,
                   !.gpuOnly = ~x, !.mtp = m, !.draft = d, !.orig = y, !.ctk = k[1], !.ctkFile = k[3], !.ctv = k[2],
                   !.mode = c, !.grow = (y = 1), !.extra = e] :
        o \in {"posix", "windows"}, s \in BOOLEAN, x \in BOOLEAN, m \in BOOLEAN, d \in BOOLEAN,
        y \in {0, 1, 2}, k \in {<<"", "", "">>, <<"q8_0", "", "f16">>, <<"", "q8_0", "">>, <<"", "", "q8_0">>}, c \in {"alone", "cluster"},
        e \in UsersOwn}
    \cup {[Alone EXCEPT !.mtp = TRUE, !.spec = p, !.np = n, !.device = v, !.vision = (n = 2),
                         !.draft = (n = 1), !.extra = e] :
             p \in {"auto", "off", "", "ngram-mod", "draft-mtp", "draft-mtp,ngram-mod", "eagle"},
             n \in {0, 1, 2}, v \in {"GPU0", "RPC0", "GPU0,GPU1", ""}, e \in UsersOwn}
    \cup {[Alone EXCEPT !.os = o, !.mode = "tokenizer", !.shared = TRUE, !.sock = k, !.ngl = "0",
                         !.ctx = x, !.gpuOnly = FALSE] :
             o \in {"posix", "windows"}, k \in {"", "ours", "no suffix", "too long"}, x \in {0, 1}}
    \cup {[Alone EXCEPT !.ctkFile = "bad"], [Alone EXCEPT !.ctk = "f16", !.ctkFile = "bad"],
           [Alone EXCEPT !.ctv = "bad"], [Alone EXCEPT !.spec = "draft-mtp"]}

\* A bound: of a midnight and a restart, a behavior has one.
OneUpset == today + starts <= 3

\* A component that is not the behavior's own stays in one of its initial states.
ServeVars == <<chatVars, routesVars, commandVars, directVars, component>>
ServeInit ==
    /\ component \in {"routes", "chat", "command", "direct"}
    /\ RouteInit /\ (component # "chat" => ~ovf.on)
    /\ RoutesInit /\ (component # "routes" => machine = Ordinary)
    /\ DirectInit /\ (component # "direct" => agent.relay /\ agent.listed /\ agent.reports)
    /\ agent.relay \/ ~agent.listed => agent.reports
    /\ agent.relay \/ ~agent.reports => agent.key = "whole"
    /\ CommandInit /\ (component # "command" => setting = Alone)
ServeNext ==
    /\ UNCHANGED component
    /\ \/ component = "chat" /\ RouteNext /\ OneUpset' /\ UNCHANGED <<routesVars, commandVars, directVars>>
       \/ component = "routes" /\ RoutesNext /\ UNCHANGED <<chatVars, commandVars, directVars>>
       \/ component = "command" /\ CommandNext /\ UNCHANGED <<chatVars, routesVars, directVars>>
       \/ component = "direct" /\ DirectNext /\ UNCHANGED <<chatVars, routesVars, commandVars>>
ServeSpec == ServeInit /\ [][ServeNext]_ServeVars
=============================================================================
