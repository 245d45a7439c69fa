------------------------------- MODULE Routes -------------------------------
(***************************************************************************)
(* One HTTP request on the coordinator, from the moment its thread has it  *)
(* to the moment its admission mark is given back                          *)
(* (src/src/coord/coord_main.c, handle_http_request()): where it comes     *)
(* from is decided once, and then the routes are tried in a fixed order,   *)
(* each with the gates that stand before it.                               *)
(*                                                                         *)
(* Several threads do this at once.  What they share is whether this       *)
(* machine is a provider (a latch), the unspent capabilities and the marks *)
(* of admitted jobs (Admission has the inside of that), the published key  *)
(* (AdmissionChannel), and the borrowing switch (Overflow).  A chat is one *)
(* step here and ChatRoute there.  A request is what the routes tell apart:*)
(* its path, with a method that is not the path's counted as an unknown    *)
(* path; the credentials it carries; and whether its body makes sense.     *)
(***************************************************************************)
EXTENDS Integers, FiniteSets

CONSTANTS Handlers, \* threads that handle requests
          Asks,     \* the requests that each of them may come upon
          Machines, \* how the coordinator may have been started
          MaxMints  \* bound on capabilities minted and not spent

ASSUME RoutesAssumption ==
    /\ IsFiniteSet(Handlers) /\ DOMAIN Asks = Handlers
    /\ Machines \subseteq [shared : BOOLEAN, vocabularyOnly : BOOLEAN, unverified : BOOLEAN,
                           configured : BOOLEAN, engine : {"llama", "mock", "none"}]
    /\ MaxMints \in Nat

VARIABLES machine,   \* how this one was started
          provider,  \* g_is_provider
          tickets,   \* capabilities minted and not spent
          marked,    \* admission marks of requests that have not ended
          channel,   \* whose key the channel file holds
          switched,  \* borrowing is on
          job,       \* per thread: its request and what became of it
          lent       \* history: work of others has been accepted here

facts == <<provider, tickets, marked, channel, switched, lent>>
routesVars == <<machine, facts, job>>

NoAsk == [path |-> "none", cap |-> "none", mark |-> "none", browser |-> FALSE, key |-> TRUE, sound |-> TRUE]
Idle0 == [pc |-> "idle", ask |-> NoAsk, origin |-> "none", code |-> 0, said |-> "nothing", after |-> FALSE]

RoutesInit ==
    /\ machine \in Machines
    /\ provider = FALSE /\ tickets = 0 /\ marked = 0 /\ channel = "ours" /\ switched = FALSE
    /\ job = [h \in Handlers |-> Idle0]
    /\ lent = FALSE

On(h, pc) == job[h].pc = pc
Answer(h, code) == job' = [job EXCEPT ![h].pc = "over", ![h].code = code]
\* The client is gone: nobody is answered.
Hear(h, e) == job' = [job EXCEPT ![h].pc = "over", ![h].said = e]

-----------------------------------------------------------------------------
\* The request is read, or it is refused (413, 408, 400) before anybody has looked at it.
Receive(h) ==
    /\ On(h, "idle")
    /\ \E a \in Asks[h] : job' = [job EXCEPT ![h] = [Idle0 EXCEPT !.pc = "read", !.ask = a, !.after = lent]]
    /\ UNCHANGED <<machine, facts>>
ReadFails(h) ==
    /\ On(h, "read")
    /\ \E code \in {400, 408, 413} : Answer(h, code)
    /\ UNCHANGED <<machine, facts>>

\* request_origin(): a capability decides, one way or the other; then the legacy header; then
\* the local marker; and what carries nothing is local only on a machine that does not lend.
Spends(h) == job[h].ask.cap = "ticket" /\ tickets > 0
BadCapability(h) == job[h].ask.cap # "none" /\ ~Spends(h)
ClaimsPlatform(h) == job[h].ask.cap = "none" /\ job[h].ask.mark = "legacy"
\* Mutant: a capability that does not verify is ignored.
OriginOfForgiving(h) ==
    IF Spends(h) THEN "proven"
    ELSE IF ClaimsPlatform(h) THEN "claimed"
    ELSE IF job[h].ask.mark = "local" \/ ~(machine.shared \/ provider) THEN "local"
    ELSE "unattributed"
OriginOf(h) ==
    IF Spends(h) THEN "proven"
    ELSE IF BadCapability(h) THEN "refused"
    ELSE IF ClaimsPlatform(h) THEN "claimed"
    ELSE IF job[h].ask.mark = "local" \/ ~(machine.shared \/ provider) THEN "local"
    ELSE "unattributed"
Attribute(h) ==
    /\ On(h, "read")
    /\ job' = [job EXCEPT ![h].pc = "routing", ![h].origin = OriginOf(h)]
    /\ tickets' = tickets - (IF Spends(h) THEN 1 ELSE 0)
    /\ marked' = marked + (IF Spends(h) THEN 1 ELSE 0)
    /\ provider' = (provider \/ Spends(h) \/ ClaimsPlatform(h))
    /\ lent' = (lent \/ Spends(h) \/ ClaimsPlatform(h))
    /\ UNCHANGED <<machine, channel, switched>>

\* No route runs for a bad capability.  A bad signature may mean that the published key is
\* not ours any more: then it is published again, and the request stays refused.
RefuseCapability(h) ==
    /\ On(h, "routing") /\ job[h].origin = "refused"
    /\ channel' = IF job[h].ask.cap = "forged" THEN "ours" ELSE channel
    /\ Answer(h, 403)
    /\ UNCHANGED <<machine, provider, tickets, marked, switched, lent>>

Allowed(h) == On(h, "routing") /\ job[h].origin # "refused"
Asked(h, path) == Allowed(h) /\ job[h].ask.path = path
\* A vocabulary-only service has two routes.
Served(h, path) == Asked(h, path) /\ ~machine.vocabularyOnly

Health(h) == Asked(h, "health") /\ Answer(h, 200) /\ UNCHANGED <<machine, facts>>
NotServedHere(h) ==
    /\ Allowed(h) /\ machine.vocabularyOnly /\ job[h].ask.path \notin {"health", "tokenize"}
    /\ Answer(h, 404)
    /\ UNCHANGED <<machine, facts>>

\* POST /idletoken/v1/platform/admit; `key` is the channel's, `sound` the hash and the job's name.
\* Mutant: a mint does not make this machine a provider.
AdmitRouteUnlatched(h) ==
    /\ Served(h, "admit")
    /\ LET a == job[h].ask
           minted == ~a.browser /\ a.key /\ a.sound
       IN /\ Answer(h, IF a.browser THEN 403 ELSE IF ~a.key THEN 401 ELSE IF ~a.sound THEN 400 ELSE 200)
          /\ minted => tickets < MaxMints
          /\ tickets' = tickets + (IF minted THEN 1 ELSE 0)
          /\ lent' = (lent \/ minted)
    /\ UNCHANGED <<machine, provider, marked, channel, switched>>
AdmitRoute(h) ==
    /\ Served(h, "admit")
    /\ LET a == job[h].ask
           minted == ~a.browser /\ a.key /\ a.sound
       IN /\ Answer(h, IF a.browser THEN 403 ELSE IF ~a.key THEN 401 ELSE IF ~a.sound THEN 400 ELSE 200)
          /\ minted => tickets < MaxMints
          /\ tickets' = tickets + (IF minted THEN 1 ELSE 0)
          /\ provider' = (provider \/ minted)
          /\ lent' = (lent \/ minted)
    /\ UNCHANGED <<machine, marked, channel, switched>>

\* POST /idletoken/v1/overflow: what is not a literal true switches borrowing off, and off
\* is never refused.
SwitchOverflow(h) ==
    /\ Served(h, "overflow")
    /\ LET a == job[h].ask
           on == a.sound
           refused == on /\ ~machine.configured
       IN /\ Answer(h, IF a.browser THEN 403 ELSE IF refused THEN 409 ELSE 200)
          /\ switched' = IF a.browser \/ refused THEN switched ELSE on
    /\ UNCHANGED <<machine, provider, tickets, marked, channel, lent>>

\* What only reads: anybody may ask, whatever the engine does.
Posture(h) == Served(h, "privacy") /\ Answer(h, 200) /\ UNCHANGED <<machine, facts>>
Stats(h) == Served(h, "stats") /\ Answer(h, 200) /\ UNCHANGED <<machine, facts>>
ClusterStatus(h) == Served(h, "cluster") /\ Answer(h, 200) /\ UNCHANGED <<machine, facts>>
Capability(h) ==
    /\ Served(h, "capability")
    /\ \E code \in {200, 500, 503} : Answer(h, code)
    /\ UNCHANGED <<machine, facts>>
NoSuchEndpoint(h) == Served(h, "unknown") /\ Answer(h, 404) /\ UNCHANGED <<machine, facts>>

-----------------------------------------------------------------------------
\* The vendor-compatible routes stand behind three gates.
Compatible == {"tokenize", "count", "chat", "models"}
StrangersWork(h) == machine.shared /\ job[h].origin \in {"proven", "claimed"} /\ machine.unverified
TurnedAway(h) ==
    /\ \E path \in Compatible : Asked(h, path) /\ (machine.vocabularyOnly => path = "tokenize")
    /\ LET a == job[h].ask
       IN \/ a.browser /\ Answer(h, 403)
          \/ ~a.browser /\ ~a.key /\ Answer(h, 401)
          \/ ~a.browser /\ a.key /\ StrangersWork(h) /\ Answer(h, 503)
    /\ UNCHANGED <<machine, facts>>
\* Mutant: the token gate stands before the chat only.
PassesGatesTokenless(h, path) ==
    /\ Asked(h, path) /\ (machine.vocabularyOnly => path = "tokenize")
    /\ ~job[h].ask.browser /\ (path = "chat" => job[h].ask.key) /\ ~StrangersWork(h)
PassesGates(h, path) ==
    /\ Asked(h, path) /\ (machine.vocabularyOnly => path = "tokenize")
    /\ ~job[h].ask.browser /\ job[h].ask.key /\ ~StrangersWork(h)

Models(h) == PassesGates(h, "models") /\ Answer(h, 200) /\ UNCHANGED <<machine, facts>>

\* Without an engine of its own: a labelled mock answers chats where it was asked for.
WithoutEngine(h) ==
    /\ machine.engine # "llama"
    /\ \E path \in {"tokenize", "count", "chat"} :
          /\ PassesGates(h, path)
          /\ Answer(h, IF path = "chat" /\ machine.engine = "mock" THEN 200 ELSE 503)
    /\ UNCHANGED <<machine, facts>>

\* llama_gate_ready(): an engine that does not serve is named, and nothing else answers.
\* Whether it serves is the supervisor's and the warm-up's business: here, at any moment, or not.
ToEngine(h, path) == machine.engine = "llama" /\ PassesGates(h, path)
NotReady(h) ==
    /\ \E path \in {"tokenize", "count", "chat"} : ToEngine(h, path)
    /\ Answer(h, 503)
    /\ UNCHANGED <<machine, facts>>
Enter(h, pc) ==
    /\ IF job[h].ask.sound THEN job' = [job EXCEPT ![h].pc = pc] ELSE Answer(h, 400)
    /\ UNCHANGED <<machine, facts>>
TokenizeRoute(h) == ToEngine(h, "tokenize") /\ Enter(h, "counting")
CountTokensRoute(h) == ToEngine(h, "count") /\ Enter(h, "templating")
ToChatRoute(h) == ToEngine(h, "chat") /\ Enter(h, "chatting")

\* A call of the engine: it answers, refuses this body, says it is not ready, answers
\* something else, cannot be reached or is lost; or the client leaves meanwhile.
EngineSays == {"yes", "refuses", "loads", "odd", "lost"}
\* llama_prompt_token_count(): only a body the engine rejected is the client's fault.
\* Mutant: an engine that is loading is taken for one that refuses.
TemplateAnsweredHarsh(h) ==
    /\ On(h, "templating")
    /\ \/ Hear(h, "left")
       \/ \E e \in EngineSays :
             job' = [job EXCEPT ![h].said = e,
                                ![h].pc = IF e = "yes" THEN "counting" ELSE "over",
                                ![h].code = IF e = "yes" THEN 0 ELSE IF e \in {"refuses", "loads"} THEN 400 ELSE 503]
    /\ UNCHANGED <<machine, facts>>
TemplateAnswered(h) ==
    /\ On(h, "templating")
    /\ \/ Hear(h, "left")
       \/ \E e \in EngineSays :
             job' = [job EXCEPT ![h].said = e,
                                ![h].pc = IF e = "yes" THEN "counting" ELSE "over",
                                ![h].code = IF e = "yes" THEN 0 ELSE IF e = "refuses" THEN 400 ELSE 503]
    /\ UNCHANGED <<machine, facts>>
\* The text is of the coordinator's own making, or was only asked to be counted.
Counted(h) ==
    /\ On(h, "counting")
    /\ \/ Hear(h, "left")
       \/ \E e \in EngineSays :
             Answer(h, IF e = "yes" THEN 200 ELSE 503)
    /\ UNCHANGED <<machine, facts>>
\* llama_chat_route() has answered, or its client has left: ChatRoute.
Chatted(h) ==
    /\ On(h, "chatting")
    /\ Answer(h, 200) \/ Hear(h, "left")
    /\ UNCHANGED <<machine, facts>>

\* The pool's thread, after the connection is closed: a mark it holds is given back.
\* Mutant: only a request that was answered well gives its mark back.
FinishServed(h) ==
    /\ On(h, "over")
    /\ job' = [job EXCEPT ![h] = Idle0]
    /\ marked' = marked - (IF job[h].origin = "proven" /\ job[h].code = 200 THEN 1 ELSE 0)
    /\ UNCHANGED <<machine, provider, tickets, channel, switched, lent>>
Finish(h) ==
    /\ On(h, "over")
    /\ job' = [job EXCEPT ![h] = Idle0]
    /\ marked' = marked - (IF job[h].origin = "proven" THEN 1 ELSE 0)
    /\ UNCHANGED <<machine, provider, tickets, channel, switched, lent>>

-----------------------------------------------------------------------------
\* Another start of the program publishes its own key; a capability of ours expires unspent.
Overwritten ==
    /\ channel = "ours" /\ channel' = "another's"
    /\ UNCHANGED <<machine, provider, tickets, marked, switched, lent, job>>
TicketExpires ==
    /\ tickets > 0 /\ tickets' = tickets - 1
    /\ UNCHANGED <<machine, provider, marked, channel, switched, lent, job>>

Route(h) ==
    \/ Health(h) \/ NotServedHere(h) \/ AdmitRoute(h) \/ SwitchOverflow(h) \/ Posture(h) \/ Stats(h)
    \/ ClusterStatus(h) \/ Capability(h) \/ NoSuchEndpoint(h) \/ TurnedAway(h) \/ Models(h)
    \/ WithoutEngine(h) \/ NotReady(h) \/ TokenizeRoute(h) \/ CountTokensRoute(h) \/ ToChatRoute(h)
HandlerStep(h) ==
    \/ Receive(h) \/ ReadFails(h) \/ Attribute(h) \/ RefuseCapability(h) \/ Route(h)
    \/ TemplateAnswered(h) \/ Counted(h) \/ Chatted(h) \/ Finish(h)
RoutesNext == (\E h \in Handlers : HandlerStep(h)) \/ Overwritten \/ TicketExpires
RoutesSpec == RoutesInit /\ [][RoutesNext]_routesVars

-----------------------------------------------------------------------------
\* Whatever the engine works on was let in by every gate: its capability, if it brought one,
\* was spent for it, no page and no stranger without the token sent it, and work of others
\* is not in an unverified engine of a sharing machine.
EngineSeesTheEntitled ==
    \A h \in Handlers : job[h].pc \in {"templating", "counting", "chatting"} =>
        LET a == job[h].ask
        IN /\ a.cap # "none" => job[h].origin = "proven"
           /\ a.key /\ ~a.browser
           /\ machine.vocabularyOnly => a.path = "tokenize"
           /\ ~(machine.shared /\ machine.unverified
                /\ (a.mark = "legacy" \/ a.cap # "none"))

\* Once work of others has been accepted here, a request that came later and carries no
\* local marker is never taken for the owner's (the question overflow and the log ask).
UnmarkedIsNotTheOwners ==
    \A h \in Handlers :
        job[h].after /\ job[h].origin = "local" => job[h].ask.mark = "local"

\* A client is told that its request is at fault exactly when it is: the body made no sense
\* here, or the engine, alive, refused to put it into its template.  A loading or lost engine
\* is this machine's fault; the platform cools a machine down over the one, not the other.
BlameIsRight ==
    \A h \in Handlers : On(h, "over") /\ job[h].origin # "none" =>
        /\ job[h].code = 400 /\ job[h].ask.sound => job[h].said = "refuses"
        /\ job[h].said = "refuses" => job[h].code = 400

\* Every way out of the handler gives an admitted job's mark back, exactly once, so that the
\* machine is busy for the platform exactly while a job of the platform's is handled.
MarksMatchJobs ==
    marked = Cardinality({h \in Handlers : job[h].origin = "proven"})

RoutesHold ==
    /\ EngineSeesTheEntitled /\ UnmarkedIsNotTheOwners /\ BlameIsRight /\ MarksMatchJobs
=============================================================================
