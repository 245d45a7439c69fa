-------------------------- MODULE CoordinatorStart --------------------------
(***************************************************************************)
(* The life of one coordinator process with a llama.cpp engine             *)
(* (src/src/coord/coord_main.c, main() and run_llamacpp_mode()): a fixed   *)
(* sequence of checks, each of which may refuse with its own exit code;    *)
(* the engine is spawned; the doors are opened; the threads are started;   *)
(* the accept loop runs; and everything is given back in reverse.          *)
(*                                                                         *)
(* Beside the sequence there are: somebody who ends the process at any     *)
(* moment, somebody who edits ~/.idletoken/kv-cache-type, the engine       *)
(* (Sidecar has its inside), the threads of the pools (IntakePool), and    *)
(* the thread that warms the local layers.  What the checks look at is one *)
(* name each, a defect; the plan itself is Planner's, the cluster's forming*)
(* is ClusterForm's and EngineStart's.                                     *)
(***************************************************************************)
EXTENDS Integers, Sequences

CONSTANTS Setups,         \* how the process may be started
          PoolThreads,    \* LLAMA_POOL_MAX_THREADS (16)
          ControlThreads, \* LLAMA_CONTROL_THREADS (4)
          MaxConns        \* bound on connections inside at a time

Untyped == <<"unset", "unset">>
ASSUME StartAssumption ==
    /\ PoolThreads \in Nat \ {0} /\ ControlThreads \in Nat \ {0} /\ MaxConns \in Nat
    /\ \A s \in Setups :
          /\ s.os \in {"linux", "macos", "windows"} /\ s.slots \in Nat \ {0}
          /\ s.env \in STRING \X STRING /\ s.file \in STRING /\ s.rule \in STRING

VARIABLES setup,    \* the command line, the environment and the machine
          stage,    \* what the main thread does next
          code,     \* its exit code, once there is one
          cache,    \* where the type of the KV cache comes from, and what was made of it
          width,    \* sequence slots: decided, given to the engine, and let in by the gate
          engine,   \* the child: "none", "loading", "ready", or "fatal" (refused over)
          held,     \* what else must be given back: "monitor", "api", "unix"
          crew,     \* threads of the two pools
          postload, \* local layers to warm: "none", "wanted", "warming", "done", "failed"
          load,     \* connections queued, and in a thread's hands
          signal    \* handlers installed, and a signal received

startVars == <<setup, stage, code, cache, width, engine, held, crew, postload, load, signal>>
afterStage == <<setup, cache, width, engine, held, crew, postload, load, signal>>

Ended == stage \in {"exited", "killed", "elsewhere"}
At(s) == stage = s
GoTo(s) == stage' = s /\ UNCHANGED code
Quit(c) == stage' = "exited" /\ code' = c

StartInit ==
    /\ setup \in Setups
    /\ stage = "arguments" /\ code = 0
    /\ cache = [env |-> setup.env, file |-> setup.file, edited |-> FALSE, scaled |-> <<>>, spawned |-> <<>>]
    /\ width = [slots |-> 0, np |-> 0, gate |-> 0]
    /\ engine = "none" /\ held = {} /\ crew = [pool |-> 0, control |-> 0]
    /\ postload = "none" /\ load = [queued |-> 0, busy |-> 0]
    /\ signal = [armed |-> FALSE, told |-> FALSE]

-----------------------------------------------------------------------------
\* The checks, in the order the code makes them.  The admission key has been published
\* (AdmissionChannel) before any of the refusals after the first.
Check(here, defect, exit, next) ==
    /\ At(here)
    /\ IF defect \in setup.defects THEN Quit(exit) ELSE GoTo(next)
    /\ UNCHANGED afterStage

ReadArguments == Check("arguments", "argument", 2, "policy")
SetPolicy == Check("policy", "policy", 2, "overflow")
ConfigureOverflow == Check("overflow", "overflow", 2, "model")
ResolveModel == Check("model", "model", 2, "mode")
\* One flag of the two is a mistake; the vocabulary service and the legacy engine are others' code.
ChooseMode ==
    /\ At("mode")
    /\ IF setup.mode \in {"tokenizer", "legacy"} THEN GoTo("elsewhere")
       ELSE IF "one flag" \in setup.defects THEN Quit(2) ELSE GoTo("request")
    /\ UNCHANGED afterStage
CheckRequest == Check("request", "request", 2, "manifest")
ReadManifest == Check("manifest", "manifest", 2, "size")
SizeModel == Check("size", "size", 1, "draft")
CheckDraft == Check("draft", "draft", 2, "tower")
CheckTower == Check("tower", "tower", 2, "price")
ProbeMachine == Check("probe", "probe", 3, "quant")
ResolveQuant == Check("quant", "quant", 2, "fix cache")

\* idletoken_llama_kv_types(): the environment wins over the file, which names K only.
KvTypes == <<IF cache.env[1] # "unset" THEN cache.env[1] ELSE cache.file, cache.env[2]>>
Unsupported(t) == "bad" \in {t[1], t[2]}
Scaled(t) == IF t = Untyped THEN <<>> ELSE <<t>>

\* The plan is priced at the type in force; later the weights' own rule fixes the type, if none was asked for.
PriceCache ==
    /\ At("price")
    /\ IF Unsupported(KvTypes) THEN Quit(2) /\ UNCHANGED cache
       ELSE GoTo("probe") /\ cache' = [cache EXCEPT !.scaled = @ \o Scaled(KvTypes)]
    /\ UNCHANGED <<setup, width, engine, held, crew, postload, load, signal>>
\* Mutant: the rule prices again what the user has chosen.
FixCacheAgain ==
    /\ At("fix cache")
    /\ IF Unsupported(KvTypes) THEN Quit(2) /\ UNCHANGED cache
       ELSE /\ GoTo(IF setup.mode = "cluster" THEN "form" ELSE "plan")
            /\ LET fixed == <<setup.rule, setup.rule>>
               IN cache' = [cache EXCEPT !.env = IF KvTypes = Untyped THEN fixed ELSE @,
                                         !.scaled = @ \o Scaled(fixed)]
    /\ UNCHANGED <<setup, width, engine, held, crew, postload, load, signal>>
FixCache ==
    /\ At("fix cache")
    /\ IF Unsupported(KvTypes) THEN Quit(2) /\ UNCHANGED cache
       ELSE /\ GoTo(IF setup.mode = "cluster" THEN "form" ELSE "plan")
            /\ LET fixed == <<setup.rule, setup.rule>>
               IN cache' = IF KvTypes = Untyped
                           THEN [cache EXCEPT !.env = fixed, !.scaled = @ \o Scaled(fixed)]
                           ELSE cache
    /\ UNCHANGED <<setup, width, engine, held, crew, postload, load, signal>>

\* The cluster forms, is planned and is loaded, or it does not; or this machine is planned alone.
FormCluster ==
    /\ At("form")
    /\ \/ \E exit \in {1, 2, 3} : Quit(exit)
       \/ GoTo("slots")
    /\ UNCHANGED afterStage
PlanAlone ==
    /\ At("plan")
    /\ \/ \E exit \in {1, 3} : Quit(exit)
       \/ GoTo("expert slots")
    /\ UNCHANGED afterStage
ExpertSlots == Check("expert slots", "expert slots", 1, "slots")
\* llama_decide_slots(): one, or what a measurement asks for.
DecideSlots ==
    /\ At("slots") /\ GoTo("state")
    /\ width' = [width EXCEPT !.slots = setup.slots]
    /\ UNCHANGED <<setup, cache, engine, held, crew, postload, load, signal>>

-----------------------------------------------------------------------------
\* run_llamacpp_mode(): shared work needs a private place for the engine's socket.
PrepareState ==
    /\ At("state")
    /\ IF setup.shared /\ "home" \in setup.defects THEN Quit(3) ELSE GoTo("files")
    /\ postload' = IF setup.mode = "cluster" /\ setup.prefix THEN "wanted" ELSE "none"
    /\ UNCHANGED <<setup, cache, width, engine, held, crew, load, signal>>
CheckFiles == Check("files", "files", 2, "view")
CheckView == Check("view", "view", 2, "engine")

\* idletoken_llama_start(): the type of the cache is looked up once more, and now it is the engine's.
Refused == (setup.mtp /\ width.slots # 1) \/ "extra" \in setup.defects \/ Unsupported(KvTypes)
StartEngine ==
    /\ At("engine")
    /\ \/ Quit(1) /\ UNCHANGED <<cache, width, engine>>
       \/ /\ ~Refused
          /\ GoTo("monitor") /\ engine' = "loading"
          /\ cache' = [cache EXCEPT !.spawned = KvTypes]
          /\ width' = [width EXCEPT !.np = width.slots]
    /\ UNCHANGED <<setup, held, crew, postload, load, signal>>
\* The thread that supervises the child; without it there is no child either.
StartMonitor ==
    /\ At("monitor")
    /\ \/ GoTo("handlers") /\ held' = held \cup {"monitor"} /\ UNCHANGED engine
       \/ Quit(1) /\ engine' = "none" /\ UNCHANGED held
    /\ UNCHANGED <<setup, cache, width, crew, postload, load, signal>>
\* Only now a signal is more than the end of the process; on Windows it never is.
InstallHandlers ==
    /\ At("handlers") /\ GoTo("listen")
    /\ signal' = [signal EXCEPT !.armed = setup.os # "windows"]
    /\ UNCHANGED <<setup, cache, width, engine, held, crew, postload, load>>
ListenHere ==
    /\ At("listen")
    /\ \/ GoTo(IF setup.unix THEN "listen unix" ELSE "threads") /\ held' = held \cup {"api"} /\ UNCHANGED engine
       \/ Quit(1) /\ engine' = "none" /\ held' = {}
    /\ UNCHANGED <<setup, cache, width, crew, postload, load, signal>>
\* Mutant: the refusal forgets the engine.
ListenForAgentLeaky ==
    /\ At("listen unix")
    /\ \/ GoTo("threads") /\ held' = held \cup {"unix"}
       \/ Quit(3) /\ held' = {}
    /\ UNCHANGED <<setup, cache, width, engine, crew, postload, load, signal>>
ListenForAgent ==
    /\ At("listen unix")
    /\ \/ GoTo("threads") /\ held' = held \cup {"unix"} /\ UNCHANGED engine
       \/ Quit(3) /\ engine' = "none" /\ held' = {}
    /\ UNCHANGED <<setup, cache, width, crew, postload, load, signal>>

\* As many threads as there can be.  None of a kind: all is undone.  Fewer than planned: the
\* gate is set to what they carry, which may be more than the engine was given.
StartThreads ==
    /\ At("threads")
    /\ \E p \in 0..PoolThreads, c \in 0..ControlThreads :
          IF p = 0 \/ c = 0
          THEN Quit(1) /\ engine' = "none" /\ held' = {} /\ UNCHANGED <<crew, width>>
          ELSE /\ GoTo("gate") /\ crew' = [pool |-> p, control |-> c]
               /\ width' = IF p < PoolThreads
                           THEN [width EXCEPT !.slots = IF (p - 1) \div 2 > 0 THEN (p - 1) \div 2 ELSE 1]
                           ELSE width
               /\ UNCHANGED <<engine, held>>
    /\ UNCHANGED <<setup, cache, postload, load, signal>>
\* Mutant: every thread of the pool is a slot.
OpenGateWide ==
    /\ At("gate") /\ GoTo("serving")
    /\ width' = [width EXCEPT !.gate = crew.pool]
    /\ UNCHANGED <<setup, cache, engine, held, crew, postload, load, signal>>
OpenGate ==
    /\ At("gate") /\ GoTo("serving")
    /\ width' = [width EXCEPT !.gate = width.slots]
    /\ UNCHANGED <<setup, cache, engine, held, crew, postload, load, signal>>

-----------------------------------------------------------------------------
\* One pass of the accept loop: a signal, then the layers to be warmed, then what is refused
\* over, then a connection; an accept() that fails ends the loop like a signal does.
Stop(c) == stage' = "stopping" /\ code' = c /\ UNCHANGED load
AcceptOne ==
    \/ GoTo("serving") /\ UNCHANGED load
    \/ load.queued + load.busy < MaxConns /\ GoTo("serving") /\ load' = [load EXCEPT !.queued = @ + 1]
    \/ Stop(0)
\* Mutant: the signal is looked for when there is nothing to accept.
LookLate ==
    /\ At("serving")
    /\ \/ AcceptOne /\ UNCHANGED postload
       \/ signal.told /\ load.queued + load.busy = 0 /\ Stop(0) /\ UNCHANGED postload
       \/ /\ postload' \in IF postload = "wanted" /\ engine = "ready" THEN {"warming", "failed"} ELSE {postload}
          /\ postload' = "failed" \/ engine = "fatal"
          /\ Stop(3)
    /\ UNCHANGED <<setup, cache, width, engine, held, crew, signal>>
Look ==
    /\ At("serving")
    /\ \/ signal.told /\ Stop(0) /\ UNCHANGED postload
       \/ /\ ~signal.told
          /\ postload' \in IF postload = "wanted" /\ engine = "ready" THEN {"warming", "failed"} ELSE {postload}
          /\ IF postload' = "failed" \/ engine = "fatal" THEN Stop(3) ELSE AcceptOne
    /\ UNCHANGED <<setup, cache, width, engine, held, crew, signal>>

\* A thread takes what is queued, before or after the pools were told to stop, and ends it.
Take ==
    /\ load.queued > 0 /\ load.busy < crew.pool + crew.control /\ ~Ended
    /\ load' = [queued |-> load.queued - 1, busy |-> load.busy + 1]
    /\ UNCHANGED <<setup, stage, code, cache, width, engine, held, crew, postload, signal>>
EndRequest ==
    /\ load.busy > 0 /\ ~Ended
    /\ load' = [load EXCEPT !.busy = @ - 1]
    /\ UNCHANGED <<setup, stage, code, cache, width, engine, held, crew, postload, signal>>
EndWarming ==
    /\ postload = "warming" /\ ~Ended
    /\ postload' \in {"done", "failed"}
    /\ UNCHANGED <<setup, stage, code, cache, width, engine, held, crew, load, signal>>
EngineMoves ==
    /\ ~Ended
    /\ \/ engine = "loading" /\ engine' = "ready"
       \/ engine \in {"loading", "ready"} /\ "monitor" \in held /\ engine' = "fatal"
    /\ UNCHANGED <<setup, stage, code, cache, width, held, crew, postload, load, signal>>
EditFile ==
    /\ cache.spawned = <<>> /\ ~Ended
    /\ \E t \in {"unset", "q8", "bad"} : t # cache.file /\ cache' = [cache EXCEPT !.file = t, !.edited = TRUE]
    /\ UNCHANGED <<setup, stage, code, width, engine, held, crew, postload, load, signal>>
\* Without a handler the process is gone at once.  Linux kills the child with its parent and
\* Windows kills what is in the job; macOS has neither.
Terminate ==
    /\ ~Ended /\ ~signal.told
    /\ IF signal.armed THEN /\ signal' = [signal EXCEPT !.told = TRUE]
                            /\ UNCHANGED <<stage, engine, held, crew, load, postload>>
       ELSE /\ stage' = "killed" /\ engine' = IF setup.os = "macos" THEN engine ELSE "none"
            /\ held' = held \cap {"unix"} /\ crew' = [pool |-> 0, control |-> 0]
            /\ load' = [queued |-> 0, busy |-> 0] /\ postload' = "none"
            /\ UNCHANGED signal
    /\ UNCHANGED <<setup, code, cache, width>>

\* The pools are told to stop and drain; then every thread is waited for; then the doors are
\* closed, the agent's socket file goes, and the engine last.
StopPools == At("stopping") /\ GoTo("joining") /\ UNCHANGED afterStage
\* Mutant: the pools are not waited for.
JoinPoolsHasty ==
    /\ At("joining")
    /\ GoTo("warm joining") /\ UNCHANGED afterStage
JoinPools ==
    /\ At("joining") /\ load = [queued |-> 0, busy |-> 0]
    /\ GoTo("warm joining") /\ crew' = [pool |-> 0, control |-> 0]
    /\ UNCHANGED <<setup, cache, width, engine, held, postload, load, signal>>
JoinWarming == At("warm joining") /\ postload # "warming" /\ GoTo("closing") /\ UNCHANGED afterStage
CloseDoors ==
    /\ At("closing") /\ GoTo("shutting down") /\ held' = held \ {"api", "unix"}
    /\ UNCHANGED <<setup, cache, width, engine, crew, postload, load, signal>>
ShutDown ==
    /\ At("shutting down") /\ Quit(code)
    /\ engine' = "none" /\ held' = {}
    /\ UNCHANGED <<setup, cache, width, crew, postload, load, signal>>

Main ==
    \/ ReadArguments \/ SetPolicy \/ ConfigureOverflow \/ ResolveModel \/ ChooseMode
    \/ CheckRequest \/ ReadManifest \/ SizeModel \/ CheckDraft \/ CheckTower
    \/ PriceCache \/ ProbeMachine \/ ResolveQuant \/ FixCache
    \/ FormCluster \/ PlanAlone \/ ExpertSlots \/ DecideSlots
    \/ PrepareState \/ CheckFiles \/ CheckView \/ StartEngine \/ StartMonitor
    \/ InstallHandlers \/ ListenHere \/ ListenForAgent \/ StartThreads \/ OpenGate
    \/ Look \/ StopPools \/ JoinPools \/ JoinWarming \/ CloseDoors \/ ShutDown
StartNext == Main \/ Take \/ EndRequest \/ EndWarming \/ EngineMoves \/ EditFile \/ Terminate

\* The main thread never stays where it can go on; a request ends (RequestsEnd of ChatRoute's
\* composition), a queued one is taken, and the warming of the layers ends.
StartSpec == StartInit /\ [][StartNext]_startVars
StartFair == WF_startVars(Main) /\ WF_startVars(Take) /\ WF_startVars(EndRequest) /\ WF_startVars(EndWarming)

-----------------------------------------------------------------------------
\* A coordinator that has exited, refused or not, has left nothing: no engine, no open door,
\* no socket file, no thread, no connection; and one that is killed leaves no engine where the
\* system has a way to take it along.
LeavesNothing ==
    /\ stage = "exited" =>
          /\ engine = "none" /\ held = {} /\ load = [queued |-> 0, busy |-> 0]
          /\ crew = [pool |-> 0, control |-> 0] /\ postload # "warming"
    /\ stage = "killed" /\ setup.os # "macos" => engine = "none"
\* "A thread still inside handle_http_request owns a client fd and the engine connection
\* behind it": while anybody is served there are an engine and a gate that was set.
WorkHasEngine == load.busy + load.queued > 0 => engine # "none" /\ width.gate > 0 /\ "api" \in held
\* The engine's cache is of the type that the plan was priced at, once, unless the file
\* changed between two looks at it.
PricedIsSpawned == cache.spawned # <<>> /\ ~cache.edited => cache.scaled = Scaled(cache.spawned)
\* The gate lets in as many requests as the engine has slots, unless threads were short.
GateFitsEngine == stage = "serving" /\ crew.pool = PoolThreads => width.gate = width.np
\* What must hold of a coordinator's start, its service and its end.
ServiceIsWhole == LeavesNothing /\ WorkHasEngine /\ PricedIsSpawned /\ GateFitsEngine

\* A coordinator that heard the signal ends, and so does one whose engine is refused over,
\* whatever its threads are at.
StopsWhenTold == signal.told \/ (At("serving") /\ engine = "fatal") ~> Ended
=============================================================================
