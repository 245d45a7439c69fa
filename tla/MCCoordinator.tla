--------------------------- MODULE MCCoordinator ---------------------------
(* What a coordinator process owes: the key it publishes (AdmissionChannel), *)
(* the engine it supervises (Sidecar) and the requests on its chat route     *)
(* (ChatRoute), each on its own small instance.                              *)
EXTENDS Sidecar, AdmissionChannel, ChatRoute

VARIABLE component   \* "key", "engine" or "route": which of the three this behavior is of

LocalOnly == {[origin |-> "local", hops |-> 0]}

CoordinatorVars == <<sidecarVars, channelVars, chatVars, component>>
CoordinatorInit ==
    /\ SidecarInit /\ ChannelInit /\ RouteInit
    /\ component \in {"key", "engine", "route"}
    /\ component # "key" => lockable
    /\ component # "route" => ~ovf.on
CoordinatorNext ==
    \/ component = "key" /\ ChannelNext /\ UNCHANGED <<sidecarVars, chatVars, component>>
    \/ component = "engine" /\ SidecarNext /\ UNCHANGED <<channelVars, chatVars, component>>
    \/ component = "route" /\ RouteNext /\ UNCHANGED <<sidecarVars, channelVars, component>>

\* Threads and the agent's job loop are scheduled; nobody owes a start or an exit.
KeyFairness ==
    /\ WF_channelVars(component = "key" /\ (Forward \/ Unreachable))
    /\ \A c \in Coords : WF_channelVars(component = "key" /\ Handler(c))
\* Both threads run and time passes; the engine owes nothing.  The monitor sleeps
\* 300 ms without the mutex in every iteration, so the other thread gets it.
EngineFairness ==
    /\ WF_sidecarVars(component = "engine" /\ Monitor)
    /\ SF_sidecarVars(component = "engine" /\ MainStep)
    /\ WF_sidecarVars(component = "engine" /\ BackoffEnds)
\* ThreadFairness asks nothing of a route no request arrives on.
CoordinatorSpec ==
    /\ CoordinatorInit /\ [][CoordinatorNext]_CoordinatorVars
    /\ KeyFairness /\ EngineFairness /\ ThreadFairness

\* A supervised engine comes to rest: a refusal of the model stops the restarts for good, and
\* a crash loop is given up (llama_sidecar.c's monitor).
EngineSettles == FatalStopsEverything /\ CrashLoopEnds

\* A request is over in the end, and sooner once its client is gone: its thread sees that
\* wherever it waits, borrows or is served.  And a ticket that is refused because the key's
\* file was damaged is not refused for ever: the file is repaired.
RequestsEnd == GoneRequestsLeave /\ EveryRequestEnds /\ RefusalsEnd
=============================================================================
