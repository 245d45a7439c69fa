---------------------------- MODULE ClientEngine ----------------------------
(***************************************************************************)
(* The desktop client's supervisor of its sidecars                         *)
(* (src/client/src-tauri/src/engine.rs): one slot for each role, one loop  *)
(* for each start of a role, at most one process under each loop.          *)
(*                                                                         *)
(* A loop owns its slot until a stop or another start of the role takes    *)
(* the slot from it (the slot's generation moves on); it looks whether it  *)
(* still does each time it takes the lock, and spawning, reading and       *)
(* sleeping happen without the lock.  Commands come from the window and    *)
(* from the roster's threads, which do not wait for each other.            *)
(***************************************************************************)
EXTENDS Integers

CONSTANTS Roles, Agent,     \* the roles; the one a stop of the engine leaves alone
          Requests,         \* argument lists a role can be started with
          Loops,            \* bound: supervisor loops alive at once
          MaxRestarts,      \* MAX_QUICK_RESTARTS (5)
          MaxStarts         \* bound: starts of a role

ASSUME ClientEngineAssumption ==
    /\ Agent \in Roles
    /\ MaxRestarts \in Nat /\ MaxStarts \in Nat
    /\ "none" \notin Loops

VARIABLES slots, loops,
          serving,          \* the model switch under way, and what it asks for
          failing,          \* the role whose engine failed for good, while it is torn down
          starts

engineVars == <<slots, loops, serving, failing, starts>>

None == "none"
Over == [pc |-> "over", role |-> None, proc |-> "none"]
Vacant == [state |-> "stopped", owner |-> None, child |-> None, restarts |-> 0,
           refused |-> "no", request |-> None]
Busy == {"starting", "running", "restarting"}
Inference == Roles \ {Agent}

EngineInit ==
    /\ slots = [r \in Roles |-> Vacant]
    /\ loops = [l \in Loops |-> Over]
    /\ serving = [pc |-> "idle"] /\ failing = None
    /\ starts = 0

Owns(l) == loops[l] # Over /\ slots[loops[l].role].owner = l
SlotOf(l) == slots[loops[l].role]
SetSlot(l, slot) == slots' = [slots EXCEPT ![loops[l].role] = slot]
Goto(l, pc) == loops' = [loops EXCEPT ![l].pc = pc]
End(l) == loops' = [loops EXCEPT ![l] = Over]

-----------------------------------------------------------------------------
\* A role that is busy is not started; a start clears what the last one left.
StartRole(r, request) ==
    /\ starts < MaxStarts /\ starts' = starts + 1
    /\ IF slots[r].state \in Busy THEN UNCHANGED <<slots, loops>>
       ELSE \E l \in Loops :
              /\ loops[l] = Over
              /\ slots' = [slots EXCEPT ![r] = [Vacant EXCEPT !.state = "starting", !.owner = l,
                                                              !.request = request]]
              /\ loops' = [loops EXCEPT ![l] = [pc |-> "spawn", role |-> r, proc |-> "none",
                                                says |-> FALSE, code |-> "none"]]

\* Every slot is taken from its loop and its child is told to end, and made to after
\* 2.5 s; the reason of a refusal stays for the window to show.
StopRoles(rs) ==
    /\ slots' = [r \in Roles |->
          IF r \notin rs THEN slots[r]
          ELSE [slots[r] EXCEPT !.state = "stopped", !.owner = None, !.child = None, !.restarts = 0]]
    /\ loops' = [l \in Loops |->
          IF loops[l].proc = "up" /\ loops[l].role \in rs /\ slots[loops[l].role].child = l
          THEN [loops[l] EXCEPT !.proc = "told"] ELSE loops[l]]

StartEngine(r, request) == StartRole(r, request) /\ UNCHANGED <<serving, failing>>
StopEngine == StopRoles(Inference) /\ UNCHANGED <<serving, failing, starts>>
StopAgent == StopRoles({Agent}) /\ UNCHANGED <<serving, failing, starts>>
StopAll == StopRoles(Roles) /\ UNCHANGED <<serving, failing, starts>>

\* llamacpp_serve: nothing to do for the request that is up; else stop, then start.
Serve(r, request) ==
    /\ serving.pc = "idle" /\ r \in Inference
    /\ ~(slots[r].state \in Busy /\ slots[r].request = request)
    /\ serving' = [pc |-> "stop", role |-> r, request |-> request]
    /\ UNCHANGED <<slots, loops, failing, starts>>
ServeStops ==
    /\ serving.pc = "stop"
    /\ StopRoles(Inference)
    /\ serving' = [serving EXCEPT !.pc = "start"]
    /\ UNCHANGED <<failing, starts>>
ServeStarts ==
    /\ serving.pc = "start"
    /\ StartRole(serving.role, serving.request)
    /\ serving' = [pc |-> "idle"]
    /\ UNCHANGED failing

\* stop_after_permanent_failure: the reason goes on the slot, then the engine stops.
NoteFailure(r) ==
    /\ failing = None /\ r \in Inference /\ slots[r].state \in Busy
    /\ slots' = [slots EXCEPT ![r].refused = IF @ = "no" THEN "noted" ELSE @]
    /\ failing' = r
    /\ UNCHANGED <<loops, serving, starts>>
StopFailed ==
    /\ failing # None
    /\ StopRoles(Inference)
    /\ failing' = None
    /\ UNCHANGED <<serving, starts>>

-----------------------------------------------------------------------------
\* The loop.
At(l, pc) == loops[l].pc = pc
LoopOnly == UNCHANGED <<serving, failing, starts>>

Spawn(l, spawned) ==
    /\ At(l, "spawn")
    /\ IF ~Owns(l) THEN End(l)
       ELSE loops' = [loops EXCEPT ![l].pc = IF spawned THEN "book" ELSE "retry",
                                   ![l].proc = IF spawned THEN "up" ELSE "none",
                                   ![l].says = FALSE, ![l].code = "none"]
    /\ UNCHANGED slots /\ LoopOnly

\* Mutant: what was spawned is kept, whoever owns the slot by now.
BookAnyway(l) ==
    /\ At(l, "book")
    /\ IF Owns(l) THEN SetSlot(l, [SlotOf(l) EXCEPT !.child = l, !.state = "running"])
       ELSE UNCHANGED slots
    /\ Goto(l, "drain")
    /\ LoopOnly

\* Stopped while it was spawning: the process is killed at once.
Book(l) ==
    /\ At(l, "book")
    /\ IF Owns(l)
       THEN /\ SetSlot(l, [SlotOf(l) EXCEPT !.child = l, !.state = "running"])
            /\ Goto(l, "drain")
       ELSE End(l) /\ UNCHANGED slots
    /\ LoopOnly

HearRefusal(l) ==
    /\ At(l, "drain") /\ loops[l].says
    /\ loops' = [loops EXCEPT ![l].says = FALSE]
    /\ IF Owns(l) THEN SetSlot(l, [SlotOf(l) EXCEPT !.refused = "said"]) ELSE UNCHANGED slots
    /\ LoopOnly

\* The pipe is read to its end before the exit is seen; exit 3 is a refusal too.
HearExit(l) ==
    /\ At(l, "drain") /\ loops[l].proc = "gone" /\ ~loops[l].says
    /\ loops' = [loops EXCEPT ![l].pc = "retry", ![l].proc = "none", ![l].code = "none"]
    /\ IF Owns(l) /\ loops[l].code = "refused" /\ SlotOf(l).refused = "no"
       THEN SetSlot(l, [SlotOf(l) EXCEPT !.refused = "said"]) ELSE UNCHANGED slots
    /\ LoopOnly

\* Mutant: a run that was long enough forgives a refusal too.
RetryForgiving(l, stable) ==
    LET slot == SlotOf(l)
        after == IF stable THEN 0 ELSE slot.restarts
    IN  /\ At(l, "retry")
        /\ stable => ~Owns(l) \/ slot.child = l
        /\ IF ~Owns(l) THEN End(l) /\ UNCHANGED slots
           ELSE IF (slot.refused # "no" /\ ~stable) \/ after >= MaxRestarts
                THEN End(l) /\ SetSlot(l, [slot EXCEPT !.state = "crashed", !.child = None])
                ELSE Goto(l, "sleep") /\ SetSlot(l, [slot EXCEPT !.state = "restarting",
                                                     !.child = None, !.restarts = after + 1])
        /\ LoopOnly

\* should_retry_after_exit: nothing when the slot is another's; a refusal is final; a
\* run that was long enough forgives the restarts before it; five quick ones end it.
Retry(l, stable) ==
    LET slot == SlotOf(l)
        after == IF stable THEN 0 ELSE slot.restarts
        left == [slot EXCEPT !.child = None]
    IN  /\ At(l, "retry")
        /\ stable => ~Owns(l) \/ slot.child = l
        /\ IF ~Owns(l) THEN End(l) /\ UNCHANGED slots
           ELSE IF slot.refused # "no" \/ after >= MaxRestarts
                THEN End(l) /\ SetSlot(l, [left EXCEPT !.state = "crashed",
                              !.restarts = IF slot.refused # "no" THEN @ ELSE after])
                ELSE Goto(l, "sleep") /\ SetSlot(l, [left EXCEPT !.state = "restarting",
                                                                 !.restarts = after + 1])
        /\ LoopOnly
Wake(l) ==
    /\ At(l, "sleep")
    /\ IF Owns(l) THEN Goto(l, "spawn") ELSE End(l)
    /\ UNCHANGED slots /\ LoopOnly

\* The process: it may say that it will not join, and it ends.
Refuses(l) ==
    /\ loops[l].proc = "up" /\ ~loops[l].says
    /\ loops' = [loops EXCEPT ![l].says = TRUE]
    /\ UNCHANGED slots /\ LoopOnly
Exits(l, code) ==
    /\ loops[l].proc \in {"up", "told"}
    /\ loops' = [loops EXCEPT ![l].proc = "gone", ![l].code = code]
    /\ UNCHANGED slots /\ LoopOnly

EngineNext ==
    \/ \E r \in Roles, q \in Requests : StartEngine(r, q) \/ Serve(r, q)
    \/ StopEngine \/ StopAgent \/ StopAll \/ ServeStops \/ ServeStarts
    \/ \E r \in Roles : NoteFailure(r)
    \/ StopFailed
    \/ \E l \in Loops :
          \/ Book(l) \/ HearRefusal(l) \/ HearExit(l) \/ Wake(l) \/ Refuses(l)
          \/ \E b \in BOOLEAN : Spawn(l, b) \/ Retry(l, b)
          \/ \E code \in {"any", "refused"} : Exits(l, code)

EngineSpec == EngineInit /\ [][EngineNext]_engineVars

-----------------------------------------------------------------------------
\* However a stop, a start and a spawn fall, no sidecar is left running on its own: a
\* process that has not been told to end is the child of its role's slot, under the loop
\* that owns the slot, or its loop is about to book it or kill it; and a role's slot that
\* runs has one.
ChildrenAreKnown ==
    /\ \A l \in Loops : loops[l].proc = "up" => At(l, "book") \/ (Owns(l) /\ SlotOf(l).child = l)
    /\ \A r \in Roles : slots[r].state = "running" =>
          LET l == slots[r].owner IN
          l # None /\ slots[r].child = l /\ loops[l].pc \in {"drain", "retry"}

\* A sidecar that said it will not join, on a line or by exit 3, is not started again
\* for that slot before somebody starts the role: no restart repeats a refusal.
RefusalIsFinal ==
    [][\A l \in Loops :
          At(l, "spawn") /\ loops'[l].proc = "up" => SlotOf(l).refused # "said"]_engineVars
=============================================================================
