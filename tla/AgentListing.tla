---------------------------- MODULE AgentListing ----------------------------
(***************************************************************************)
(* What a platform agent advertises (src/src/tools/platform_agent.c): it   *)
(* waits for an engine, registers the service the coordinator reports,     *)
(* re-registers when the engine was swapped under it, and keeps the        *)
(* listing fresh by its relay poll and by a heartbeat of a thread of its   *)
(* own, or, on the direct transport, by a heartbeat of its main loop.      *)
(*                                                                         *)
(* The engine and the platform are external: the coordinator is restarted  *)
(* at will, and the platform is modelled from what the agent asks of it.   *)
(***************************************************************************)
EXTENDS Integers, Sequences, FiniteSets

CONSTANTS Services,     \* model, precision and context that may be listed
          None,         \* no service
          Unlistable,   \* below the listing floor, or an incomplete identity
          MaxSwaps      \* bound on the changes of the engine

ASSUME ListingAssumption ==
    /\ None \notin Services
    /\ Unlistable \notin Services \cup {None}
    /\ MaxSwaps \in Nat

VARIABLES transport, \* --relay, or the agent listens
          engine,    \* external: what the coordinator reports as ready
          swaps,     \* how often that changed
          plat,      \* external: the providers opened, and whether the last is fresh
          wire,      \* polls and heartbeats on their way
          reg,       \* agent_registration
          main,      \* the thread that runs relay_loop(), or the accept loop
          beat,      \* relay_heartbeat_state and the thread that reads it
          late       \* beats each thread sent since the engine was last swapped, for
                     \* a service the engine was not

vars == <<transport, engine, swaps, plat, wire, reg, main, beat, late>>

Engines == Services \cup {None, Unlistable}

\* The last lifetime the platform opened is the one that is alive; 0 is none.
Current == Len(plat.opened)

Init ==
    /\ transport \in {"relay", "direct"}
    /\ engine \in Engines
    /\ swaps = 0
    /\ plat = [opened |-> <<>>, fresh |-> FALSE]
    /\ wire = {}
    /\ reg = [id |-> 0, declared |-> None, waiting |-> FALSE]
    /\ main = [pc |-> "awaiting", live |-> None]
    /\ beat = [pc |-> "none", id |-> 0, declared |-> None, asId |-> 0, as |-> None]
    /\ late = [main |-> 0, beat |-> 0]

Goto(pc) == main' = [main EXCEPT !.pc = pc]

-----------------------------------------------------------------------------
(***************************************************************************)
(* The coordinator and the platform                                        *)
(***************************************************************************)
\* The coordinator is stopped, is restarted with another model, precision or
\* context, or its engine is loading again.
Swap ==
    /\ swaps < MaxSwaps
    /\ engine' \in Engines \ {engine}
    /\ swaps' = swaps + 1
    /\ late' = [main |-> 0, beat |-> 0]
    /\ UNCHANGED <<transport, plat, wire, reg, main, beat>>

\* Nothing refreshed the listing for sixty seconds.
Expire ==
    /\ plat.fresh
    /\ plat' = [plat EXCEPT !.fresh = FALSE]
    /\ UNCHANGED <<transport, engine, swaps, wire, reg, main, beat, late>>

\* The service that is listed is resumed; another ends that lifetime.
Opened(service) ==
    IF plat.opened # <<>> /\ plat.opened[Current] = service THEN plat
    ELSE [opened |-> Append(plat.opened, service), fresh |-> FALSE]

Refresh(q) == plat' = IF q.id = Current THEN [plat EXCEPT !.fresh = TRUE] ELSE plat

Send(from, id, as) ==
    /\ wire' = wire \cup {[from |-> from, id |-> id, as |-> as]}
    /\ late' = [late EXCEPT ![from] = IF engine # as /\ @ < 2 THEN @ + 1 ELSE @]

-----------------------------------------------------------------------------
(***************************************************************************)
(* Startup: await_sellable_engine(), assert_listable_ctx(), and main()'s   *)
(* registration loop                                                       *)
(***************************************************************************)
Await ==
    /\ main.pc = "awaiting"
    /\ engine # None
    /\ IF engine = Unlistable THEN Goto("exited") ELSE main' = [pc |-> "registering", live |-> engine]
    /\ UNCHANGED <<transport, engine, swaps, plat, wire, reg, beat, late>>

\* Half an hour without an engine.
AwaitGivesUp ==
    /\ main.pc = "awaiting"
    /\ engine = None
    /\ Goto("exited")
    /\ UNCHANGED <<transport, engine, swaps, plat, wire, reg, beat, late>>

Copied == [beat EXCEPT !.id = reg'.id, !.declared = reg'.declared]

\* The relay's thread is started over a copy of what was registered.
Registered ==
    /\ main.pc = "registering"
    /\ plat' = Opened(main.live)
    /\ reg' = [reg EXCEPT !.id = Len(plat'.opened), !.declared = main.live]
    /\ beat' = IF transport = "relay" THEN [Copied EXCEPT !.pc = "resting"] ELSE beat
    /\ Goto("probing")
    /\ UNCHANGED <<transport, engine, swaps, wire, late>>

\* No answer, 408, 429 or a server's error: wait, and ask the engine again.  The
\* request may have taken effect all the same.
Unregistered ==
    /\ main.pc = "registering"
    /\ Goto("awaiting")
    /\ plat' \in {plat, Opened(main.live)}
    /\ UNCHANGED <<transport, engine, swaps, wire, reg, beat, late>>

\* Any other refusal ends the agent.
RegistrationRefused ==
    /\ main.pc = "registering"
    /\ Goto("exited")
    /\ UNCHANGED <<transport, engine, swaps, plat, wire, reg, beat, late>>

-----------------------------------------------------------------------------
(***************************************************************************)
(* Each round: engine_sellable(), reconcile_identity(), and the poll       *)
(***************************************************************************)
\* No engine, no beat: the reading is kept for the whole round.
Probe ==
    /\ main.pc = "probing"
    /\ engine # None
    /\ main' = [pc |-> "reconciling", live |-> engine]
    /\ UNCHANGED <<transport, engine, swaps, plat, wire, reg, beat, late>>

Reconcile ==
    /\ main.pc = "reconciling"
    /\ CASE main.live = Unlistable -> Goto("exited")
         [] main.live = reg.declared \/ reg.waiting -> Goto("reconciled")
         [] OTHER -> Goto("reregistering")
    /\ UNCHANGED <<transport, engine, swaps, plat, wire, reg, beat, late>>

\* Mutant: the new provider is kept and the new declaration is not.
ReregisteredUndeclared ==
    /\ main.pc = "reregistering"
    /\ plat' = Opened(main.live)
    /\ reg' = [reg EXCEPT !.id = Len(plat'.opened), !.waiting = FALSE]
    /\ Goto("reconciled")
    /\ UNCHANGED <<transport, engine, swaps, wire, beat, late>>

Reregistered ==
    /\ main.pc = "reregistering"
    /\ plat' = Opened(main.live)
    /\ reg' = [id |-> Len(plat'.opened), declared |-> main.live, waiting |-> FALSE]
    /\ Goto("reconciled")
    /\ UNCHANGED <<transport, engine, swaps, wire, beat, late>>

\* Whatever the reason, the old declaration stays, and the next try waits.
NotReregistered ==
    /\ main.pc = "reregistering"
    /\ Goto("reconciled")
    /\ reg' = [reg EXCEPT !.waiting = TRUE]
    /\ plat' \in {plat, Opened(main.live)}
    /\ UNCHANGED <<transport, engine, swaps, wire, beat, late>>

\* 60 seconds, doubled up to 900 at each failure.
RetryTime ==
    /\ reg.waiting
    /\ reg' = [reg EXCEPT !.waiting = FALSE]
    /\ UNCHANGED <<transport, engine, swaps, plat, wire, main, beat, late>>

\* Mutant: the heartbeat thread is told of the provider and not of its service.
UpdateIdOnly ==
    /\ main.pc = "reconciled"
    /\ transport = "relay"
    /\ beat' = [beat EXCEPT !.id = reg.id]
    /\ Goto(IF main.live = reg.declared THEN "polling" ELSE "probing")
    /\ UNCHANGED <<transport, engine, swaps, plat, wire, reg, late>>

\* Mutant: it polls for the old service while the new one is not registered.
UpdateUnchecked ==
    /\ main.pc = "reconciled"
    /\ transport = "relay"
    /\ beat' = [beat EXCEPT !.id = reg.id, !.declared = reg.declared]
    /\ Goto("polling")
    /\ UNCHANGED <<transport, engine, swaps, plat, wire, reg, late>>

\* relay_heartbeat_update(); a service that is not declared is not polled for.
Update ==
    /\ main.pc = "reconciled"
    /\ transport = "relay"
    /\ beat' = [beat EXCEPT !.id = reg.id, !.declared = reg.declared]
    /\ Goto(IF main.live = reg.declared THEN "polling" ELSE "probing")
    /\ UNCHANGED <<transport, engine, swaps, plat, wire, reg, late>>

\* The long poll, for the provider of this round.
Poll ==
    /\ main.pc = "polling"
    /\ Goto("polled")
    /\ Send("main", reg.id, reg.declared)
    /\ UNCHANGED <<transport, engine, swaps, plat, reg, beat>>

\* Not answered, or any failure but a rejected credential: back off, go on.
PollFails ==
    /\ main.pc = "polled"
    /\ Goto("probing")
    /\ UNCHANGED <<transport, engine, swaps, plat, wire, reg, beat, late>>

\* The job is taken through its delivery (module AgentDelivery) in this thread.
JobDone ==
    /\ main.pc = "job"
    /\ Goto("probing")
    /\ UNCHANGED <<transport, engine, swaps, plat, wire, reg, beat, late>>

\* The direct transport: its only heartbeat, whatever became of the declaration.
DirectBeat ==
    /\ main.pc = "reconciled"
    /\ transport = "direct"
    /\ Goto("probing")
    /\ Send("main", reg.id, reg.declared)
    /\ UNCHANGED <<transport, engine, swaps, plat, reg, beat>>

-----------------------------------------------------------------------------
(***************************************************************************)
(* relay_heartbeat_loop()                                                  *)
(***************************************************************************)
\* Every fifteen seconds: the provider and its service, under the mutex.
BeatCopies ==
    /\ main.pc # "exited"
    /\ beat.pc = "resting"
    /\ beat' = [beat EXCEPT !.pc = "probing", !.asId = beat.id, !.as = beat.declared]
    /\ UNCHANGED <<transport, engine, swaps, plat, wire, reg, main, late>>

BeatRests == beat' = [beat EXCEPT !.pc = "resting", !.asId = 0, !.as = None]

\* Mutant: any engine that answers will do.
BeatProbesAny ==
    /\ main.pc # "exited"
    /\ beat.pc = "probing"
    /\ IF engine # None THEN beat' = [beat EXCEPT !.pc = "sending"] ELSE BeatRests
    /\ UNCHANGED <<transport, engine, swaps, plat, wire, reg, main, late>>

\* A stopped or replaced engine does not refresh the old service.
BeatProbes ==
    /\ main.pc # "exited"
    /\ beat.pc = "probing"
    /\ IF engine = beat.as THEN beat' = [beat EXCEPT !.pc = "sending"] ELSE BeatRests
    /\ UNCHANGED <<transport, engine, swaps, plat, wire, reg, main, late>>

\* platform_heartbeat(): nothing depends on how it is answered.
BeatSends ==
    /\ main.pc # "exited"
    /\ beat.pc = "sending"
    /\ BeatRests
    /\ Send("beat", beat.asId, beat.as)
    /\ UNCHANGED <<transport, engine, swaps, plat, reg, main>>

-----------------------------------------------------------------------------
\* A poll or a beat arrives, though its sender may not wait for it any more.  A
\* poll of the live provider is answered with a job or none, and any with a
\* rejected credential, which ends the agent.
Arrive(q) ==
    /\ q \in wire
    /\ wire' = wire \ {q}
    /\ Refresh(q)
    /\ IF q.from = "main" /\ q.id = reg.id /\ main.pc = "polled"
       THEN \E pc \in {"probing"} \cup (IF q.id = Current THEN {"job"} ELSE {}) : Goto(pc)
       ELSE UNCHANGED main
    /\ UNCHANGED <<transport, engine, swaps, reg, beat, late>>

CredentialsRejected ==
    /\ main.pc = "polled"
    /\ Goto("exited")
    /\ UNCHANGED <<transport, engine, swaps, plat, wire, reg, beat, late>>

Drop ==
    /\ wire' \in {wire \ {q} : q \in wire}
    /\ UNCHANGED <<transport, engine, swaps, plat, reg, main, beat, late>>

MainStep == Await \/ Probe \/ Reconcile \/ Update \/ Poll \/ PollFails \/ JobDone \/ DirectBeat
BeatStep == BeatCopies \/ BeatProbes \/ BeatSends

Next ==
    \/ Swap \/ Expire \/ RetryTime \/ Drop
    \/ AwaitGivesUp \/ Registered \/ Unregistered \/ RegistrationRefused
    \/ Reregistered \/ NotReregistered \/ CredentialsRejected
    \/ MainStep \/ BeatStep
    \/ \E q \in wire : Arrive(q)

Spec == Init /\ [][Next]_vars

\* Both threads run and time passes.
Listing(s) == Current > 0 /\ plat.opened[Current] = s /\ plat.fresh
FairSpec ==
    /\ Spec
    /\ WF_vars(MainStep) /\ WF_vars(BeatStep) /\ WF_vars(RetryTime) /\ WF_vars(Expire)

\* The platform, asked again and again, takes a registration and a beat.
PlatformAnswers ==
    /\ SF_vars(Registered) /\ SF_vars(Reregistered)
    /\ SF_vars(\E q \in wire : q.id = Current /\ Arrive(q))

-----------------------------------------------------------------------------
MainPc == {"awaiting", "registering", "probing", "reconciling", "reregistering", "reconciled",
           "polling", "polled", "job", "exited"}

Beats == [from : {"main", "beat"}, id : 1..Current, as : Services]
Registration == [id : 0..Current, declared : Services \cup {None}, waiting : BOOLEAN]
HeartbeatState == [pc : {"none", "resting", "probing", "sending"},
                   id : 0..Current, declared : Services \cup {None},
                   asId : 0..Current, as : Services \cup {None}]

\* The type invariant.  Only a service that may be listed is ever registered,
\* though the engine is swapped between the checks and the registration.
TypeOK ==
    /\ transport \in {"relay", "direct"}
    /\ engine \in Engines
    /\ swaps \in 0..MaxSwaps
    /\ plat \in [opened : Seq(Services), fresh : BOOLEAN]
    /\ wire \subseteq Beats
    /\ reg \in Registration
    /\ main \in [pc : MainPc, live : Engines]
    /\ beat \in HeartbeatState
    /\ late \in [main : 0..2, beat : 0..2]

\* A beat refreshes the provider that was opened for the service its sender found
\* running, never that of another one, across re-registrations and threads.
BeatsNameTheirService == \A q \in wire : plat.opened[q.id] = q.as

\* "A stopped/replaced engine must not refresh the old service": after a swap each
\* thread refreshes the old service at most once, with the round it was in.
OneLateBeat == transport = "relay" => late.main <= 1 /\ late.beat <= 1

\* What the marketplace hears follows the engine: a beat names the service it was opened
\* for, and the one before a swap is not kept alive by either thread.
BeatsFollowTheEngine == BeatsNameTheirService /\ OneLateBeat

\* A service that the engine does not come back to drops off the marketplace,
\* though re-registration of the new one may fail for ever.
OldServiceFades ==
    \A s \in Services : transport = "relay" /\ <>[](engine # s) => <>[]~Listing(s)

\* The agent takes itself to be listed under a provider that was ended by a
\* registration whose answer it never got.
Superseded == reg.declared = engine /\ reg.id # Current

\* "The listing comes straight back when the engine does": an engine that stays is
\* listed and kept fresh by a platform that answers, unless the agent ended, or
\* goes on polling for a provider that a registration it never learned of has ended.
ListingReturns ==
    PlatformAnswers =>
        \A s \in Services : <>[](engine = s /\ main.pc # "exited" /\ ~Superseded) => []<>Listing(s)

-----------------------------------------------------------------------------
(***************************************************************************)
(* The inductive invariants the proofs use.                                *)
(***************************************************************************)
InRound == {"reconciling", "reregistering", "reconciled", "polling"}

\* What each thread knows where it is.
PhaseInv ==
    /\ main.pc \in {"registering", "reregistering"} => main.live \in Services
    /\ main.pc = "reconciling" => main.live # None
    /\ main.pc = "polling" => main.live = reg.declared
    /\ main.pc \notin {"awaiting", "registering", "exited"} => reg.id # 0
    /\ beat.pc # "none" => beat.id # 0
    /\ beat.pc \in {"probing", "sending"} => beat.asId # 0

\* Whoever holds a provider holds the service it was opened for.
Named(id, service) == id # 0 => plat.opened[id] = service
NamedInv ==
    /\ BeatsNameTheirService
    /\ Named(reg.id, reg.declared)
    /\ Named(beat.id, beat.declared)
    /\ Named(beat.asId, beat.as)

\* A thread that already sent a late beat has looked at the engine since.
LateInv ==
    /\ transport = "relay" /\ main.pc \in InRound /\ main.live # engine => late.main = 0
    /\ beat.pc = "sending" /\ beat.as # engine => late.beat = 0
    /\ OneLateBeat
=============================================================================
