-------------------------- MODULE SupervisorProofs --------------------------
(***************************************************************************)
(* Proofs about IntakePool, Sidecar and ClientEngine: the worker pools of  *)
(* a coordinator, and the two supervisors of engine processes, the one in  *)
(* the coordinator and the one in the desktop client.                      *)
(*                                                                         *)
(* For any connections and any number of workers, none returns before what *)
(* was handed over is served.  For any number of engine processes and of   *)
(* crashes, the coordinator never loses one, and for any roles and any     *)
(* starts, stops and switches at any moment, neither does the client.      *)
(***************************************************************************)
EXTENDS IntakePool, Sidecar, ClientEngine, FiniteSetTheorems, TLAPS

-----------------------------------------------------------------------------
(***************************************************************************)
(* IntakePool.                                                             *)
(***************************************************************************)
Whereabouts == {"out", "header", "pushed"} \X {"none"}
               \cup Pools \X {"upload", "engine"}
               \cup {"closed"} \X {"left", "408", "timeout", "answered", "dropped"}

IntakeTyped ==
    /\ conn \in [Conns -> Whereabouts]
    /\ queue \in [Pools -> Seq(Conns)]
    /\ live \in [Pools -> Int]
    /\ intake \in BOOLEAN /\ stop \in BOOLEAN

\* A pool whose threads have begun to return has nothing left to take, and never will have.
Draining(p) ==
    /\ live[p] <= Size(p)
    /\ live[p] < Size(p) => stop /\ queue[p] = <<>>
    /\ Cardinality(Taken(p)) <= live[p]

IntakeIInv ==
    /\ IntakeTyped
    /\ stop => ~intake
    /\ \A p \in Pools : Draining(p)

\* The connections under a pool's threads can be counted.
LEMMA TakenCountable == \A p \in Pools : IsFiniteSet(Taken(p)) /\ Cardinality(Taken(p)) \in Nat
<1>1. \A p \in Pools : Taken(p) \subseteq Chats \cup Reads
  BY DEF Taken, Conns
<1>2. QED BY <1>1, IntakeAssumption, FS_Subset, FS_CardinalityType

\* A connection that no thread comes to carry leaves the pools as full as they were, or less.
LEMMA FewerTaken ==
    ASSUME IntakeIInv, NEW p \in Pools, Taken(p)' \subseteq Taken(p)
    PROVE  Cardinality(Taken(p)') <= Cardinality(Taken(p)) /\ Cardinality(Taken(p)') \in Nat
<1>1. IsFiniteSet(Taken(p)) /\ Cardinality(Taken(p)) \in Nat
  BY TakenCountable
<1>2. IsFiniteSet(Taken(p)') /\ Cardinality(Taken(p)') <= Cardinality(Taken(p))
  BY <1>1, FS_Subset
<1>3. QED BY <1>1, <1>2, FS_CardinalityType

\* A step in which no thread takes a connection and none returns.
LEMMA NoThreadMoves ==
    ASSUME IntakeIInv, IntakeTyped', live' = live, stop => stop', stop' => ~intake',
           \A p \in Pools : Taken(p)' \subseteq Taken(p),
           \A p \in Pools : stop => queue'[p] = <<>> \/ queue'[p] = queue[p]
    PROVE  IntakeIInv'
<1>1. ASSUME NEW p \in Pools PROVE Draining(p)'
  <2>1. Draining(p) /\ live[p] \in Int /\ Size(p)' = Size(p)
    BY <1>1 DEF IntakeIInv, IntakeTyped, Size
  <2>2. Cardinality(Taken(p)') <= Cardinality(Taken(p)) /\ Cardinality(Taken(p)') \in Nat
        /\ Cardinality(Taken(p)) \in Nat
    BY <1>1, FewerTaken, TakenCountable
  <2>3. Cardinality(Taken(p)') <= live'[p]
    BY <2>1, <2>2 DEF Draining
  <2>4. QED BY <1>1, <2>1, <2>3 DEF Draining
<1>2. QED BY <1>1 DEF IntakeIInv

\* The client, the accept loop and the intake.
LEMMA LoopKeeps ==
    ASSUME IntakeIInv, NEW c \in Conns, Send(c) \/ HangUp(c) \/ Accept(c) \/ Push(c) \/ HeaderLost(c)
    PROVE  IntakeIInv'
<1>1. IntakeTyped /\ (stop => ~intake)
  BY DEF IntakeIInv
<1>2. live' = live /\ stop' = stop /\ intake' = intake
  BY DEF Send, HangUp, Accept, Push, HeaderLost
<1>3. conn' = conn \/ \E w \in Whereabouts : (w[1] \notin Pools /\ conn' = [conn EXCEPT ![c] = w])
  BY DEF Send, HangUp, Accept, Push, HeaderLost, Close, Whereabouts, Pools
<1>4. queue' = queue \/ (~stop /\ queue' = [queue EXCEPT ![PoolFor(c)] = Append(@, c)])
  BY <1>1 DEF Send, HangUp, Accept, Push, HeaderLost
<1>5. PoolFor(c) \in Pools
  BY DEF PoolFor, Pools
<1>6. conn' \in [Conns -> Whereabouts]
  BY <1>1, <1>3 DEF IntakeTyped
<1>7. queue' \in [Pools -> Seq(Conns)]
  <2>1. queue[PoolFor(c)] \in Seq(Conns)
    BY <1>1, <1>5 DEF IntakeTyped
  <2>2. Append(queue[PoolFor(c)], c) \in Seq(Conns)
    BY <2>1
  <2>3. QED BY <1>1, <1>4, <1>5, <2>2 DEF IntakeTyped
<1>8. ASSUME NEW p \in Pools PROVE Taken(p)' \subseteq Taken(p)
  <2>1. CASE conn' = conn
    BY <2>1 DEF Taken
  <2>2. ASSUME NEW w \in Whereabouts, w[1] \notin Pools, conn' = [conn EXCEPT ![c] = w]
        PROVE  Taken(p)' \subseteq Taken(p)
    <3>1. conn'[c] = w /\ \A d \in Conns \ {c} : conn'[d] = conn[d]
      BY <1>1, <2>2 DEF IntakeTyped
    <3>2. w # <<p, "upload">> /\ w # <<p, "engine">>
      BY <1>8, <2>2
    <3>3. QED BY <3>1, <3>2 DEF Taken
  <2>3. QED BY <1>3, <2>1, <2>2
<1>9. IntakeTyped'
  BY <1>1, <1>2, <1>6, <1>7 DEF IntakeTyped
<1>10. QED BY <1>1, <1>2, <1>4, <1>8, <1>9, NoThreadMoves

\* A thread goes on with a connection, or closes it.
LEMMA WorkerKeeps ==
    ASSUME IntakeIInv, NEW c \in Conns, Upload(c) \/ EngineEnds(c) PROVE IntakeIInv'
<1>1. IntakeTyped /\ (stop => ~intake) /\ conn[c] \in Whereabouts
  BY DEF IntakeIInv, IntakeTyped
<1>2. UNCHANGED <<queue, live, stop, intake>>
  BY DEF Upload, EngineEnds
<1>3. conn[c][2] \in {"upload", "engine"}
  BY DEF Upload, EngineEnds
<1>4. conn[c][1] \in Pools /\ conn[c] = <<conn[c][1], conn[c][2]>>
  BY <1>1, <1>3 DEF Whereabouts
<1>5. \E w \in Whereabouts : /\ w[1] \notin Pools \/ w = <<conn[c][1], "engine">>
                             /\ conn' = [conn EXCEPT ![c] = w]
  BY <1>4 DEF Upload, EngineEnds, Close, Whereabouts, Pools
<1>6. conn' \in [Conns -> Whereabouts]
  BY <1>1, <1>5 DEF IntakeTyped
<1>7. ASSUME NEW p \in Pools, NEW d \in Taken(p)' PROVE d \in Taken(p)
  <2>1. PICK w \in Whereabouts : /\ w[1] \notin Pools \/ w = <<conn[c][1], "engine">>
                                 /\ conn' = [conn EXCEPT ![c] = w]
    BY <1>5
  <2>2. d \in Conns /\ conn'[d] \in {<<p, "upload">>, <<p, "engine">>}
    BY <1>7 DEF Taken
  <2>3. CASE d = c
    <3>1. conn'[c] = w
      BY <1>1, <2>1 DEF IntakeTyped
    <3>2. conn[c][1] = p
      BY <1>7, <2>1, <2>2, <2>3, <3>1
    <3>3. QED BY <1>3, <1>4, <2>3, <3>2 DEF Taken
  <2>4. CASE d # c
    BY <1>1, <2>1, <2>2, <2>4 DEF Taken, IntakeTyped
  <2>5. QED BY <2>3, <2>4
<1>8. IntakeTyped'
  BY <1>1, <1>2, <1>6 DEF IntakeTyped
<1>9. QED BY <1>1, <1>2, <1>7, <1>8, NoThreadMoves

\* A thread takes the first connection of its queue: there is one for it to take it with.
LEMMA TakeKeeps == ASSUME IntakeIInv, NEW p \in Pools, Take(p) PROVE IntakeIInv'
<1>1. /\ IntakeTyped /\ (stop => ~intake) /\ Draining(p)
      /\ queue[p] # <<>> /\ Cardinality(Taken(p)) < live[p]
      /\ UNCHANGED <<intake, stop, live>>
  BY DEF IntakeIInv, Take
<1> DEFINE c == Head(queue[p])
           next == <<p, "upload">>
<1>2. c \in Conns /\ Tail(queue[p]) \in Seq(Conns)
  BY <1>1 DEF IntakeTyped
<1>3. next \in Whereabouts
  BY DEF Whereabouts
<1>4. conn' = [conn EXCEPT ![c] = next] /\ queue' = [queue EXCEPT ![p] = Tail(@)]
  BY DEF Take
<1> HIDE DEF c
<1>5. IntakeTyped'
  BY <1>1, <1>2, <1>3, <1>4 DEF IntakeTyped
<1>6. ASSUME NEW q \in Pools, q # p PROVE Draining(q)'
  <2>1. Draining(q) /\ live[q] \in Int /\ Size(q)' = Size(q)
    BY <1>6, <1>1 DEF IntakeIInv, IntakeTyped, Size
  <2>2. Taken(q)' \subseteq Taken(q)
    BY <1>1, <1>2, <1>4, <1>6 DEF Taken, IntakeTyped
  <2>3. Cardinality(Taken(q)') <= Cardinality(Taken(q)) /\ Cardinality(Taken(q)') \in Nat
        /\ Cardinality(Taken(q)) \in Nat
    BY <1>6, <2>2, FewerTaken, TakenCountable
  <2>4. queue'[q] = queue[q]
    BY <1>1, <1>4, <1>6 DEF IntakeTyped
  <2>5. QED BY <1>1, <2>1, <2>3, <2>4 DEF Draining
<1>7. Draining(p)'
  <2>1. Taken(p)' \subseteq Taken(p) \cup {c}
    BY <1>1, <1>2, <1>4 DEF Taken, IntakeTyped
  <2>2. IsFiniteSet(Taken(p)) /\ Cardinality(Taken(p)) \in Nat
    BY TakenCountable
  <2>3. IsFiniteSet(Taken(p) \cup {c}) /\ Cardinality(Taken(p) \cup {c}) <= Cardinality(Taken(p)) + 1
    <3>1. IsFiniteSet(Taken(p) \cup {c})
          /\ Cardinality(Taken(p) \cup {c})
             = IF c \in Taken(p) THEN Cardinality(Taken(p)) ELSE Cardinality(Taken(p)) + 1
      BY <2>2, FS_AddElement
    <3>2. QED BY <2>2, <3>1
  <2>4. IsFiniteSet(Taken(p)') /\ Cardinality(Taken(p)') <= Cardinality(Taken(p) \cup {c})
    BY <2>1, <2>3, FS_Subset
  <2>5. Cardinality(Taken(p)') \in Nat /\ Cardinality(Taken(p) \cup {c}) \in Nat
    BY <2>3, <2>4, FS_CardinalityType
  <2>6. live[p] \in Int /\ Size(p)' = Size(p)
    BY <1>1 DEF IntakeTyped, Size
  <2>7. Cardinality(Taken(p)') <= live'[p]
    BY <1>1, <2>2, <2>3, <2>4, <2>5, <2>6
  <2>8. ~(live[p] < Size(p))
    BY <1>1 DEF Draining
  <2>9. QED BY <1>1, <2>6, <2>7, <2>8 DEF Draining
<1>8. QED BY <1>1, <1>5, <1>6, <1>7 DEF IntakeIInv

\* A thread returns: it carries nothing, and nothing is left for it.
LEMMA ReturnKeeps == ASSUME IntakeIInv, NEW p \in Pools, Return(p) PROVE IntakeIInv'
<1>1. /\ IntakeTyped /\ (stop => ~intake) /\ Draining(p)
      /\ stop /\ queue[p] = <<>> /\ Cardinality(Taken(p)) < live[p]
      /\ UNCHANGED <<conn, queue, intake, stop>>
      /\ live' = [live EXCEPT ![p] = @ - 1]
  BY DEF IntakeIInv, Return
<1>2. IntakeTyped'
  BY <1>1 DEF IntakeTyped
<1>3. ASSUME NEW q \in Pools PROVE Draining(q)'
  <2> DEFINE taken == Taken(q)
  <2>0. taken' = taken
    BY <1>1 DEF Taken
  <2>1. Draining(q) /\ Size(q)' = Size(q) /\ Size(q) \in Int /\ live[q] \in Int
    BY <1>1, <1>3, IntakeAssumption DEF IntakeIInv, IntakeTyped, Size
  <2>5. Cardinality(taken)' = Cardinality(taken) /\ Cardinality(taken) \in Nat
    BY <2>0, TakenCountable
  <2>2. CASE q = p
    <3>1. live'[p] = live[p] - 1
      BY <1>1 DEF IntakeTyped
    <3>2. QED BY <1>1, <2>1, <2>2, <2>5, <3>1 DEF Draining
  <2>3. CASE q # p
    <3>1. live'[q] = live[q]
      BY <1>1, <2>3 DEF IntakeTyped
    <3>2. QED BY <1>1, <2>1, <2>5, <3>1 DEF Draining
  <2>4. QED BY <2>2, <2>3
<1>4. QED BY <1>1, <1>2, <1>3 DEF IntakeIInv

\* The stop: the loop, then the pools, then the process.
LEMMA StopKeeps == ASSUME IntakeIInv, StopIntake \/ StopPools \/ Exit PROVE IntakeIInv'
<1>1. IntakeTyped /\ (stop => ~intake)
  BY DEF IntakeIInv
<1>2. /\ live' = live /\ (stop => stop') /\ (stop' => ~intake')
      /\ intake' \in BOOLEAN /\ stop' \in BOOLEAN
  <2>1. CASE StopIntake
    BY <1>1, <2>1 DEF StopIntake, IntakeTyped
  <2>2. CASE StopPools
    BY <1>1, <2>2 DEF StopPools, IntakeTyped
  <2>3. CASE Exit
    BY <1>1, <2>3 DEF Exit, IntakeTyped
  <2>4. QED BY <2>1, <2>2, <2>3
<1>3. \/ conn' = conn
      \/ \E at \in {"header", "pushed"} :
            conn' = [c \in Conns |-> IF conn[c][1] = at THEN <<"closed", "dropped">> ELSE conn[c]]
  BY DEF StopIntake, StopPools, Exit
<1>4. <<"closed", "dropped">> \in Whereabouts /\ "closed" \notin Pools
  BY DEF Whereabouts, Pools
<1>5. conn' \in [Conns -> Whereabouts]
  BY <1>1, <1>3, <1>4 DEF IntakeTyped
<1>6. \A p \in Pools : Taken(p)' \subseteq Taken(p)
  BY <1>3, <1>4 DEF Taken
<1>7. queue' = queue \/ queue' = [p \in Pools |-> <<>>]
  BY DEF StopIntake, StopPools, Exit
<1>8. queue' \in [Pools -> Seq(Conns)]
  <2>1. <<>> \in Seq(Conns)
    OBVIOUS
  <2>2. QED BY <1>1, <1>7, <2>1 DEF IntakeTyped
<1>9. IntakeTyped'
  BY <1>1, <1>2, <1>5, <1>8 DEF IntakeTyped
<1>10. QED BY <1>2, <1>6, <1>7, <1>9, NoThreadMoves

\* Every thread stands before the first connection comes.
LEMMA IntakeInitKeeps == Init => IntakeIInv
<1> SUFFICES ASSUME Init PROVE IntakeIInv
  OBVIOUS
<1>1. IntakeTyped /\ ~stop
  <2>1. <<>> \in Seq(Conns) /\ <<"out", "none">> \in Whereabouts
    BY DEF Whereabouts
  <2>2. Workers \in Int /\ ControlWorkers \in Int
    BY IntakeAssumption
  <2>3. QED BY <2>1, <2>2 DEF Init, IntakeTyped, Size
<1>2. ASSUME NEW p \in Pools PROVE Draining(p)
  <2>1. live[p] = Size(p) /\ Size(p) \in Nat
    BY <1>2, IntakeAssumption DEF Init, Size
  <2>2. Taken(p) = {}
    BY <1>2 DEF Taken, Init, Pools
  <2>3. Cardinality(Taken(p)) = 0
    BY <2>2, FS_EmptySet
  <2>4. QED BY <2>1, <2>3 DEF Draining
<1>3. QED BY <1>1, <1>2 DEF IntakeIInv

\* The inductive invariant of the pools: who carries what, and that threads return only when
\* nothing is left (llama_pool_worker(), llama_pool_stop()).
THEOREM IntakeCorrect == Spec => []IntakeIInv
<1>1. IntakeIInv /\ [Next]_vars => IntakeIInv'
  <2> SUFFICES ASSUME IntakeIInv, [Next]_vars PROVE IntakeIInv'
    OBVIOUS
  <2>1. CASE \E c \in Conns : Send(c) \/ HangUp(c) \/ Accept(c) \/ Loop(c)
    BY <2>1, LoopKeeps DEF Loop
  <2>2. CASE \E c \in Conns : Worker(c) \/ EngineEnds(c)
    BY <2>2, WorkerKeeps DEF Worker, Abandoned
  <2>3. CASE \E p \in Pools : Take(p) \/ Return(p)
    BY <2>3, TakeKeeps, ReturnKeeps
  <2>4. CASE StopIntake \/ StopPools \/ Exit
    BY <2>4, StopKeeps
  <2>5. CASE UNCHANGED vars
    BY <2>5 DEF vars, IntakeIInv, IntakeTyped, Draining, Taken, Size
  <2>6. QED BY <2>1, <2>2, <2>3, <2>4, <2>5 DEF Next, Stopping
<1>2. QED BY <1>1, IntakeInitKeeps, PTL DEF Spec

\* When the last worker of a pool has returned, every connection handed to it was served, for
\* any connections and any number of workers (llama_pool_worker(), llama_pool_stop()).
THEOREM WhatIsHandedOverIsServed == Spec => []HandedOverIsServed
<1>1. IntakeIInv => HandedOverIsServed
  <2> SUFFICES ASSUME IntakeIInv, NEW p \in Pools, live[p] = 0
               PROVE  queue[p] = <<>> /\ Taken(p) = {}
    BY DEF HandedOverIsServed
  <2>1. Draining(p) /\ 0 < Size(p)
    BY IntakeAssumption DEF IntakeIInv, Size
  <2>2. IsFiniteSet(Taken(p)) /\ Cardinality(Taken(p)) \in Nat
    BY TakenCountable
  <2>3. Cardinality(Taken(p)) = 0 /\ queue[p] = <<>>
    BY <2>1, <2>2 DEF Draining
  <2>4. QED BY <2>2, <2>3, FS_EmptySet
<1>2. QED BY <1>1, IntakeCorrect, PTL

-----------------------------------------------------------------------------
(***************************************************************************)
(* Sidecar.                                                                *)
(***************************************************************************)
\* A process that was spawned and whose exit nobody has waited for.
There == {"loading", "healthy", "zombie"}

\* Whoever is there is the one the supervisor holds, and it holds one that is there.
HeldOneIsThere ==
    /\ \A c \in Children : engine[c] \in There => lc.pid = c
    /\ lc.pid # NoChild /\ main.pc # "exited" => engine[lc.pid] \in There

\* The state says whether there is a child, and READY that it answered.
StateFits ==
    /\ lc.state \in {"failed", "restarting"} <=> lc.pid = NoChild
    /\ lc.state = "ready" => engine[lc.pid] \in {"healthy", "zombie", "reaped"}

\* The shutdown kills the child that is current: no step of the monitor comes between.
ShutdownFits ==
    /\ lc.stop <=> main.pc \in {"joining", "exited"}
    /\ lc.stop => ~InMonitorLock /\ main.pid = lc.pid
    /\ main.pc = "exited" => mon.pc = "returned" /\ \A c \in Children : engine[c] \notin There
    /\ mon.pc = "returned" => lc.stop

EngineIInv == SidecarTypeOK /\ HeldOneIsThere /\ StateFits /\ ShutdownFits

\* A step of a process, or of time.
LEMMA ProcessKeeps ==
    ASSUME EngineIInv,
           \/ Stabilise \/ BackoffEnds
           \/ \E c \in Children : BecomeHealthy(c) \/ LogFatal(c) \/ Die(c)
    PROVE  EngineIInv'
<1>1. CASE Stabilise
  BY <1>1 DEF Stabilise, EngineIInv, SidecarTypeOK, HeldOneIsThere, StateFits, ShutdownFits,
              InMonitorLock
<1>2. CASE BackoffEnds
  BY <1>2 DEF BackoffEnds, EngineIInv, SidecarTypeOK, HeldOneIsThere, StateFits, ShutdownFits,
              InMonitorLock
<1>3. ASSUME NEW c \in Children, LogFatal(c) PROVE EngineIInv'
  BY <1>3 DEF LogFatal, EngineIInv, SidecarTypeOK, HeldOneIsThere, StateFits, ShutdownFits,
              InMonitorLock
<1>4. ASSUME NEW c \in Children, BecomeHealthy(c) PROVE EngineIInv'
  <2>1. engine' = [engine EXCEPT ![c] = "healthy"] /\ UNCHANGED <<lc, logged, stable, mon, main>>
        /\ engine[c] \in There
    BY <1>4 DEF BecomeHealthy, There
  <2>2. SidecarTypeOK'
    BY <2>1 DEF EngineIInv, SidecarTypeOK
  <2>3. HeldOneIsThere' /\ StateFits' /\ ShutdownFits'
    BY <2>1 DEF EngineIInv, SidecarTypeOK, HeldOneIsThere, StateFits, ShutdownFits, InMonitorLock,
                There
  <2>4. QED BY <2>2, <2>3 DEF EngineIInv
<1>5. ASSUME NEW c \in Children, Die(c) PROVE EngineIInv'
  <2>1. engine' = [engine EXCEPT ![c] = "zombie"] /\ UNCHANGED <<lc, logged, stable, mon, main>>
        /\ engine[c] \in There
    BY <1>5 DEF Die, There, Alive
  <2>2. SidecarTypeOK'
    BY <2>1 DEF EngineIInv, SidecarTypeOK
  <2>3. HeldOneIsThere' /\ StateFits' /\ ShutdownFits'
    BY <2>1 DEF EngineIInv, SidecarTypeOK, HeldOneIsThere, StateFits, ShutdownFits, InMonitorLock,
                There
  <2>4. QED BY <2>2, <2>3 DEF EngineIInv
<1>6. QED BY <1>1, <1>2, <1>3, <1>4, <1>5

\* The child is reaped: nobody is there, and the supervisor holds nobody.
LEMMA ReapedKeeps ==
    ASSUME EngineIInv, ~lc.stop, mon.pc # "returned", UNCHANGED <<logged, stable, main>>,
           NEW pc \in {"scan", "respawn"}, mon' = [mon EXCEPT !.pc = pc],
           engine' = IF lc.pid = NoChild THEN engine ELSE [engine EXCEPT ![lc.pid] = "reaped"],
           lc' \in [state : {"restarting", "failed"}, pid : {NoChild}, quick : 0..MaxQuickRestarts,
                    due : BOOLEAN, fatal : Children \cup {NoChild}, stop : {FALSE}]
    PROVE  EngineIInv'
<1>1. SidecarTypeOK /\ HeldOneIsThere /\ ShutdownFits
  BY DEF EngineIInv
<1>2. SidecarTypeOK'
  BY <1>1 DEF SidecarTypeOK
<1>3. \A c \in Children : engine'[c] \notin There
  BY <1>1, SidecarAssumption DEF SidecarTypeOK, HeldOneIsThere, There
<1>4. lc'.pid = NoChild /\ lc'.state \in {"restarting", "failed"} /\ lc'.stop = FALSE
  OBVIOUS
<1>5. mon'.pc = pc
  BY <1>1 DEF SidecarTypeOK
<1>6. HeldOneIsThere' /\ StateFits'
  BY <1>3, <1>4 DEF HeldOneIsThere, StateFits
<1>7. ShutdownFits'
  BY <1>1, <1>3, <1>4, <1>5 DEF ShutdownFits
<1>8. QED BY <1>2, <1>6, <1>7 DEF EngineIInv

\* The monitor.
LEMMA MonitorKeeps == ASSUME EngineIInv, Monitor PROVE EngineIInv'
<1>1. SidecarTypeOK /\ HeldOneIsThere /\ StateFits /\ ShutdownFits
  BY DEF EngineIInv
<1>2. CASE Scan
  <2>1. /\ mon'.pc \in {"top", "publish"} /\ mon' \in [pc : {"top", "publish"},
               of : Children \cup {NoChild}, found : Children \cup {NoChild}]
        /\ mon.pc = "scan" /\ UNCHANGED <<lc, engine, logged, stable, main>>
    BY <1>1, <1>2 DEF Scan, SidecarTypeOK
  <2>2. SidecarTypeOK' /\ HeldOneIsThere' /\ StateFits'
    BY <1>1, <2>1 DEF SidecarTypeOK, HeldOneIsThere, StateFits
  <2>3. ShutdownFits'
    BY <1>1, <2>1 DEF ShutdownFits, InMonitorLock
  <2>4. QED BY <2>2, <2>3 DEF EngineIInv
<1>3. CASE Publish
  <2>1. /\ mon.pc = "publish" /\ mon' = [mon EXCEPT !.pc = "top"]
        /\ UNCHANGED <<engine, logged, stable, main>>
        /\ lc' = lc \/ lc' = [lc EXCEPT !.fatal = mon.found]
    BY <1>3 DEF Publish
  <2>2. SidecarTypeOK' /\ lc'.pid = lc.pid /\ lc'.state = lc.state /\ lc'.stop = lc.stop
        /\ mon'.pc = "top"
    BY <1>1, <2>1 DEF SidecarTypeOK
  <2>3. HeldOneIsThere' /\ StateFits' /\ ShutdownFits'
    BY <1>1, <2>1, <2>2 DEF HeldOneIsThere, StateFits, ShutdownFits, InMonitorLock
  <2>4. QED BY <2>2, <2>3 DEF EngineIInv
<1>4. CASE Top
  <2>1. /\ mon.pc = "top" /\ UNCHANGED <<lc, engine, logged, stable, main>>
        /\ \/ lc.stop /\ mon' = [mon EXCEPT !.pc = "returned"]
           \/ ~lc.stop /\ \E pc \in {"kill", "reap"} : mon' = [mon EXCEPT !.pc = pc]
    BY <1>1, <1>4 DEF Top, MonGoto, SidecarTypeOK
  <2>2. SidecarTypeOK' /\ HeldOneIsThere' /\ StateFits'
    BY <1>1, <2>1 DEF SidecarTypeOK, HeldOneIsThere, StateFits
  <2>3. \/ lc.stop /\ mon'.pc = "returned"
        \/ ~lc.stop /\ mon'.pc \in {"kill", "reap"}
    BY <1>1, <2>1 DEF SidecarTypeOK
  <2>4. ShutdownFits'
    BY <1>1, <2>1, <2>3 DEF ShutdownFits, InMonitorLock
  <2>5. QED BY <2>2, <2>4 DEF EngineIInv
<1>5. CASE KillFatal
  <2>1. ~lc.stop /\ mon.pc # "returned"
    BY <1>1, <1>5 DEF KillFatal, ShutdownFits, InMonitorLock
  <2>2. lc' = [lc EXCEPT !.pid = NoChild, !.state = "failed"]
    BY <1>5 DEF KillFatal
  <2>3. lc' \in [state : {"restarting", "failed"}, pid : {NoChild}, quick : 0..MaxQuickRestarts,
                 due : BOOLEAN, fatal : Children \cup {NoChild}, stop : {FALSE}]
    BY <1>1, <2>1, <2>2 DEF SidecarTypeOK
  <2>4. QED BY <1>5, <2>1, <2>3, ReapedKeeps DEF KillFatal, MonGoto
<1>6. CASE Reap
  <2>1. ~lc.stop /\ mon.pc = "reap"
    BY <1>1, <1>6 DEF Reap, ShutdownFits, InMonitorLock
  <2>2. CASE lc.pid # NoChild /\ engine[lc.pid] = "zombie"
    <3> DEFINE quick == IF lc.state = "ready" /\ stable THEN 0 ELSE lc.quick
    <3>1. quick \in 0..MaxQuickRestarts
      BY <1>1, SidecarAssumption DEF SidecarTypeOK
    <3>2. lc' = IF quick >= MaxQuickRestarts
                THEN [lc EXCEPT !.pid = NoChild, !.quick = quick, !.state = "failed"]
                ELSE [lc EXCEPT !.pid = NoChild, !.quick = quick + 1,
                                !.state = "restarting", !.due = FALSE]
      BY <1>6, <2>2 DEF Reap
    <3> HIDE DEF quick
    <3>3. quick < MaxQuickRestarts => quick + 1 \in 0..MaxQuickRestarts
      BY <3>1, SidecarAssumption
    <3>4. lc' \in [state : {"restarting", "failed"}, pid : {NoChild}, quick : 0..MaxQuickRestarts,
                   due : BOOLEAN, fatal : Children \cup {NoChild}, stop : {FALSE}]
      <4>1. CASE quick >= MaxQuickRestarts
        BY <1>1, <2>1, <3>1, <3>2, <4>1 DEF SidecarTypeOK
      <4>2. CASE quick < MaxQuickRestarts
        <5>1. lc' = [lc EXCEPT !.pid = NoChild, !.quick = quick + 1, !.state = "restarting",
                               !.due = FALSE]
          BY <3>1, <3>2, <4>2, SidecarAssumption
        <5>2. QED BY <1>1, <2>1, <3>3, <4>2, <5>1 DEF SidecarTypeOK
      <4>3. quick >= MaxQuickRestarts \/ quick < MaxQuickRestarts
        BY <3>1, SidecarAssumption
      <4>4. QED BY <4>1, <4>2, <4>3
    <3>5. engine' = [engine EXCEPT ![lc.pid] = "reaped"]
      BY <1>6, <2>2 DEF Reap
    <3>6. QED BY <1>6, <2>1, <2>2, <3>4, <3>5, ReapedKeeps DEF Reap, MonGoto
  <2>3. CASE ~(lc.pid # NoChild /\ engine[lc.pid] = "zombie")
    <3>1. UNCHANGED <<lc, engine, logged, stable, main>> /\ mon' = [mon EXCEPT !.pc = "respawn"]
      BY <1>6, <2>3 DEF Reap, MonGoto
    <3>2. SidecarTypeOK' /\ HeldOneIsThere' /\ StateFits' /\ mon'.pc = "respawn"
      BY <1>1, <3>1 DEF SidecarTypeOK, HeldOneIsThere, StateFits
    <3>3. ShutdownFits'
      BY <1>1, <2>1, <3>1, <3>2 DEF ShutdownFits
    <3>4. QED BY <3>2, <3>3 DEF EngineIInv
  <2>4. QED BY <2>2, <2>3
<1>7. CASE Respawn
  <2>1. ~lc.stop /\ mon.pc = "respawn" /\ mon' = [mon EXCEPT !.pc = "probe"] /\ main' = main
        /\ mon'.pc = "probe"
    BY <1>1, <1>7 DEF Respawn, MonGoto, ShutdownFits, InMonitorLock, SidecarTypeOK
  <2>2. CASE UNCHANGED <<lc, engine, logged, stable>>
    <3>1. SidecarTypeOK' /\ HeldOneIsThere' /\ StateFits'
      BY <1>1, <2>1, <2>2 DEF SidecarTypeOK, HeldOneIsThere, StateFits
    <3>2. ShutdownFits'
      BY <1>1, <2>1, <2>2 DEF ShutdownFits
    <3>3. QED BY <3>1, <3>2 DEF EngineIInv
  <2>3. CASE /\ lc.state = "restarting" /\ lc' = [lc EXCEPT !.state = "failed"]
             /\ UNCHANGED <<engine, logged, stable>>
    <3>1. SidecarTypeOK' /\ lc'.state = "failed" /\ lc'.pid = lc.pid /\ lc'.stop = lc.stop
      BY <1>1, <2>1, <2>3 DEF SidecarTypeOK
    <3>2. HeldOneIsThere' /\ StateFits' /\ ShutdownFits'
      BY <1>1, <2>1, <2>3, <3>1 DEF HeldOneIsThere, StateFits, ShutdownFits
    <3>3. QED BY <3>1, <3>2 DEF EngineIInv
  <2>4. ASSUME lc.state = "restarting", NEW c \in Children,
               engine' = [engine EXCEPT ![c] = "loading"],
               lc' = [lc EXCEPT !.pid = c, !.state = "starting"],
               logged' = logged \ {c}, stable' = FALSE
        PROVE  EngineIInv'
    <3>1. SidecarTypeOK' /\ lc'.state = "starting" /\ lc'.pid = c /\ lc'.stop = FALSE
      BY <1>1, <2>1, <2>4 DEF SidecarTypeOK
    <3>2. \A d \in Children : engine[d] \notin There /\ engine'[d] \in There => d = c
      BY <1>1, <2>4 DEF SidecarTypeOK
    <3>3. lc.pid = NoChild /\ c # NoChild /\ engine'[c] = "loading"
      BY <1>1, <2>4, SidecarAssumption DEF SidecarTypeOK, StateFits
    <3>4. HeldOneIsThere' /\ StateFits'
      BY <1>1, <3>1, <3>2, <3>3, SidecarAssumption DEF HeldOneIsThere, StateFits, There
    <3>5. ShutdownFits'
      BY <1>1, <2>1, <3>1 DEF ShutdownFits
    <3>6. QED BY <3>1, <3>4, <3>5 DEF EngineIInv
  <2>5. QED BY <1>7, <2>2, <2>3, <2>4 DEF Respawn
<1>8. CASE Probe
  <2>1. ~lc.stop /\ mon' = [mon EXCEPT !.pc = "scan"] /\ UNCHANGED <<engine, logged, stable, main>>
        /\ mon'.pc = "scan"
    BY <1>1, <1>8 DEF Probe, MonGoto, ShutdownFits, InMonitorLock, SidecarTypeOK
  <2>2. \/ lc' = lc
        \/ /\ lc.state = "starting" /\ engine[lc.pid] = "healthy"
           /\ lc' = [lc EXCEPT !.state = "ready"]
    BY <1>8 DEF Probe
  <2>3. SidecarTypeOK' /\ lc'.pid = lc.pid /\ lc'.stop = lc.stop
        /\ (lc'.state = lc.state
            \/ (lc.state = "starting" /\ engine[lc.pid] = "healthy" /\ lc'.state = "ready"))
    <3>1. CASE lc' = lc
      BY <1>1, <2>1, <3>1 DEF SidecarTypeOK
    <3>2. CASE /\ lc.state = "starting" /\ engine[lc.pid] = "healthy"
               /\ lc' = [lc EXCEPT !.state = "ready"]
      BY <1>1, <2>1, <3>2 DEF SidecarTypeOK
    <3>3. QED BY <2>2, <3>1, <3>2
  <2>4. HeldOneIsThere' /\ StateFits' /\ ShutdownFits'
    BY <1>1, <2>1, <2>3 DEF HeldOneIsThere, StateFits, ShutdownFits
  <2>5. QED BY <2>3, <2>4 DEF EngineIInv
<1>9. QED BY <1>2, <1>3, <1>4, <1>5, <1>6, <1>7, <1>8 DEF Monitor

\* The accept loop and the shutdown.
LEMMA MainKeeps == ASSUME EngineIInv, MainStep \/ Signal PROVE EngineIInv'
<1>1. SidecarTypeOK /\ HeldOneIsThere /\ StateFits /\ ShutdownFits
  BY DEF EngineIInv
<1>2. CASE RefuseOverFatal \/ Signal
  <2>1. main.pc = "serving" /\ main' = [main EXCEPT !.pc = "stopping"]
        /\ UNCHANGED <<lc, engine, logged, stable, mon>>
    BY <1>2 DEF RefuseOverFatal, Signal
  <2>2. SidecarTypeOK' /\ main'.pc = "stopping"
    BY <1>1, <2>1 DEF SidecarTypeOK
  <2>3. HeldOneIsThere' /\ StateFits' /\ ShutdownFits'
    BY <1>1, <2>1, <2>2 DEF HeldOneIsThere, StateFits, ShutdownFits
  <2>4. QED BY <2>2, <2>3 DEF EngineIInv
<1>3. CASE TellMonitor
  <2>1. /\ main.pc = "stopping" /\ ~InMonitorLock
        /\ lc' = [lc EXCEPT !.stop = TRUE] /\ main' = [pc |-> "joining", pid |-> lc.pid]
        /\ UNCHANGED <<engine, logged, stable, mon>>
    BY <1>3 DEF TellMonitor
  <2>2. SidecarTypeOK' /\ lc'.pid = lc.pid /\ lc'.state = lc.state /\ lc'.stop = TRUE
    BY <1>1, <2>1 DEF SidecarTypeOK
  <2>3. HeldOneIsThere' /\ StateFits' /\ ShutdownFits'
    BY <1>1, <2>1, <2>2 DEF HeldOneIsThere, StateFits, ShutdownFits, InMonitorLock
  <2>4. QED BY <2>2, <2>3 DEF EngineIInv
<1>4. CASE KillAtShutdown
  <2>1. /\ main.pc = "joining" /\ mon.pc = "returned" /\ main.pid = lc.pid
        /\ engine' = IF lc.pid = NoChild THEN engine ELSE [engine EXCEPT ![lc.pid] = "reaped"]
        /\ main' = [main EXCEPT !.pc = "exited"]
        /\ UNCHANGED <<lc, logged, stable, mon>>
    BY <1>1, <1>4 DEF KillAtShutdown, ShutdownFits
  <2>2. SidecarTypeOK' /\ main'.pc = "exited" /\ main'.pid = lc.pid
    BY <1>1, <2>1 DEF SidecarTypeOK
  <2>3. \A c \in Children : engine'[c] \notin There
    BY <1>1, <2>1, SidecarAssumption DEF SidecarTypeOK, HeldOneIsThere, There
  <2>4. lc.pid # NoChild => engine'[lc.pid] = "reaped"
    BY <1>1, <2>1 DEF SidecarTypeOK
  <2>5. HeldOneIsThere' /\ StateFits' /\ ShutdownFits'
    BY <1>1, <2>1, <2>2, <2>3, <2>4 DEF HeldOneIsThere, StateFits, ShutdownFits, InMonitorLock
  <2>6. QED BY <2>2, <2>5 DEF EngineIInv
<1>5. QED BY <1>2, <1>3, <1>4 DEF MainStep

\* The inductive invariant of the engine's supervisor: whose process is there, what the state says
\* of it, and that the shutdown kills the current one (llama_monitor(), idletoken_llama_shutdown()).
THEOREM EngineCorrect == SidecarSpec => []EngineIInv
<1>1. SidecarInit => EngineIInv
  <2> SUFFICES ASSUME SidecarInit PROVE EngineIInv
    OBVIOUS
  <2>1. lc.quick = 0 /\ 0 \in 0..MaxQuickRestarts
    BY SidecarAssumption DEF SidecarInit
  <2>2. SidecarTypeOK
    BY <2>1, SidecarAssumption DEF SidecarInit, SidecarTypeOK
  <2>3. HeldOneIsThere /\ StateFits
    BY SidecarAssumption DEF SidecarInit, HeldOneIsThere, StateFits, There
  <2>4. ShutdownFits
    BY DEF SidecarInit, ShutdownFits
  <2>5. QED BY <2>2, <2>3, <2>4 DEF EngineIInv
<1>2. EngineIInv /\ [SidecarNext]_sidecarVars => EngineIInv'
  <2>1. ASSUME EngineIInv, UNCHANGED sidecarVars PROVE EngineIInv'
    BY <2>1 DEF sidecarVars, EngineIInv, SidecarTypeOK, HeldOneIsThere, StateFits, ShutdownFits,
                InMonitorLock
  <2>2. QED BY <2>1, ProcessKeeps, MonitorKeeps, MainKeeps DEF SidecarNext
<1>3. QED BY <1>1, <1>2, PTL DEF SidecarSpec

\* Wherever the monitor is in its round when the coordinator is told to stop, and however often
\* the engine dies, no engine is lost, and READY is said only of one that answered
\* (llama_monitor(), llama_reap(), idletoken_llama_shutdown()).
THEOREM EnginesAreKnown == SidecarSpec => []EngineKnown
<1>1. EngineIInv => EngineKnown
  BY SidecarAssumption DEF EngineIInv, SidecarTypeOK, HeldOneIsThere, StateFits, ShutdownFits,
                           EngineKnown, NoOrphanEngine, ReadyAnswered, There
<1>2. QED BY <1>1, EngineCorrect, PTL

-----------------------------------------------------------------------------
(***************************************************************************)
(* ClientEngine.                                                           *)
(***************************************************************************)
Slot == [state : Busy \cup {"stopped", "crashed"}, owner : Loops \cup {None},
         child : Loops \cup {None}, restarts : Nat, refused : {"no", "noted", "said"},
         request : Requests \cup {None}]
LoopOf == [pc : {"spawn", "book", "drain", "retry", "sleep"}, role : Roles,
           proc : {"none", "up", "told", "gone"}, says : BOOLEAN, code : {"none", "any", "refused"}]

\* A slot that is busy is owned by a loop of its role; the child of one that runs is the owner's,
\* and no other slot has a child.
SlotFits(s, loop, r) ==
    /\ s.child # None => s.state = "running"
    /\ s.state = "running" => s.child = s.owner /\ loop.pc \in {"drain", "retry"}
    /\ s.state \in Busy => s.owner # None /\ loop # Over /\ loop.role = r

\* A loop that owns its slot keeps it busy, and starts nothing that was refused; a process that
\* is up is about to be booked or killed, or is the slot's child.
LoopFits(l, loop, s) ==
    /\ s.owner = l => s.state \in Busy
    /\ loop.pc \in {"spawn", "sleep", "retry"} => loop.proc = "none"
    /\ loop.proc = "up" => loop.pc = "book" \/ (s.owner = l /\ s.child = l)
    /\ s.owner = l /\ loop.pc \in {"spawn", "book", "sleep"} => s.refused # "said"

ClientTyped ==
    /\ slots \in [Roles -> Slot]
    /\ loops \in [Loops -> LoopOf \cup {Over}]
    /\ serving.pc \in {"stop", "start"} => serving.role \in Roles /\ serving.request \in Requests

ClientIInv ==
    /\ ClientTyped
    /\ \A r \in Roles : SlotFits(slots[r], loops[slots[r].owner], r)
    /\ \A l \in Loops : loops[l] # Over => LoopFits(l, loops[l], slots[loops[l].role])

\* A loop that is over is no loop's record.
LEMMA OverIsOver == Over \notin LoopOf /\ \A k \in LoopOf : k.pc # "over"
BY DEF Over, LoopOf

\* What the invariant says of a loop that runs.
LEMMA OfLoop ==
    ASSUME ClientIInv, NEW l \in Loops, loops[l] # Over
    PROVE  /\ loops[l] \in LoopOf /\ loops[l].role \in Roles /\ SlotOf(l) \in Slot
           /\ LoopFits(l, loops[l], SlotOf(l))
           /\ SlotFits(SlotOf(l), loops[SlotOf(l).owner], loops[l].role)
           /\ Owns(l) <=> SlotOf(l).owner = l
<1>1. loops[l] \in LoopOf
  BY DEF ClientIInv, ClientTyped
<1>2. loops[l].role \in Roles
  BY <1>1 DEF LoopOf
<1>3. QED BY <1>1, <1>2 DEF ClientIInv, ClientTyped, SlotOf, Owns

\* A step of one loop on its slot.
LEMMA OneLoop ==
    ASSUME ClientIInv, NEW l \in Loops, loops[l] # Over,
           NEW x \in LoopOf \cup {Over}, NEW y \in Slot,
           loops' = [loops EXCEPT ![l] = x],
           slots' = [slots EXCEPT ![loops[l].role] = y],
           serving' = serving,
           x # Over => x.role = loops[l].role /\ LoopFits(l, x, y),
           y.owner = SlotOf(l).owner,
           Owns(l) => SlotFits(y, x, loops[l].role),
           ~Owns(l) => y = SlotOf(l)
    PROVE  ClientIInv'
<1> DEFINE role == loops[l].role
<1>1. /\ ClientTyped /\ role \in Roles /\ (Owns(l) <=> slots[role].owner = l)
      /\ y.owner = slots[role].owner /\ (slots[role].owner # l => y = slots[role])
      /\ None \notin Loops
  BY OfLoop, ClientEngineAssumption DEF ClientIInv, SlotOf, None
<1>2. ClientTyped'
  BY <1>1 DEF ClientTyped
<1>3. /\ loops'[l] = x /\ \A k \in Loops \ {l} : loops'[k] = loops[k]
      /\ slots'[role] = y /\ \A r \in Roles \ {role} : slots'[r] = slots[r]
  BY <1>1 DEF ClientTyped
<1>4. ASSUME NEW r \in Roles PROVE SlotFits(slots'[r], loops'[slots'[r].owner], r)
  <2>1. SlotFits(slots[r], loops[slots[r].owner], r) /\ slots[r] \in Slot
    BY DEF ClientIInv, ClientTyped
  <2>2. CASE r = role /\ slots[role].owner = l
    BY <1>1, <1>3, <2>2
  <2>3. CASE ~(r = role /\ slots[role].owner = l)
    <3>1. slots'[r] = slots[r]
      BY <1>1, <1>3, <2>3
    <3>2. slots[r].state \in Busy => slots[r].owner \in Loops \ {l}
      BY <1>1, <2>1, <2>3 DEF SlotFits, Slot
    <3>3. slots[r].state \in Busy => loops'[slots[r].owner] = loops[slots[r].owner]
      BY <1>3, <3>2
    <3>4. QED BY <2>1, <3>1, <3>3 DEF SlotFits, Busy
  <2>4. QED BY <2>2, <2>3
<1>5. ASSUME NEW k \in Loops, loops'[k] # Over
      PROVE  LoopFits(k, loops'[k], slots'[loops'[k].role])
  <2>1. CASE k = l
    BY <1>3, <1>5, <2>1
  <2>2. CASE k # l
    <3>1. loops'[k] = loops[k] /\ loops[k] # Over
      BY <1>3, <1>5, <2>2
    <3>2. LoopFits(k, loops[k], slots[loops[k].role]) /\ loops[k].role \in Roles
      BY <3>1, OfLoop DEF SlotOf
    <3>3. CASE slots'[loops[k].role] = slots[loops[k].role]
      BY <3>1, <3>2, <3>3
    <3>4. CASE slots'[loops[k].role] # slots[loops[k].role]
      <4>1. loops[k].role = role /\ slots[role].owner = l
        BY <1>1, <1>3, <3>2, <3>4
      <4>2. slots'[role].owner # k /\ slots[role].owner # k
        BY <1>1, <1>3, <2>2, <4>1
      <4>3. QED BY <3>1, <3>2, <4>1, <4>2 DEF LoopFits
    <3>5. QED BY <3>3, <3>4
  <2>3. QED BY <2>1, <2>2
<1>6. QED BY <1>2, <1>4, <1>5 DEF ClientIInv

\* A loop whose slot is another's by now ends, or goes on without it.
LEMMA OneLoopAlone ==
    ASSUME ClientIInv, NEW l \in Loops, loops[l] # Over,
           NEW x \in LoopOf \cup {Over},
           loops' = [loops EXCEPT ![l] = x], slots' = slots, serving' = serving,
           x # Over => x.role = loops[l].role /\ LoopFits(l, x, SlotOf(l)),
           Owns(l) => SlotFits(SlotOf(l), x, loops[l].role)
    PROVE  ClientIInv'
<1>1. slots' = [slots EXCEPT ![loops[l].role] = SlotOf(l)]
  BY DEF ClientIInv, ClientTyped, SlotOf
<1>2. SlotOf(l) \in Slot
  BY OfLoop
<1>3. QED BY <1>1, <1>2, OneLoop

\* The roles' slots are taken from their loops.
LEMMA StopKeepsChildren ==
    ASSUME ClientIInv, NEW rs \in SUBSET Roles, StopRoles(rs),
           serving'.pc \in {"stop", "start"} => serving'.role \in Roles /\ serving'.request \in Requests
    PROVE  ClientIInv'
<1>1. /\ ClientTyped /\ None \notin Loops
      /\ \A r \in Roles : slots[r] \in Slot /\ SlotFits(slots[r], loops[slots[r].owner], r)
  BY ClientEngineAssumption DEF ClientIInv, ClientTyped, None
<1>2. ASSUME NEW r \in Roles
      PROVE  /\ slots'[r] \in Slot
             /\ r \notin rs => slots'[r] = slots[r]
             /\ r \in rs => /\ slots'[r].owner = None /\ slots'[r].child = None
                            /\ slots'[r].state = "stopped"
  BY <1>1 DEF StopRoles, Slot, Busy
<1>3. ASSUME NEW l \in Loops
      PROVE  /\ loops[l] = Over => loops'[l] = Over
             /\ loops[l] # Over =>
                  /\ loops'[l] \in LoopOf
                  /\ loops'[l].role = loops[l].role /\ loops'[l].pc = loops[l].pc
                  /\ loops'[l].role \notin rs => loops'[l] = loops[l]
                  /\ loops'[l].proc # loops[l].proc => loops'[l].proc = "told" /\ loops[l].proc = "up"
                  /\ loops'[l].role \in rs /\ loops'[l].proc = "up" => SlotOf(l).child # l
  <2>1. loops[l] = Over \/ loops[l] \in LoopOf
    BY <1>1 DEF ClientTyped
  <2>2. loops'[l] = IF loops[l].proc = "up" /\ loops[l].role \in rs /\ slots[loops[l].role].child = l
                    THEN [loops[l] EXCEPT !.proc = "told"] ELSE loops[l]
    BY DEF StopRoles
  <2>3. CASE loops[l] = Over
    BY <2>2, <2>3 DEF Over
  <2>4. CASE loops[l] \in LoopOf /\ loops'[l] = loops[l]
    BY <2>2, <2>4, OverIsOver DEF SlotOf
  <2>5. CASE loops[l] \in LoopOf /\ loops'[l] # loops[l]
    <3>1. loops'[l] = [loops[l] EXCEPT !.proc = "told"] /\ loops[l].proc = "up"
      BY <2>2, <2>5
    <3>2. /\ loops'[l] \in LoopOf /\ loops'[l].role = loops[l].role
          /\ loops'[l].pc = loops[l].pc /\ loops'[l].proc = "told" /\ loops[l].role \in rs
      BY <2>2, <2>5, <3>1 DEF LoopOf
    <3>3. QED BY <2>5, <3>1, <3>2, OverIsOver
  <2>6. QED BY <2>1, <2>3, <2>4, <2>5
<1>4. slots' \in [Roles -> Slot] /\ loops' \in [Loops -> LoopOf \cup {Over}]
  BY <1>1, <1>2, <1>3 DEF StopRoles, ClientTyped
<1>5. ASSUME NEW r \in Roles PROVE SlotFits(slots'[r], loops'[slots'[r].owner], r)
  <2>1. CASE r \in rs
    BY <1>2, <2>1 DEF SlotFits, Busy
  <2>2. CASE r \notin rs
    <3>1. slots'[r] = slots[r] /\ SlotFits(slots[r], loops[slots[r].owner], r) /\ slots[r] \in Slot
      BY <1>1, <1>2, <2>2
    <3>2. slots[r].state \in Busy =>
             slots[r].owner \in Loops /\ loops[slots[r].owner] # Over /\ loops[slots[r].owner].role = r
      BY <3>1 DEF SlotFits, Slot
    <3>3. slots[r].state \in Busy => loops'[slots[r].owner] = loops[slots[r].owner]
      BY <1>3, <2>2, <3>2
    <3>4. QED BY <3>1, <3>3 DEF SlotFits, Busy
  <2>3. QED BY <2>1, <2>2
<1>6. ASSUME NEW l \in Loops, loops'[l] # Over
      PROVE  LoopFits(l, loops'[l], slots'[loops'[l].role])
  <2>1. loops[l] # Over /\ loops[l].role \in Roles /\ LoopFits(l, loops[l], SlotOf(l))
    BY <1>3, <1>6, OfLoop
  <2>2. CASE loops[l].role \notin rs
    <3>1. loops'[l] = loops[l] /\ slots'[loops[l].role] = SlotOf(l)
      BY <1>2, <1>3, <2>1, <2>2 DEF SlotOf
    <3>2. QED BY <2>1, <3>1
  <2>3. CASE loops[l].role \in rs
    <3>1. slots'[loops'[l].role].owner # l
      BY <1>1, <1>2, <1>3, <2>1, <2>3
    <3>2. loops'[l].proc = "up" => loops[l].proc = "up" /\ SlotOf(l).child # l
      BY <1>3, <2>1, <2>3
    <3>3. loops'[l].pc = loops[l].pc /\ (loops[l].proc # "up" => loops'[l].proc = loops[l].proc)
      BY <1>3, <2>1
    <3>4. QED BY <2>1, <3>1, <3>2, <3>3 DEF LoopFits
  <2>4. QED BY <2>2, <2>3
<1>7. QED BY <1>4, <1>5, <1>6 DEF ClientIInv, ClientTyped

\* A role is started: a loop that was over takes its slot.
LEMMA StartKeeps ==
    ASSUME ClientIInv, NEW r \in Roles, NEW request \in Requests, StartRole(r, request),
           serving'.pc \in {"stop", "start"} => serving'.role \in Roles /\ serving'.request \in Requests
    PROVE  ClientIInv'
<1>1. /\ ClientTyped /\ None \notin Loops
      /\ \A q \in Roles : slots[q] \in Slot /\ SlotFits(slots[q], loops[slots[q].owner], q)
  BY ClientEngineAssumption DEF ClientIInv, ClientTyped, None
<1>2. CASE UNCHANGED <<slots, loops>>
  BY <1>1, <1>2 DEF ClientIInv, ClientTyped
<1>3. CASE ~UNCHANGED <<slots, loops>>
  <2> DEFINE y(l) == [Vacant EXCEPT !.state = "starting", !.owner = l, !.request = request]
             x == [pc |-> "spawn", role |-> r, proc |-> "none", says |-> FALSE, code |-> "none"]
  <2>1. PICK l \in Loops : /\ loops[l] = Over
                           /\ slots' = [slots EXCEPT ![r] = y(l)]
                           /\ loops' = [loops EXCEPT ![l] = x]
    BY <1>3 DEF StartRole
  <2>2. slots[r].state \notin Busy
    BY <1>3 DEF StartRole
  <2>3. /\ y(l) \in Slot /\ y(l).owner = l /\ y(l).child = None /\ y(l).state = "starting"
        /\ y(l).refused = "no"
    BY DEF Slot, Vacant, Busy
  <2>4. x \in LoopOf /\ x.role = r /\ x.pc = "spawn" /\ x.proc = "none" /\ x # Over
    BY DEF LoopOf, Over
  <2> HIDE DEF x, y
  <2>5. /\ loops'[l] = x /\ \A k \in Loops \ {l} : loops'[k] = loops[k]
        /\ slots'[r] = y(l) /\ \A q \in Roles \ {r} : slots'[q] = slots[q]
    BY <1>1, <2>1 DEF ClientTyped
  <2>6. slots' \in [Roles -> Slot] /\ loops' \in [Loops -> LoopOf \cup {Over}]
    BY <1>1, <2>1, <2>3, <2>4 DEF ClientTyped
  <2>7. ASSUME NEW q \in Roles PROVE SlotFits(slots'[q], loops'[slots'[q].owner], q)
    <3>1. CASE q = r
      BY <1>1, <2>3, <2>4, <2>5, <3>1 DEF SlotFits, Busy
    <3>2. CASE q # r
      <4>1. slots'[q] = slots[q] /\ SlotFits(slots[q], loops[slots[q].owner], q) /\ slots[q] \in Slot
        BY <1>1, <2>5, <3>2
      <4>2. slots[q].state \in Busy => slots[q].owner \in Loops \ {l}
        BY <2>1, <4>1 DEF SlotFits, Slot
      <4>3. slots[q].state \in Busy => loops'[slots[q].owner] = loops[slots[q].owner]
        BY <2>5, <4>2
      <4>4. QED BY <4>1, <4>3 DEF SlotFits, Busy
    <3>3. QED BY <3>1, <3>2
  <2>8. ASSUME NEW k \in Loops, loops'[k] # Over
        PROVE  LoopFits(k, loops'[k], slots'[loops'[k].role])
    <3>1. CASE k = l
      BY <2>3, <2>4, <2>5, <3>1 DEF LoopFits, Busy
    <3>2. CASE k # l
      <4>1. loops'[k] = loops[k] /\ loops[k] # Over
        BY <2>5, <2>8, <3>2
      <4>2. LoopFits(k, loops[k], slots[loops[k].role]) /\ loops[k].role \in Roles
        BY <4>1, OfLoop DEF SlotOf
      <4>3. CASE loops[k].role # r
        BY <2>5, <4>1, <4>2, <4>3
      <4>4. CASE loops[k].role = r
        <5>1. slots[r].owner # k /\ y(l).owner # k
          BY <2>2, <2>3, <3>2, <4>2, <4>4 DEF LoopFits
        <5>2. QED BY <2>5, <4>1, <4>2, <4>4, <5>1 DEF LoopFits
      <4>5. QED BY <4>3, <4>4
    <3>3. QED BY <3>1, <3>2
  <2>9. QED BY <2>6, <2>7, <2>8 DEF ClientIInv, ClientTyped
<1>4. QED BY <1>2, <1>3

\* The reason of a failure goes on the slot of a role.
LEMMA NoteKeeps == ASSUME ClientIInv, NEW r \in Roles, NoteFailure(r) PROVE ClientIInv'
<1> DEFINE y == [slots[r] EXCEPT !.refused = IF slots[r].refused = "no" THEN "noted" ELSE slots[r].refused]
<1>1. /\ ClientTyped /\ slots[r] \in Slot
      /\ UNCHANGED <<loops, serving>> /\ slots' = [slots EXCEPT ![r] = y]
  BY DEF ClientIInv, ClientTyped, NoteFailure
<1>2. /\ y \in Slot /\ y.state = slots[r].state /\ y.owner = slots[r].owner
      /\ y.child = slots[r].child /\ (y.refused = "said" => slots[r].refused = "said")
  BY <1>1 DEF Slot
<1> HIDE DEF y
<1>3. slots'[r] = y /\ \A q \in Roles \ {r} : slots'[q] = slots[q]
  BY <1>1 DEF ClientTyped
<1>4. ClientTyped'
  BY <1>1, <1>2 DEF ClientTyped
<1>5. ASSUME NEW q \in Roles PROVE SlotFits(slots'[q], loops'[slots'[q].owner], q)
  <2>1. SlotFits(slots[q], loops[slots[q].owner], q)
    BY DEF ClientIInv
  <2>2. QED BY <1>1, <1>2, <1>3, <2>1 DEF SlotFits
<1>6. ASSUME NEW k \in Loops, loops'[k] # Over
      PROVE  LoopFits(k, loops'[k], slots'[loops'[k].role])
  <2>1. LoopFits(k, loops[k], slots[loops[k].role]) /\ loops[k].role \in Roles /\ loops'[k] = loops[k]
    BY <1>1, <1>6, OfLoop DEF SlotOf
  <2>2. CASE loops[k].role = r
    BY <1>2, <1>3, <2>1, <2>2 DEF LoopFits
  <2>3. CASE loops[k].role # r
    BY <1>3, <2>1, <2>3
  <2>4. QED BY <2>2, <2>3
<1>7. QED BY <1>4, <1>5, <1>6 DEF ClientIInv

\* The commands of the window and of the roster.
LEMMA CommandKeeps ==
    ASSUME ClientIInv,
           \/ \E r \in Roles, q \in Requests : StartEngine(r, q) \/ Serve(r, q)
           \/ StopEngine \/ StopAgent \/ StopAll \/ ServeStops \/ ServeStarts \/ StopFailed
           \/ \E r \in Roles : NoteFailure(r)
    PROVE  ClientIInv'
<1>1. /\ ClientTyped /\ Inference \in SUBSET Roles /\ {Agent} \in SUBSET Roles
      /\ Roles \in SUBSET Roles
  BY ClientEngineAssumption DEF ClientIInv, Inference
<1>2. serving.pc \in {"stop", "start"} => serving.role \in Roles /\ serving.request \in Requests
  BY <1>1 DEF ClientTyped
<1>3. ASSUME NEW r \in Roles, NEW q \in Requests, StartEngine(r, q) PROVE ClientIInv'
  BY <1>2, <1>3, StartKeeps DEF StartEngine
<1>4. ASSUME NEW r \in Roles, NEW q \in Requests, Serve(r, q) PROVE ClientIInv'
  BY <1>1, <1>4 DEF Serve, ClientIInv, ClientTyped
<1>5. CASE StopEngine \/ StopFailed
  <2>1. StopRoles(Inference) /\ serving' = serving
    BY <1>5 DEF StopEngine, StopFailed
  <2>2. QED BY <1>1, <1>2, <2>1, StopKeepsChildren
<1>6. CASE StopAgent
  <2>1. StopRoles({Agent}) /\ serving' = serving
    BY <1>6 DEF StopAgent
  <2>2. QED BY <1>1, <1>2, <2>1, StopKeepsChildren
<1>7. CASE StopAll
  <2>1. StopRoles(Roles) /\ serving' = serving
    BY <1>7 DEF StopAll
  <2>2. QED BY <1>1, <1>2, <2>1, StopKeepsChildren
<1>8. CASE ServeStops
  <2>1. StopRoles(Inference) /\ serving.pc = "stop" /\ serving' = [serving EXCEPT !.pc = "start"]
    BY <1>8 DEF ServeStops
  <2>2. serving'.role \in Roles /\ serving'.request \in Requests
    BY <1>2, <2>1
  <2>3. QED BY <1>1, <2>1, <2>2, StopKeepsChildren
<1>9. CASE ServeStarts
  <2>1. /\ StartRole(serving.role, serving.request) /\ serving.pc = "start"
        /\ serving'.pc = "idle"
    BY <1>9 DEF ServeStarts
  <2>2. QED BY <1>2, <2>1, StartKeeps
<1>10. QED BY <1>3, <1>4, <1>5, <1>6, <1>7, <1>8, <1>9, NoteKeeps

\* A loop ends that owns no slot.
LEMMA EndKeeps ==
    ASSUME ClientIInv, NEW l \in Loops, loops[l] # Over, ~Owns(l), End(l), slots' = slots,
           serving' = serving
    PROVE  ClientIInv'
BY OneLoopAlone DEF End

\* A loop spawns, or ends because its slot was taken from it.
LEMMA SpawnKeeps == ASSUME ClientIInv, NEW l \in Loops, NEW b \in BOOLEAN, Spawn(l, b)
                    PROVE  ClientIInv'
<1>1. /\ loops[l] # Over /\ At(l, "spawn") /\ slots' = slots /\ serving' = serving
  BY DEF Spawn, At, Over, LoopOnly
<1>2. CASE ~Owns(l)
  BY <1>1, <1>2, EndKeeps DEF Spawn
<1>3. CASE Owns(l)
  <2> DEFINE x == [loops[l] EXCEPT !.pc = IF b THEN "book" ELSE "retry",
                                   !.proc = IF b THEN "up" ELSE "none",
                                   !.says = FALSE, !.code = "none"]
  <2>1. /\ loops[l] \in LoopOf /\ loops[l].pc = "spawn" /\ LoopFits(l, loops[l], SlotOf(l))
        /\ SlotFits(SlotOf(l), loops[l], loops[l].role) /\ SlotOf(l).owner = l
    BY <1>1, <1>3, OfLoop DEF At
  <2>2. loops' = [loops EXCEPT ![l] = x]
    BY <1>3 DEF Spawn
  <2>3. /\ x \in LoopOf /\ x.role = loops[l].role /\ x # Over
        /\ x.pc = "book" \/ (x.pc = "retry" /\ x.proc = "none")
    BY <2>1, OverIsOver DEF LoopOf
  <2> HIDE DEF x
  <2>4. SlotOf(l).state # "running"
    BY <2>1 DEF SlotFits
  <2>5. LoopFits(l, x, SlotOf(l)) /\ SlotFits(SlotOf(l), x, loops[l].role)
    BY <2>1, <2>3, <2>4 DEF LoopFits, SlotFits
  <2>6. QED BY <1>1, <2>2, <2>3, <2>5, OneLoopAlone
<1>4. QED BY <1>2, <1>3

\* What was spawned is booked under the slot, or killed.
LEMMA BookKeeps == ASSUME ClientIInv, NEW l \in Loops, Book(l) PROVE ClientIInv'
<1>1. /\ loops[l] # Over /\ At(l, "book") /\ serving' = serving
  BY DEF Book, At, Over, LoopOnly
<1>2. CASE ~Owns(l)
  BY <1>1, <1>2, EndKeeps DEF Book
<1>3. CASE Owns(l)
  <2> DEFINE x == [loops[l] EXCEPT !.pc = "drain"]
             y == [SlotOf(l) EXCEPT !.child = l, !.state = "running"]
  <2>1. /\ loops[l] \in LoopOf /\ loops[l].pc = "book" /\ SlotOf(l) \in Slot
        /\ SlotOf(l).owner = l /\ loops[l].role \in Roles
    BY <1>1, <1>3, OfLoop DEF At
  <2>2. loops' = [loops EXCEPT ![l] = x] /\ slots' = [slots EXCEPT ![loops[l].role] = y]
    BY <1>3 DEF Book, SetSlot, Goto
  <2>3. /\ x \in LoopOf /\ x.role = loops[l].role /\ x # Over /\ x.pc = "drain"
        /\ y \in Slot /\ y.owner = l /\ y.child = l /\ y.state = "running"
    BY <2>1, OverIsOver DEF LoopOf, Slot, Busy
  <2> HIDE DEF x, y
  <2>4. LoopFits(l, x, y) /\ SlotFits(y, x, loops[l].role)
    BY <2>3, ClientEngineAssumption DEF LoopFits, SlotFits, Busy, None
  <2>5. QED BY <1>1, <1>3, <2>1, <2>2, <2>3, <2>4, OneLoop
<1>4. QED BY <1>2, <1>3

\* The reader of the pipe: what the process says, and its end.
LEMMA HearKeeps == ASSUME ClientIInv, NEW l \in Loops, HearRefusal(l) \/ HearExit(l)
                   PROVE  ClientIInv'
<1>1. /\ loops[l] # Over /\ At(l, "drain") /\ serving' = serving
  BY DEF HearRefusal, HearExit, At, Over, LoopOnly
<1>2. /\ loops[l] \in LoopOf /\ loops[l].pc = "drain" /\ SlotOf(l) \in Slot
      /\ LoopFits(l, loops[l], SlotOf(l)) /\ loops[l].role \in Roles
      /\ Owns(l) <=> SlotOf(l).owner = l
      /\ SlotFits(SlotOf(l), loops[SlotOf(l).owner], loops[l].role)
  BY <1>1, OfLoop DEF At
<1> DEFINE heard == [loops[l] EXCEPT !.says = FALSE]
           gone_ == [loops[l] EXCEPT !.pc = "retry", !.proc = "none", !.code = "none"]
           refused == [SlotOf(l) EXCEPT !.refused = "said"]
<1>3. \E x \in {heard, gone_} :
        /\ loops' = [loops EXCEPT ![l] = x]
        /\ slots' = slots \/ (Owns(l) /\ slots' = [slots EXCEPT ![loops[l].role] = refused])
  BY DEF HearRefusal, HearExit, SetSlot
<1>4. /\ heard \in LoopOf /\ heard.pc = "drain" /\ heard.role = loops[l].role
      /\ heard.proc = loops[l].proc
      /\ gone_ \in LoopOf /\ gone_.pc = "retry" /\ gone_.role = loops[l].role
      /\ gone_.proc = "none"
      /\ refused \in Slot /\ refused.owner = SlotOf(l).owner /\ refused.state = SlotOf(l).state
      /\ refused.child = SlotOf(l).child
  BY <1>2 DEF LoopOf, Slot
<1> HIDE DEF heard, gone_, refused
<1>5. PICK x \in {heard, gone_} :
        /\ loops' = [loops EXCEPT ![l] = x]
        /\ slots' = slots \/ (Owns(l) /\ slots' = [slots EXCEPT ![loops[l].role] = refused])
  BY <1>3
<1>6. x \in LoopOf /\ x # Over /\ x.role = loops[l].role /\ x.pc \in {"drain", "retry"}
  BY <1>4, OverIsOver
<1>7. LoopFits(l, x, SlotOf(l)) /\ LoopFits(l, x, refused)
  BY <1>2, <1>4 DEF LoopFits
<1>8. Owns(l) => SlotFits(SlotOf(l), x, loops[l].role) /\ SlotFits(refused, x, loops[l].role)
  BY <1>2, <1>4, <1>6 DEF SlotFits
<1>9. CASE slots' = slots
  BY <1>1, <1>5, <1>6, <1>7, <1>8, <1>9, OneLoopAlone
<1>10. CASE Owns(l) /\ slots' = [slots EXCEPT ![loops[l].role] = refused]
  BY <1>1, <1>4, <1>5, <1>6, <1>7, <1>8, <1>10, OneLoop
<1>11. QED BY <1>5, <1>9, <1>10

\* After an exit the slot is another's, the role is given up, or it starts again in a while.
LEMMA RetryKeeps == ASSUME ClientIInv, NEW l \in Loops, NEW stable_ \in BOOLEAN, Retry(l, stable_)
                    PROVE  ClientIInv'
<1>1. /\ loops[l] # Over /\ At(l, "retry") /\ serving' = serving
  BY DEF Retry, At, Over, LoopOnly
<1>2. CASE ~Owns(l)
  BY <1>1, <1>2, EndKeeps DEF Retry
<1>3. CASE Owns(l)
  <2>1. /\ loops[l] \in LoopOf /\ loops[l].pc = "retry" /\ SlotOf(l) \in Slot
        /\ SlotOf(l).owner = l /\ loops[l].role \in Roles /\ loops[l].proc = "none"
    BY <1>1, <1>3, OfLoop DEF At, LoopFits
  <2> DEFINE slot == SlotOf(l)
             after == IF stable_ THEN 0 ELSE slot.restarts
             given == [slot EXCEPT !.child = None, !.state = "crashed",
                                   !.restarts = IF slot.refused # "no" THEN slot.restarts ELSE after]
             again == [slot EXCEPT !.child = None, !.state = "restarting", !.restarts = after + 1]
             x == [loops[l] EXCEPT !.pc = "sleep"]
  <2>2. \/ /\ loops' = [loops EXCEPT ![l] = Over]
           /\ slots' = [slots EXCEPT ![loops[l].role] = given]
        \/ /\ loops' = [loops EXCEPT ![l] = x] /\ slot.refused = "no"
           /\ slots' = [slots EXCEPT ![loops[l].role] = again]
    BY <1>3, <2>1 DEF Retry, End, SetSlot, Goto, Slot
  <2>3. after \in Nat
    BY <2>1 DEF Slot
  <2> HIDE DEF after
  <2>4. /\ given \in Slot /\ given.owner = l /\ given.child = None /\ given.state = "crashed"
        /\ again \in Slot /\ again.owner = l /\ again.child = None /\ again.state = "restarting"
        /\ again.refused = slot.refused
    <3>1. slot \in Slot /\ slot.owner = l /\ slot.restarts \in Nat /\ after + 1 \in Nat
      BY <2>1, <2>3 DEF Slot
    <3>2. (IF slot.refused # "no" THEN slot.restarts ELSE after) \in Nat
      BY <2>3, <3>1
    <3> HIDE DEF slot
    <3>3. given \in Slot /\ given.owner = l /\ given.child = None /\ given.state = "crashed"
      BY <3>1, <3>2 DEF Slot, Busy
    <3>4. /\ again \in Slot /\ again.owner = l /\ again.child = None /\ again.state = "restarting"
          /\ again.refused = slot.refused
      BY <3>1 DEF Slot, Busy
    <3>5. QED BY <3>3, <3>4
  <2>5. x \in LoopOf /\ x # Over /\ x.role = loops[l].role /\ x.pc = "sleep" /\ x.proc = "none"
    BY <2>1, OverIsOver DEF LoopOf
  <2> HIDE DEF given, again, x
  <2>6. SlotFits(given, Over, loops[l].role)
    BY <2>4 DEF SlotFits, Busy
  <2>7. SlotFits(again, x, loops[l].role)
    BY <2>4, <2>5, ClientEngineAssumption DEF SlotFits, Busy, None
  <2>8. slot.refused = "no" => LoopFits(l, x, again)
    BY <2>4, <2>5 DEF LoopFits, Busy
  <2>9. QED BY <1>1, <1>3, <2>1, <2>2, <2>4, <2>5, <2>6, <2>7, <2>8, OneLoop
<1>4. QED BY <1>2, <1>3

\* The rest: a loop wakes, its process speaks or ends.
LEMMA RestKeeps ==
    ASSUME ClientIInv, NEW l \in Loops,
           Wake(l) \/ Refuses(l) \/ \E code \in {"any", "refused"} : Exits(l, code)
    PROVE  ClientIInv'
<1>1. loops[l] # Over /\ slots' = slots /\ serving' = serving
  BY DEF Wake, Refuses, Exits, At, Over, LoopOnly
<1>2. /\ loops[l] \in LoopOf /\ loops[l].role \in Roles
      /\ LoopFits(l, loops[l], SlotOf(l))
      /\ SlotFits(SlotOf(l), loops[SlotOf(l).owner], loops[l].role)
      /\ Owns(l) <=> SlotOf(l).owner = l
  BY <1>1, OfLoop
<1>3. ASSUME NEW x \in LoopOf, loops' = [loops EXCEPT ![l] = x], x.role = loops[l].role,
             \/ x.pc = loops[l].pc /\ x.proc = loops[l].proc
             \/ x.pc = loops[l].pc /\ x.proc = "gone" /\ loops[l].proc \in {"up", "told"}
             \/ loops[l].pc = "sleep" /\ x.pc = "spawn" /\ x.proc = loops[l].proc
      PROVE  ClientIInv'
  <2>1. LoopFits(l, x, SlotOf(l))
    BY <1>2, <1>3 DEF LoopFits
  <2>2. SlotOf(l).owner = l => SlotFits(SlotOf(l), x, loops[l].role)
    BY <1>2, <1>3, OverIsOver DEF SlotFits
  <2>3. QED BY <1>1, <1>2, <1>3, <2>1, <2>2, OneLoopAlone, OverIsOver
<1>4. CASE Wake(l)
  <2>1. CASE ~Owns(l)
    BY <1>1, <1>4, <2>1, EndKeeps DEF Wake
  <2>2. CASE Owns(l)
    <3> DEFINE x == [loops[l] EXCEPT !.pc = "spawn"]
    <3>1. loops' = [loops EXCEPT ![l] = x] /\ loops[l].pc = "sleep"
      BY <1>4, <2>2 DEF Wake, Goto, At
    <3>2. x \in LoopOf /\ x.role = loops[l].role /\ x.pc = "spawn" /\ x.proc = loops[l].proc
      BY <1>2 DEF LoopOf
    <3> HIDE DEF x
    <3>3. QED BY <1>3, <3>1, <3>2
  <2>3. QED BY <2>1, <2>2
<1>5. CASE Refuses(l)
  <2> DEFINE x == [loops[l] EXCEPT !.says = TRUE]
  <2>1. loops' = [loops EXCEPT ![l] = x]
    BY <1>5 DEF Refuses
  <2>2. x \in LoopOf /\ x.role = loops[l].role /\ x.pc = loops[l].pc /\ x.proc = loops[l].proc
    BY <1>2 DEF LoopOf
  <2> HIDE DEF x
  <2>3. QED BY <1>3, <2>1, <2>2
<1>6. ASSUME NEW code \in {"any", "refused"}, Exits(l, code) PROVE ClientIInv'
  <2> DEFINE x == [loops[l] EXCEPT !.proc = "gone", !.code = code]
  <2>1. loops' = [loops EXCEPT ![l] = x] /\ loops[l].proc \in {"up", "told"}
    BY <1>6 DEF Exits
  <2>2. x \in LoopOf /\ x.role = loops[l].role /\ x.pc = loops[l].pc /\ x.proc = "gone"
    BY <1>2 DEF LoopOf
  <2> HIDE DEF x
  <2>3. QED BY <1>3, <2>1, <2>2
<1>7. QED BY <1>4, <1>5, <1>6

\* Every step of the client's supervisor.
LEMMA ClientNextKeeps == ClientIInv /\ [EngineNext]_engineVars => ClientIInv'
<1> SUFFICES ASSUME ClientIInv, [EngineNext]_engineVars PROVE ClientIInv'
  OBVIOUS
<1>1. CASE \E l \in Loops : Book(l) \/ HearRefusal(l) \/ HearExit(l) \/ Wake(l) \/ Refuses(l)
  BY <1>1, BookKeeps, HearKeeps, RestKeeps
<1>2. CASE \E l \in Loops, b \in BOOLEAN : Spawn(l, b) \/ Retry(l, b)
  BY <1>2, SpawnKeeps, RetryKeeps
<1>3. CASE \E l \in Loops : \E code \in {"any", "refused"} : Exits(l, code)
  BY <1>3, RestKeeps
<1>4. CASE UNCHANGED engineVars
  BY <1>4 DEF engineVars, ClientIInv, ClientTyped
<1>5. QED BY <1>1, <1>2, <1>3, <1>4, CommandKeeps DEF EngineNext

\* The inductive invariant of the client's supervisor: which loop owns which slot, and whose child
\* a process is (engine.rs's slots, generations and loops).
THEOREM ClientCorrect == EngineSpec => []ClientIInv
<1>1. EngineInit => ClientIInv
  <2> SUFFICES ASSUME EngineInit PROVE ClientIInv
    OBVIOUS
  <2>1. /\ slots = [r \in Roles |-> Vacant] /\ loops = [l \in Loops |-> Over]
        /\ serving.pc = "idle"
    BY DEF EngineInit
  <2>2. /\ Vacant \in Slot /\ Vacant.child = None /\ Vacant.state = "stopped"
    BY DEF Vacant, Slot, Busy
  <2>3. ClientTyped
    BY <2>1, <2>2 DEF ClientTyped
  <2>4. \A r \in Roles : SlotFits(slots[r], loops[slots[r].owner], r)
    BY <2>1, <2>2 DEF SlotFits, Busy
  <2>5. QED BY <2>1, <2>3, <2>4 DEF ClientIInv
<1>2. QED BY <1>1, ClientNextKeeps, PTL DEF EngineSpec

\* However stops, starts and spawns fall, no sidecar runs on its own, for any roles, any requests
\* and any number of loops alive at once (engine.rs's spawn, book and stop).
THEOREM NoChildIsLost == EngineSpec => []ChildrenAreKnown
<1>1. ClientIInv => ChildrenAreKnown
  <2> SUFFICES ASSUME ClientIInv PROVE ChildrenAreKnown
    OBVIOUS
  <2>1. ASSUME NEW l \in Loops, loops[l].proc = "up"
        PROVE  At(l, "book") \/ (Owns(l) /\ SlotOf(l).child = l)
    <3>1. loops[l] # Over
      BY <2>1 DEF Over
    <3>2. QED BY <2>1, <3>1, OfLoop DEF LoopFits, At
  <2>2. ASSUME NEW r \in Roles, slots[r].state = "running"
        PROVE  /\ slots[r].owner # None /\ slots[r].child = slots[r].owner
               /\ loops[slots[r].owner].pc \in {"drain", "retry"}
    BY <2>2 DEF ClientIInv, SlotFits, Busy
  <2>3. QED BY <2>1, <2>2 DEF ChildrenAreKnown
<1>2. QED BY <1>1, ClientCorrect, PTL

\* A refusal is final: no restart repeats it before somebody starts the role, for any number of
\* restarts (engine.rs's should_retry_after_exit()).
THEOREM RefusalsAreFinal == EngineSpec => RefusalIsFinal
<1> DEFINE Final == \A l \in Loops :
                       At(l, "spawn") /\ loops'[l].proc = "up" => SlotOf(l).refused # "said"
<1>1. ClientIInv /\ [EngineNext]_engineVars => [Final]_engineVars
  <2> SUFFICES ASSUME ClientIInv, EngineNext, NEW l \in Loops, At(l, "spawn"), loops'[l].proc = "up"
               PROVE  SlotOf(l).refused # "said"
    OBVIOUS
  <2>1. /\ loops[l] # Over /\ loops[l].proc = "none" /\ loops[l] \in LoopOf
        /\ LoopFits(l, loops[l], SlotOf(l)) /\ (Owns(l) <=> SlotOf(l).owner = l)
        /\ loops \in [Loops -> LoopOf \cup {Over}]
    <3>1. loops[l] # Over /\ loops[l].pc = "spawn"
      BY DEF At, Over
    <3>2. QED BY <3>1, OfLoop DEF LoopFits, ClientIInv, ClientTyped
  <2>2. Owns(l)
    <3>1. ASSUME NEW rs, StopRoles(rs) PROVE FALSE
      BY <2>1, <3>1 DEF StopRoles
    <3>2. ASSUME NEW r, NEW q, StartRole(r, q) PROVE FALSE
      BY <2>1, <3>2 DEF StartRole
    <3>3. ASSUME loops' = loops PROVE FALSE
      BY <2>1, <3>3
    <3>4. ASSUME NEW k \in Loops, NEW x, loops' = [loops EXCEPT ![k] = x], k # l PROVE FALSE
      BY <2>1, <3>4
    <3>5. ASSUME NEW k \in Loops,
                 \/ Book(k) \/ HearRefusal(k) \/ HearExit(k) \/ Wake(k) \/ Refuses(k)
                 \/ \E b \in BOOLEAN : Retry(k, b)
                 \/ \E code \in {"any", "refused"} : Exits(k, code)
          PROVE  FALSE
      <4>1. \E x : loops' = [loops EXCEPT ![k] = x]
        BY <3>5 DEF Book, HearRefusal, HearExit, Wake, Refuses, Retry, Exits, Goto, End
      <4>2. CASE k # l
        BY <3>4, <4>1, <4>2
      <4>3. CASE k = l
        BY <2>1, <3>5, <4>3 DEF Book, HearRefusal, HearExit, Wake, Refuses, Retry, Exits, Goto, End,
                                At, Over, LoopOf
      <4>4. QED BY <4>2, <4>3
    <3>6. ASSUME NEW k \in Loops, NEW b \in BOOLEAN, Spawn(k, b) PROVE Owns(l)
      <4>1. CASE k = l
        BY <2>1, <3>6, <4>1 DEF Spawn, End, Over
      <4>2. CASE k # l
        <5>1. \E x : loops' = [loops EXCEPT ![k] = x]
          BY <3>6 DEF Spawn, End
        <5>2. QED BY <3>4, <4>2, <5>1
      <4>3. QED BY <4>1, <4>2
    <3>7. QED BY <3>1, <3>2, <3>3, <3>5, <3>6
              DEF EngineNext, StartEngine, StopEngine, StopAgent, StopAll, Serve, ServeStops,
                  ServeStarts, NoteFailure, StopFailed
  <2>3. QED BY <2>1, <2>2 DEF LoopFits, At
<1>2. QED BY <1>1, ClientCorrect, PTL DEF EngineSpec, RefusalIsFinal
=============================================================================
