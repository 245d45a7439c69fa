-------------------------- MODULE AdmissionProofs --------------------------
(***************************************************************************)
(* Who is let into a coordinator, and what is served: proofs about         *)
(* Admission, for every pool size, table size, time-to-live, clock bound   *)
(* and number of restarts, about AdmissionChannel, for any set of          *)
(* coordinator processes and any number of starts, and about Routes and    *)
(* the route of a chat, ChatRoute.                                         *)
(*                                                                         *)
(* For any number of threads and any requests, the engine works for the    *)
(* entitled only, an admission mark is given back once, and the right side *)
(* is blamed.  For any number of chats, slots and workers, any cap and any *)
(* bill, the gate's counters are exactly the requests they stand for, the  *)
(* ledger is exactly what the day was billed, and the cap is overshot by   *)
(* no more than the workers that the slots leave over.                     *)
(***************************************************************************)
EXTENDS Admission, AdmissionChannel, ChatRoute, Routes, FiniteSetTheorems, TLAPS

-----------------------------------------------------------------------------
(* The ticket check (Admission) and the key (AdmissionChannel). *)

(* Counting one more keeps a table of counters a table of counters.         *)
LEMMA CountOneMore ==
    ASSUME NEW S, NEW f \in [S -> Nat], NEW x \in S
    PROVE  [f EXCEPT ![x] = @ + 1] \in [S -> Nat]
OBVIOUS

(* Every variable keeps its type.                                           *)
THEOREM TypeCorrect == Spec => []TypeOK
<1> USE AdmissionAssumption
<1>1. Init => TypeOK
  <2> SUFFICES ASSUME Init PROVE TypeOK
    OBVIOUS
  <2>1. minted \in [Nonces -> Ticket]
    BY DEF Init, Ticket
  <2>2. spent \in [SlotsOf(SpentSlots) -> SpentEntry]
    BY DEF Init, SpentEntry
  <2>3. th \in [Threads -> BusyThread \cup {IdleThread}]
    BY DEF Init
  <2>4. inflight \in [SlotsOf(InflightSlots) -> Nat] /\ overran \in BOOLEAN
    BY DEF Init
  <2>5. admits \in [Nonces -> Nat] /\ early \in [Nonces -> Nat]
    BY DEF Init
  <2>6. now \in Nat \ {0} /\ key \in Nat \ {0}
    BY DEF Init
  <2>7. QED BY <2>1, <2>2, <2>3, <2>4, <2>5, <2>6 DEF TypeOK
<1>2. TypeOK /\ [Next]_vars => TypeOK'
  <2> SUFFICES ASSUME TypeOK, [Next]_vars
               PROVE  TypeOK'
    OBVIOUS
  <2> USE DEF TypeOK
  <2>1. ASSUME NEW n \in Nonces, NEW k \in 1..key, NEW b \in Bodies, Mint(n, k, b)
        PROVE  TypeOK'
    BY <2>1 DEF Mint, Ticket
  <2>2. ASSUME NEW t \in Threads, NEW n \in Nonces, NEW b \in Bodies, Present(t, n, b)
        PROVE  TypeOK'
    BY <2>2 DEF Present, BusyThread
  <2>3. ASSUME NEW t \in Threads, Check(t)
        PROVE  TypeOK'
    <3>1. th[t].pc # "idle" => [th[t] EXCEPT !.pc = "checked"] \in BusyThread
      BY DEF BusyThread, IdleThread
    <3>2. QED BY <2>3, <3>1 DEF Check
  <2>4. ASSUME NEW t \in Threads, RefuseReplayed(t)
        PROVE  TypeOK'
    BY <2>4 DEF RefuseReplayed, AgedOut, SpentEntry
  <2>5. ASSUME NEW t \in Threads, RefuseNoRoom(t)
        PROVE  TypeOK'
    BY <2>5 DEF RefuseNoRoom
  <2>6. ASSUME NEW t \in Threads, Admit(t)
        PROVE  TypeOK'
    <3> DEFINE at == th[t].asked
               Running(slot) == [th[t] EXCEPT !.pc = "running", !.slot = slot, !.since = at]
    <3>1. th[t] \in BusyThread
      BY <2>6 DEF Admit, IdleThread
    <3>2. /\ at \in Nat \ {0}
          /\ th[t].nonce \in Nonces
          /\ \A slot \in 0..InflightSlots : Running(slot) \in BusyThread
      BY <3>1 DEF BusyThread
    <3>3. /\ th' \in [Threads -> BusyThread \cup {IdleThread}]
          /\ inflight' \in [SlotsOf(InflightSlots) -> Nat]
      <4>1. TakeMark(t)
        BY <2>6 DEF Admit
      <4>2. CASE inflight' = inflight /\ th' = [th EXCEPT ![t] = Running(0)]
        <5> HIDE DEF Running
        <5>1. Running(0) \in BusyThread
          BY <3>2
        <5>2. QED BY <4>2, <5>1
      <4>3. CASE \E i \in SlotsOf(InflightSlots) :
                    /\ inflight' = [inflight EXCEPT ![i] = at]
                    /\ th' = [th EXCEPT ![t] = Running(i)]
        <5>1. PICK i \in SlotsOf(InflightSlots) :
                      /\ inflight' = [inflight EXCEPT ![i] = at]
                      /\ th' = [th EXCEPT ![t] = Running(i)]
          BY <4>3
        <5> HIDE DEF Running, at
        <5>2. Running(i) \in BusyThread
          BY <3>2 DEF SlotsOf
        <5>3. at \in Nat
          BY <3>2
        <5>4. QED BY <5>1, <5>2, <5>3
      <4>4. QED BY <4>1, <4>2, <4>3 DEF TakeMark
    <3>4. spent' \in [SlotsOf(SpentSlots) -> SpentEntry]
      <4>1. minted[th[t].nonce].exp \in Nat
        BY <3>2 DEF Ticket
      <4>2. [nonce |-> th[t].nonce, exp |-> minted[th[t].nonce].exp] \in SpentEntry
        BY <3>2, <4>1 DEF SpentEntry
      <4>3. AgedOut(SpentSlots, at) \in [SlotsOf(SpentSlots) -> SpentEntry]
        BY DEF AgedOut, SpentEntry
      <4>4. QED BY <2>6, <4>2, <4>3 DEF Admit
    <3>5. admits' \in [Nonces -> Nat] /\ early' \in [Nonces -> Nat]
      <4>1. admits' = [admits EXCEPT ![th[t].nonce] = @ + 1]
        BY <2>6 DEF Admit
      <4>2. early' = [early EXCEPT ![th[t].nonce] = @ + 1] \/ early' = early
        <5>1. early' = [early EXCEPT ![th[t].nonce] = IF now < minted[th[t].nonce].exp
                                                      THEN @ + 1 ELSE @]
          BY <2>6 DEF Admit
        <5>2. QED BY <5>1, <3>2
      <4>3. th[t].nonce \in Nonces
        BY <3>2
      <4>4. admits' \in [Nonces -> Nat]
        BY <4>1, <4>3, CountOneMore
      <4>5. early' \in [Nonces -> Nat]
        BY <4>2, <4>3, CountOneMore
      <4>6. QED BY <4>4, <4>5
    <3>6. UNCHANGED <<now, key, minted>> /\ overran' \in BOOLEAN
      BY <2>6 DEF Admit
    <3>7. QED BY <3>3, <3>4, <3>5, <3>6
  <2>7. ASSUME NEW t \in Threads, RequestEnd(t)
        PROVE  TypeOK'
    BY <2>7 DEF RequestEnd
  <2>8. CASE PlatformBusy
    BY <2>8 DEF PlatformBusy
  <2>9. CASE Restart
    BY <2>9 DEF Restart, SpentEntry
  <2>10. CASE Tick
    BY <2>10 DEF Tick
  <2>11. CASE UNCHANGED vars
    BY <2>11 DEF vars
  <2>12. QED
    BY <2>1, <2>2, <2>3, <2>4, <2>5, <2>6, <2>7, <2>8, <2>9, <2>10, <2>11 DEF Next
<1>3. QED BY <1>1, <1>2, PTL DEF Spec

-----------------------------------------------------------------------------
(* The step that admits, seen from the thread and from the clock.           *)
LEMMA TakeMarkThread ==
    ASSUME TypeOK, NEW t \in Threads, th[t] \in BusyThread, TakeMark(t)
    PROVE  \E slot \in 0..InflightSlots :
              th' = [th EXCEPT ![t] = [th[t] EXCEPT !.pc = "running", !.slot = slot,
                                                    !.since = th[t].asked]]
<1> DEFINE Running(slot) == [th[t] EXCEPT !.pc = "running", !.slot = slot,
                                          !.since = th[t].asked]
<1>1. CASE th' = [th EXCEPT ![t] = Running(0)]
  <2>1. 0 \in 0..InflightSlots
    BY AdmissionAssumption
  <2>2. QED BY <1>1, <2>1
<1>2. CASE \E i \in SlotsOf(InflightSlots) : th' = [th EXCEPT ![t] = Running(i)]
  <2>1. \A i \in SlotsOf(InflightSlots) : i \in 0..InflightSlots
    BY AdmissionAssumption DEF SlotsOf
  <2>2. QED BY <1>2, <2>1
<1>3. QED BY <1>1, <1>2 DEF TakeMark

(* ClockInv is inductive.                                                   *)
LEMMA ClockStep ==
    ASSUME TypeOK, ClockInv, [Next]_vars
    PROVE  ClockInv'
<1> USE DEF ClockInv
<1>1. ASSUME NEW n \in Nonces, NEW k \in 1..key, NEW b \in Bodies, Mint(n, k, b)
      PROVE  ClockInv'
  <2>1. ASSUME NEW t \in Threads, th[t].pc # "idle"
        PROVE  th[t].nonce \in Nonces /\ minted'[th[t].nonce] = minted[th[t].nonce]
    <3>1. th[t] \in BusyThread
      BY <2>1 DEF TypeOK, IdleThread
    <3>2. th[t].nonce # n
      BY <1>1, <2>1 DEF Mint
    <3>3. QED BY <1>1, <3>1, <3>2 DEF Mint, TypeOK, BusyThread
  <2>2. QED BY <1>1, <2>1 DEF Mint, Authentic
<1>2. ASSUME NEW t \in Threads, NEW n \in Nonces, NEW b \in Bodies, Present(t, n, b)
      PROVE  ClockInv'
  BY <1>2 DEF Present, Authentic, TypeOK
<1>3. ASSUME NEW t \in Threads, Check(t)
      PROVE  ClockInv'
  <2>1. th[t] \in BusyThread
    BY <1>3 DEF Check, TypeOK, IdleThread
  <2>2. CASE Authentic(t)
    <3>1. th' = [th EXCEPT ![t] = [th[t] EXCEPT !.pc = "checked"]]
      BY <1>3, <2>2 DEF Check
    <3>2. QED BY <1>3, <2>1, <2>2, <3>1 DEF Check, Authentic, TypeOK, BusyThread
  <2>3. CASE ~Authentic(t)
    BY <1>3, <2>3 DEF Check, Authentic, TypeOK, IdleThread
  <2>4. QED BY <2>2, <2>3
<1>4. ASSUME NEW t \in Threads, RefuseReplayed(t) \/ RefuseNoRoom(t) \/ RequestEnd(t)
      PROVE  ClockInv'
  BY <1>4 DEF RefuseReplayed, RefuseNoRoom, RequestEnd, Authentic, TypeOK, IdleThread
<1>5. ASSUME NEW t \in Threads, Admit(t)
      PROVE  ClockInv'
  <2>1. th[t] \in BusyThread
    BY <1>5 DEF Admit, TypeOK, IdleThread
  <2>2. PICK slot \in 0..InflightSlots :
            th' = [th EXCEPT ![t] = [th[t] EXCEPT !.pc = "running", !.slot = slot,
                                                  !.since = th[t].asked]]
    BY <1>5, <2>1, TakeMarkThread DEF Admit
  <2>3. QED BY <1>5, <2>1, <2>2 DEF Admit, Authentic, TypeOK, BusyThread
<1>6. CASE PlatformBusy
  BY <1>6 DEF PlatformBusy, Authentic
<1>7. CASE Restart
  BY <1>7 DEF Restart, Authentic, IdleThread
<1>8. CASE Tick
  <2>1. ASSUME NEW t \in Threads, th[t].pc # "idle"
        PROVE  th[t].asked \in Nat
    BY <2>1 DEF TypeOK, IdleThread, BusyThread
  <2>2. QED BY <1>8, <2>1 DEF Tick, Authentic, TypeOK
<1>9. CASE UNCHANGED vars
  BY <1>9 DEF vars, Authentic
<1>10. QED
  BY <1>1, <1>2, <1>3, <1>4, <1>5, <1>6, <1>7, <1>8, <1>9 DEF Next

(* TableInv is inductive: no thread ages out the entry of a ticket that is  *)
(* still live, because no thread reads the clock in the future.             *)
LEMMA TableStep ==
    ASSUME TypeOK, ClockInv, TableInv, [Next]_vars
    PROVE  TableInv'
<1>1. ASSUME NEW n \in Nonces, NEW k \in 1..key, NEW b \in Bodies, Mint(n, k, b)
      PROVE  TableInv'
  <2>1. k \in Nat \ {0} /\ k <= key
    BY DEF TypeOK
  <2>2. early[n] = 0
    <3>1. early[n] \in Nat
      BY DEF TypeOK
    <3>2. minted[n].key = 0
      BY <1>1 DEF Mint
    <3>3. ~(early[n] > 0)
      BY <3>2 DEF TableInv
    <3>4. QED BY <3>1, <3>3
  <2>3. minted' = [minted EXCEPT ![n] = [key |-> k, exp |-> now + TTL, body |-> b]]
    BY <1>1 DEF Mint
  <2>4. QED BY <1>1, <2>1, <2>2, <2>3 DEF Mint, TableInv, TypeOK
<1>2. ASSUME NEW t \in Threads, RefuseReplayed(t)
      PROVE  TableInv'
  <2>1. th[t].asked <= now /\ th[t].asked \in Nat
    BY <1>2 DEF RefuseReplayed, ClockInv, TypeOK, BusyThread, IdleThread
  <2>2. \A j \in SlotsOf(SpentSlots) : spent[j].exp \in Nat /\ spent[j].exp > now
                                          => spent'[j] = spent[j]
    BY <1>2, <2>1 DEF RefuseReplayed, AgedOut, Aged, TypeOK
  <2>3. \A n \in Nonces : minted[n].exp \in Nat
    BY DEF TypeOK, Ticket
  <2>4. UNCHANGED <<now, key, minted, early>>
    BY <1>2 DEF RefuseReplayed
  <2>5. QED BY <2>2, <2>3, <2>4 DEF TableInv, TypeOK
<1>3. ASSUME NEW t \in Threads, RefuseNoRoom(t) \/ Check(t) \/ RequestEnd(t)
      PROVE  TableInv'
  BY <1>3 DEF RefuseNoRoom, Check, RequestEnd, TableInv
<1>4. ASSUME NEW t \in Threads, Admit(t)
      PROVE  TableInv'
  <2> DEFINE n == th[t].nonce
             at == th[t].asked
  <2>1. th[t] \in BusyThread /\ n \in Nonces /\ at \in Nat /\ at <= now
    BY <1>4 DEF Admit, TypeOK, IdleThread, BusyThread, ClockInv
  <2>2. Authentic(t)
    BY <1>4 DEF Admit, ClockInv
  <2>3. minted[n].key = key /\ key # 0 /\ minted[n].exp \in Nat /\ at < minted[n].exp
    BY <2>1, <2>2 DEF Authentic, TypeOK, Ticket
  <2>4. Hits(n, at) = {}
    BY <1>4 DEF Admit
  <2>5. ~(early[n] > 0 /\ now < minted[n].exp)
    <3> SUFFICES ASSUME early[n] > 0, now < minted[n].exp PROVE FALSE
      OBVIOUS
    <3>1. PICK i \in SlotsOf(SpentSlots) : spent[i] = [nonce |-> n, exp |-> minted[n].exp]
      BY <2>1, <2>3 DEF TableInv
    <3>2. i \in Hits(n, at)
      BY <3>1, <2>1, <2>3 DEF Hits, Aged, TypeOK
    <3>3. QED BY <3>2, <2>4
  <2>6. PICK i \in SlotsOf(SpentSlots) :
            /\ i \in Room(at)
            /\ spent' = [AgedOut(SpentSlots, at) EXCEPT
                            ![i] = [nonce |-> n, exp |-> minted[n].exp]]
    BY <1>4 DEF Admit, IsFirst
  <2>7. spent'[i] = [nonce |-> n, exp |-> minted[n].exp]
    BY <2>6 DEF AgedOut
  <2>8. \A j \in SlotsOf(SpentSlots) : spent[j].exp \in Nat /\ spent[j].exp > now
                                          => spent'[j] = spent[j]
    BY <2>1, <2>6 DEF AgedOut, Aged, Room, TypeOK
  <2>9. UNCHANGED <<now, key, minted>>
    BY <1>4 DEF Admit
  <2>10. early' = [early EXCEPT ![n] = IF now < minted[n].exp THEN @ + 1 ELSE @]
    BY <1>4 DEF Admit
  <2> HIDE DEF n, at
  <2>11. ASSUME NEW m \in Nonces, m # n
         PROVE  /\ early'[m] <= 1
                /\ minted'[m].key <= key'
                /\ early'[m] > 0 => minted'[m].key # 0
                /\ early'[m] > 0 /\ minted'[m].key = key' /\ now' < minted'[m].exp =>
                      \E j \in SlotsOf(SpentSlots) :
                          spent'[j] = [nonce |-> m, exp |-> minted'[m].exp]
    <3>1. early'[m] = early[m] /\ minted[m].exp \in Nat
      BY <2>1, <2>10, <2>11 DEF TypeOK, Ticket
    <3>2. QED BY <3>1, <2>8, <2>9 DEF TableInv, TypeOK
  <2>12. early'[n] <= 1
    <3>1. early[n] \in Nat /\ early[n] <= 1
      BY <2>1 DEF TableInv, TypeOK
    <3>2. early'[n] = IF now < minted[n].exp THEN early[n] + 1 ELSE early[n]
      BY <2>1, <2>10 DEF TypeOK
    <3>3. QED BY <2>5, <3>1, <3>2
  <2>13. /\ minted'[n].key <= key' /\ minted'[n].key # 0
         /\ \E j \in SlotsOf(SpentSlots) : spent'[j] = [nonce |-> n, exp |-> minted'[n].exp]
    BY <2>3, <2>7, <2>9 DEF TypeOK
  <2>14. ASSUME NEW m \in Nonces
         PROVE  /\ early'[m] <= 1
                /\ minted'[m].key <= key'
                /\ early'[m] > 0 => minted'[m].key # 0
                /\ early'[m] > 0 /\ minted'[m].key = key' /\ now' < minted'[m].exp =>
                      \E j \in SlotsOf(SpentSlots) :
                          spent'[j] = [nonce |-> m, exp |-> minted'[m].exp]
    <3>1. CASE m = n
      BY <3>1, <2>12, <2>13
    <3>2. CASE m # n
      BY <3>2, <2>11
    <3>3. QED BY <3>1, <3>2
  <2>15. QED BY <2>14 DEF TableInv, SlotsOf
<1>5. CASE Restart
  <2>1. \A n \in Nonces : minted[n].key \in Nat /\ minted[n].key <= key
    BY DEF TypeOK, Ticket, TableInv
  <2>2. \A n \in Nonces : /\ minted'[n].key = minted[n].key
                           /\ minted'[n].key # key' /\ minted'[n].key <= key'
                           /\ early'[n] = early[n]
    BY <1>5, <2>1 DEF Restart, TypeOK
  <2>3. QED BY <2>2 DEF TableInv
<1>6. CASE Tick
  <2>1. \A n \in Nonces : minted[n].exp \in Nat
    BY DEF TypeOK, Ticket
  <2>2. QED BY <1>6, <2>1 DEF Tick, TableInv, TypeOK
<1>7. ASSUME NEW t \in Threads, NEW n \in Nonces, NEW b \in Bodies, Present(t, n, b)
      PROVE  TableInv'
  BY <1>7 DEF Present, TableInv
<1>8. CASE PlatformBusy \/ UNCHANGED vars
  BY <1>8 DEF PlatformBusy, vars, TableInv
<1>9. QED
  BY <1>1, <1>2, <1>3, <1>4, <1>5, <1>6, <1>7, <1>8 DEF Next

(* The clock readings and the replay table stay consistent.                 *)
LEMMA TablesCorrect == Spec => [](ClockInv /\ TableInv)
<1>1. Init => ClockInv /\ TableInv
  <2> SUFFICES ASSUME Init PROVE ClockInv /\ TableInv
    OBVIOUS
  <2>1. ClockInv
    BY DEF Init, ClockInv, IdleThread
  <2>2. TableInv
    BY DEF Init, TableInv
  <2>3. QED BY <2>1, <2>2
<1>2. TypeOK /\ (ClockInv /\ TableInv) /\ [Next]_vars => (ClockInv /\ TableInv)'
  BY ClockStep, TableStep
<1>3. QED BY <1>1, <1>2, TypeCorrect, PTL DEF Spec

(* However the threads of the pool interleave, a ticket is admitted at most *)
(* once before it expires (idletoken_admission_consume).                    *)
THEOREM TicketSpentOnce == Spec => []SpentOnceWhileLive
<1>1. TableInv => SpentOnceWhileLive
  BY DEF TableInv, SpentOnceWhileLive
<1>2. QED BY <1>1, TablesCorrect, PTL

-----------------------------------------------------------------------------
(* MarkInv is inductive: while no job is overdue, a mark is taken only from *)
(* a free slot, so nobody else's request_end() can clear it.                *)
LEMMA MarkStep ==
    ASSUME TypeOK, TypeOK', ClockInv, MarkInv, [Next]_vars
    PROVE  MarkInv'
<1> SUFFICES ASSUME ~overran' PROVE MarkInv'
  BY DEF MarkInv
<1>1. ASSUME NEW n \in Nonces, NEW k \in 1..key, NEW b \in Bodies, Mint(n, k, b)
      PROVE  MarkInv'
  BY <1>1 DEF Mint, MarkInv
<1>2. ASSUME NEW t \in Threads,
             \/ \E n \in Nonces, b \in Bodies : Present(t, n, b)
             \/ Check(t) \/ RefuseReplayed(t) \/ RefuseNoRoom(t)
      PROVE  MarkInv'
  <2>1. UNCHANGED <<now, inflight, overran>> /\ th[t].pc # "running"
    BY <1>2 DEF Present, Check, RefuseReplayed, RefuseNoRoom
  <2>2. th'[t].pc # "running" /\ \A u \in Threads \ {t} : th'[u] = th[u]
    BY <1>2 DEF Present, Check, RefuseReplayed, RefuseNoRoom, IdleThread, TypeOK, BusyThread
  <2>3. QED BY <2>1, <2>2 DEF MarkInv
<1>3. ASSUME NEW t \in Threads, Admit(t)
      PROVE  MarkInv'
  <2> DEFINE at == th[t].asked
             Running(slot) == [th[t] EXCEPT !.pc = "running", !.slot = slot, !.since = at]
  <2>1. th[t] \in BusyThread /\ th[t].pc = "checked"
    BY <1>3 DEF Admit, TypeOK, IdleThread
  <2>2. at \in Nat \ {0} /\ at <= now /\ now \in Nat
    BY <2>1 DEF TypeOK, BusyThread, ClockInv
  <2>3. ~overran /\ now' = now /\ now - at <= InflightMax
    <3>1. now' = now /\ overran' = (overran \/ now - at > InflightMax)
      BY <1>3 DEF Admit
    <3>2. ~overran /\ ~(now - at > InflightMax)
      BY <3>1
    <3>3. QED BY <2>2, <3>1, <3>2, AdmissionAssumption
  <2>4. \A slot : Running(slot).pc = "running" /\ Running(slot).slot = slot
                  /\ Running(slot).since = at
    BY <2>1 DEF BusyThread
  <2>5. ASSUME NEW u \in Threads, th[u].pc = "running"
        PROVE  /\ u # t
               /\ th[u].since \in Nat \ {0} /\ th[u].since <= now
               /\ now - th[u].since <= InflightMax
               /\ th[u].slot \in 0..InflightSlots
               /\ th[u].slot > 0 =>
                     /\ inflight[th[u].slot] = th[u].since
                     /\ \A v \in Threads \ {u} : th[v].pc = "running" => th[v].slot # th[u].slot
    <3>1. th[u] \in BusyThread /\ th[u].since = th[u].asked /\ th[u].asked <= now
      BY <2>5 DEF TypeOK, IdleThread, ClockInv
    <3>2. QED BY <2>1, <2>3, <2>5, <3>1 DEF BusyThread, MarkInv
  <2>6. ASSUME NEW u \in Threads, th[u].pc = "running", th[u].slot > 0
        PROVE  th[u].slot \notin Takeable(at)
    <3>1. /\ inflight[th[u].slot] = th[u].since /\ th[u].since \in Nat \ {0}
          /\ now - th[u].since <= InflightMax
      BY <2>5, <2>6
    <3>2. QED BY <2>2, <3>1, AdmissionAssumption DEF Takeable, Overdue
  <2>7. CASE inflight' = inflight /\ th' = [th EXCEPT ![t] = Running(0)]
    <3> HIDE DEF Running, at
    <3>1. th'[t] = Running(0) /\ \A u \in Threads \ {t} : th'[u] = th[u]
      BY <2>7 DEF TypeOK
    <3>2. QED BY <2>3, <2>4, <2>5, <2>7, <3>1 DEF MarkInv
  <2>8. CASE \E i \in SlotsOf(InflightSlots) :
                /\ IsFirst(i, Takeable(at))
                /\ inflight' = [inflight EXCEPT ![i] = at]
                /\ th' = [th EXCEPT ![t] = Running(i)]
    <3>1. PICK i \in SlotsOf(InflightSlots) :
                /\ i \in Takeable(at)
                /\ inflight' = [inflight EXCEPT ![i] = at]
                /\ th' = [th EXCEPT ![t] = Running(i)]
      BY <2>8 DEF IsFirst
    <3> HIDE DEF Running, at
    <3>2. th'[t] = Running(i) /\ \A u \in Threads \ {t} : th'[u] = th[u]
      BY <3>1 DEF TypeOK
    <3>3. inflight'[i] = at /\ \A j \in SlotsOf(InflightSlots) \ {i} : inflight'[j] =
       inflight[j]
      BY <3>1 DEF TypeOK
    <3>4. ASSUME NEW u \in Threads \ {t}, th'[u].pc = "running"
          PROVE  /\ now - th'[u].since <= InflightMax
                 /\ th'[u].slot > 0 =>
                       /\ inflight'[th'[u].slot] = th'[u].since
                       /\ \A v \in Threads \ {u} : th'[v].pc = "running"
                                                      => th'[v].slot # th'[u].slot
      <4>1. th'[u] = th[u] /\ th[u].pc = "running"
        BY <3>2, <3>4
      <4>2. th[u].slot > 0 => th[u].slot # i /\ th[u].slot \in SlotsOf(InflightSlots)
        BY <4>1, <2>5, <2>6, <3>1, AdmissionAssumption DEF SlotsOf
      <4>3. QED BY <4>1, <4>2, <2>4, <2>5, <3>2, <3>3
    <3>5. \A u \in Threads \ {t} : th'[u].pc = "running" => th'[u].slot # i
      <4>1. ASSUME NEW u \in Threads \ {t}, th'[u].pc = "running", th'[u].slot = i
            PROVE  FALSE
        <5>1. th'[u] = th[u] /\ i > 0
          BY <3>2, <4>1 DEF SlotsOf
        <5>2. QED BY <5>1, <4>1, <2>6, <3>1
      <4>2. QED BY <4>1
    <3>6. QED BY <2>3, <2>4, <3>2, <3>3, <3>4, <3>5 DEF MarkInv
  <2>9. QED BY <1>3, <2>7, <2>8 DEF Admit, TakeMark
<1>4. ASSUME NEW t \in Threads, RequestEnd(t)
      PROVE  MarkInv'
  <2>1. ~overran /\ now' = now
    BY <1>4 DEF RequestEnd
  <2>2. th'[t].pc # "running" /\ \A u \in Threads \ {t} : th'[u] = th[u]
    BY <1>4 DEF RequestEnd, IdleThread, TypeOK
  <2>3. \A j \in SlotsOf(InflightSlots) : j # th[t].slot => inflight'[j] = inflight[j]
    BY <1>4 DEF RequestEnd, TypeOK
  <2>4. ASSUME NEW u \in Threads \ {t}, th[u].pc = "running", th[u].slot > 0
        PROVE  /\ th[u].slot # th[t].slot
               /\ th[u].slot \in SlotsOf(InflightSlots)
    <3>1. th[u] \in BusyThread
      BY <2>4 DEF TypeOK, IdleThread
    <3>2. th[t].slot # th[u].slot
      BY <1>4, <2>1, <2>4 DEF RequestEnd, MarkInv
    <3>3. QED BY <2>4, <3>1, <3>2, AdmissionAssumption DEF BusyThread, SlotsOf
  <2>5. QED BY <2>1, <2>2, <2>3, <2>4 DEF MarkInv
<1>5. CASE PlatformBusy
  <2>1. ~overran /\ UNCHANGED <<now, th>>
    BY <1>5 DEF PlatformBusy
  <2>2. ASSUME NEW u \in Threads, th[u].pc = "running", th[u].slot > 0
        PROVE  inflight'[th[u].slot] = inflight[th[u].slot]
    <3>1. th[u] \in BusyThread
      BY <2>2 DEF TypeOK, IdleThread
    <3>2. th[u].slot \in SlotsOf(InflightSlots)
      BY <2>2, <3>1, AdmissionAssumption DEF BusyThread, SlotsOf
    <3>3. ~Overdue(th[u].slot, now)
      <4>1. inflight[th[u].slot] = th[u].since /\ now - th[u].since <= InflightMax
        BY <2>1, <2>2 DEF MarkInv
      <4>2. th[u].since \in Nat /\ now \in Nat
        BY <3>1 DEF BusyThread, TypeOK
      <4>3. QED BY <4>1, <4>2, AdmissionAssumption DEF Overdue
    <3>4. QED BY <1>5, <3>2, <3>3 DEF PlatformBusy
  <2>3. QED BY <2>1, <2>2 DEF MarkInv
<1>6. CASE Restart
  BY <1>6 DEF Restart, MarkInv, IdleThread
<1>7. CASE Tick
  <2>1. ~overran /\ UNCHANGED <<th, inflight>>
    BY <1>7 DEF Tick
  <2>2. ASSUME NEW u \in Threads, th[u].pc = "running"
        PROVE  now' - th[u].since <= InflightMax
    <3>1. ~(now' - th[u].since > InflightMax)
      BY <1>7, <2>2 DEF Tick
    <3>2. th[u].since \in Nat /\ now' \in Nat
      BY <2>2 DEF TypeOK, IdleThread, BusyThread
    <3>3. QED BY <3>1, <3>2, AdmissionAssumption
  <2>3. QED BY <2>1, <2>2 DEF MarkInv
<1>8. CASE UNCHANGED vars
  BY <1>8 DEF vars, MarkInv
<1>9. QED
  BY <1>1, <1>2, <1>3, <1>4, <1>5, <1>6, <1>7, <1>8 DEF Next

(* As long as no admitted job outlives InflightMax, platform_busy() sees    *)
(* every running job that got a mark, and no two jobs share one.            *)
THEOREM MarkHeld == Spec => []MarkHeldUnlessOverrun
<1>1. Init => MarkInv
  BY DEF Init, MarkInv, IdleThread
<1>2. TypeOK /\ TypeOK' /\ ClockInv /\ MarkInv /\ [Next]_vars => MarkInv'
  BY MarkStep
<1>3. MarkInv => MarkHeldUnlessOverrun
  BY DEF MarkInv, MarkHeldUnlessOverrun
<1>4. QED BY <1>1, <1>2, <1>3, TypeCorrect, TablesCorrect, PTL DEF Spec

(* Whatever is served was admitted under this run's key, for the body that  *)
(* arrived and before the ticket expired.                                   *)
THEOREM OnlyMintedServed == Spec => []ServedAsMinted
<1>1. ClockInv => ServedAsMinted
  BY DEF ClockInv, ServedAsMinted, Authentic
<1>2. QED BY <1>1, TablesCorrect, PTL

(* A mark never outlives the request it stands for: no machine stays "busy  *)
(* with platform work" when no thread is serving any.                       *)
THEOREM MarksAreReal == Spec => []NoPhantomMark
<1>1. Init => NoPhantomMark
  BY DEF Init, NoPhantomMark
<1>2. TypeOK /\ NoPhantomMark /\ [Next]_vars => NoPhantomMark'
  <2> SUFFICES ASSUME TypeOK, NoPhantomMark, [Next]_vars
               PROVE  NoPhantomMark'
    OBVIOUS
  <2>1. CASE UNCHANGED <<th, inflight>>
    BY <2>1 DEF NoPhantomMark
  <2>2. ASSUME NEW t \in Threads,
               \/ \E n \in Nonces, b \in Bodies : Present(t, n, b)
               \/ Check(t) \/ RefuseReplayed(t) \/ RefuseNoRoom(t)
        PROVE  NoPhantomMark'
    <3>1. UNCHANGED inflight /\ th[t].pc # "running"
      BY <2>2 DEF Present, Check, RefuseReplayed, RefuseNoRoom
    <3>2. \A u \in Threads \ {t} : th'[u] = th[u]
      BY <2>2 DEF Present, Check, RefuseReplayed, RefuseNoRoom, TypeOK
    <3>3. QED BY <3>1, <3>2 DEF NoPhantomMark, SlotsOf
  <2>3. ASSUME NEW t \in Threads, Admit(t)
        PROVE  NoPhantomMark'
    <3> DEFINE at == th[t].asked
               Running(slot) == [th[t] EXCEPT !.pc = "running", !.slot = slot, !.since = at]
    <3>1. th[t] \in BusyThread /\ th[t].pc # "running"
      BY <2>3 DEF Admit, TypeOK, IdleThread
    <3>2. \A slot : Running(slot).pc = "running" /\ Running(slot).slot = slot
      BY <3>1 DEF BusyThread
    <3>3. CASE inflight' = inflight /\ th' = [th EXCEPT ![t] = Running(0)]
      BY <3>1, <3>3 DEF NoPhantomMark, TypeOK, SlotsOf
    <3>4. CASE \E i \in SlotsOf(InflightSlots) :
                  /\ inflight' = [inflight EXCEPT ![i] = at]
                  /\ th' = [th EXCEPT ![t] = Running(i)]
      <4>1. PICK i \in SlotsOf(InflightSlots) :
                  /\ inflight' = [inflight EXCEPT ![i] = at]
                  /\ th' = [th EXCEPT ![t] = Running(i)]
        BY <3>4
      <4> HIDE DEF Running, at
      <4>2. th'[t].pc = "running" /\ th'[t].slot = i
        BY <4>1, <3>2 DEF TypeOK
      <4>3. \A u \in Threads \ {t} : th'[u] = th[u]
        BY <4>1 DEF TypeOK
      <4>4. \A j \in SlotsOf(InflightSlots) \ {i} : inflight'[j] = inflight[j]
        BY <4>1 DEF TypeOK
      <4>5. QED BY <4>2, <4>3, <4>4, <3>1 DEF NoPhantomMark, SlotsOf
    <3>5. QED BY <2>3, <3>3, <3>4 DEF Admit, TakeMark
  <2>4. ASSUME NEW t \in Threads, RequestEnd(t)
        PROVE  NoPhantomMark'
    <3>1. \A u \in Threads \ {t} : th'[u] = th[u]
      BY <2>4 DEF RequestEnd, TypeOK
    <3>2. \A j \in SlotsOf(InflightSlots) :
              /\ j # th[t].slot => inflight'[j] = inflight[j]
              /\ j = th[t].slot => inflight'[j] = 0
      BY <2>4 DEF RequestEnd, TypeOK, SlotsOf
    <3>3. QED BY <3>1, <3>2 DEF NoPhantomMark, SlotsOf
  <2>5. CASE PlatformBusy
    <3>1. UNCHANGED th /\ \A j \in SlotsOf(InflightSlots) :
                               inflight'[j] # 0 => inflight'[j] = inflight[j]
      BY <2>5 DEF PlatformBusy
    <3>2. QED BY <3>1 DEF NoPhantomMark, SlotsOf
  <2>6. CASE Restart
    BY <2>6 DEF Restart, NoPhantomMark, SlotsOf
  <2>7. QED
    BY <2>1, <2>2, <2>3, <2>4, <2>5, <2>6 DEF Next, Mint, Tick, vars
<1>3. QED BY <1>1, <1>2, TypeCorrect, PTL DEF Spec

\* The marks and the running jobs correspond: what platform_busy() answers is exact until
\* a job outlives the limit, and never a mark without a job.
THEOREM MarksCorrespond == Spec => []MarksExact
<1>1. MarkHeldUnlessOverrun /\ NoPhantomMark => MarksExact
  BY DEF MarksExact
<1>2. QED BY <1>1, MarkHeld, MarksAreReal, PTL

-----------------------------------------------------------------------------
(* The admission channel: who publishes the key, and how the agent follows it. *)

\* Under a lock that can be opened, whoever publishes or stands behind a publication holds it.
OneWriter ==
    \A c \in Coords :
        /\ co[c].remembers => co[c].pc = "up"
        /\ lockable /\ (co[c].pc \in {"publishing", "writing"} \/ co[c].remembers) => lock = c

\* No two living coordinators share a key, and the key the agent was refused under first is
\* either gone or that of a coordinator that is up.
KeysFresh ==
    /\ \A c \in Coords :
          /\ co[c].key <= coordStarts
          /\ co[c].pc = "down" <=> co[c].key = 0
          /\ ag.first # 0 /\ co[c].key = ag.first => co[c].pc = "up"
          /\ \A d \in Coords : c # d /\ co[c].key = co[d].key => co[c].key = 0
    /\ ag.first <= coordStarts

\* A request that is being refused is in the hands of the coordinator at the port, and its
\* ticket is not of that one's key.
RefusalAddressed ==
    /\ port # NoCoord => co[port].pc = "up"
    /\ ag.pc \in {"refusing", "repairing", "answering"} =>
          /\ port # NoCoord
          /\ ag.ticket # co[port].key
          /\ lockable => ag.pc = "answering"

\* The second attempt carries the key of the coordinator that refused the first, if that one
\* still stands behind its publication; a job under way has no outcome yet.
RetryKnown ==
    /\ ag.pc = "retry" => ag.attempt = 0 /\ ag.first # 0
    /\ ag.attempt = 1 => ag.first # 0
    /\ ag.pc # "idle" => ag.outcome = "none"
    /\ lockable /\ ag.pc \in {"posted", "answering"} /\ ag.attempt = 1 =>
          \A c \in Coords : co[c].remembers /\ co[c].key = ag.first => ag.ticket = co[c].key

ChannelIInv == OneWriter /\ KeysFresh /\ RefusalAddressed /\ RetryKnown

(* No step takes a variable out of its type; the job's attempts are counted to one because a *)
(* job that is about to retry has made none yet (RetryKnown).                                *)
LEMMA ChannelTypeStep ==
    ASSUME ChannelTypeOK, RetryKnown, [ChannelNext]_channelVars
    PROVE  ChannelTypeOK'
<1> USE ChannelAssumption
<1> USE DEF ChannelTypeOK
<1>a. NoJob \in AgentJob /\ Down \in Coordinator
  BY DEF NoJob, Down, Coordinator, CoordStages, AgentJob, JobStages, JobOutcomes
<1>1. ASSUME NEW c \in Coords, Arm(c)
      PROVE  ChannelTypeOK'
  <2>1. coordStarts' \in 0..MaxCoordStarts
    BY <1>1 DEF Arm
  <2>2. [Down EXCEPT !.pc = "armed", !.key = coordStarts'] \in Coordinator
    BY <2>1 DEF Down, Coordinator, CoordStages
  <2>3. QED BY <1>1, <2>1, <2>2 DEF Arm
<1>2. ASSUME NEW c \in Coords, Claim(c)
      PROVE  ChannelTypeOK'
  BY <1>2 DEF Claim, ClaimPublishing, ClaimLost, Coordinator, CoordStages, AgentJob,
     JobStages, JobOutcomes
<1>3. ASSUME NEW c \in Coords, Truncate(c)
      PROVE  ChannelTypeOK'
  BY <1>3 DEF Truncate, Coordinator, CoordStages, AgentJob, JobStages, JobOutcomes
<1>4. ASSUME NEW c \in Coords, PublishKey(c)
      PROVE  ChannelTypeOK'
  <2>1. co[c].key \in 0..MaxCoordStarts
    BY DEF Coordinator
  <2>2. ASSUME NEW b \in BOOLEAN
        PROVE  [co EXCEPT ![c].pc = "up", ![c].remembers = b] \in [Coords -> Coordinator]
    BY DEF Coordinator, CoordStages
  <2>3. QED BY <1>4, <2>1, <2>2 DEF PublishKey
<1>5. ASSUME NEW c \in Coords, PublishFails(c)
      PROVE  ChannelTypeOK'
  BY <1>5 DEF PublishFails, Coordinator, CoordStages, AgentJob, JobStages, JobOutcomes
<1>6. ASSUME NEW c \in Coords, Bind(c)
      PROVE  ChannelTypeOK'
  BY <1>6 DEF Bind, Coordinator, CoordStages, AgentJob, JobStages, JobOutcomes
<1>7. ASSUME NEW c \in Coords, CoordExit(c)
      PROVE  ChannelTypeOK'
  BY <1>7 DEF CoordExit, Down, NoJob, Coordinator, CoordStages, AgentJob, JobStages, JobOutcomes
<1>8. ASSUME NEW c \in Coords, Serve(c)
      PROVE  ChannelTypeOK'
  BY <1>8, <1>a DEF Serve, AgentJob, JobOutcomes
<1>9. ASSUME NEW c \in Coords, BadMac(c)
      PROVE  ChannelTypeOK'
  BY <1>9 DEF BadMac, Coordinator, CoordStages, AgentJob, JobStages, JobOutcomes
<1>10. ASSUME NEW c \in Coords, RepairTruncate(c)
      PROVE  ChannelTypeOK'
  BY <1>10 DEF RepairTruncate, Coordinator, CoordStages, AgentJob, JobStages, JobOutcomes
<1>11. ASSUME NEW c \in Coords, RepairWrite(c)
      PROVE  ChannelTypeOK'
  BY <1>11 DEF RepairWrite, Coordinator, CoordStages, AgentJob, JobStages, JobOutcomes
<1>12. ASSUME NEW c \in Coords, Refused(c)
      PROVE  ChannelTypeOK'
  <2>1. co[c].key \in 0..MaxCoordStarts /\ co[c].remembers \in BOOLEAN
    BY DEF Coordinator
  <2>2. [ag EXCEPT !.pc = "retry", !.first = co[c].key] \in AgentJob
    BY <2>1 DEF AgentJob, JobStages
  <2>3. [NoJob EXCEPT !.outcome = "refused", !.by = co[c].key, !.first = ag.first,
                      !.remembers = co[c].remembers] \in AgentJob
    <3>1. "refused" \in JobOutcomes
      BY DEF JobOutcomes
    <3>2. QED BY <1>a, <2>1, <3>1 DEF AgentJob
  <2>4. QED BY <1>12, <2>2, <2>3 DEF Refused
<1>13. CASE Forward
  <2>0. "posted" \in JobStages
    BY DEF JobStages
  <2>1. [NoJob EXCEPT !.pc = "posted", !.ticket = file] \in AgentJob
    BY <1>a, <2>0 DEF AgentJob
  <2>2. CASE ag.pc = "idle"
    BY <1>13, <2>1, <2>2 DEF Forward
  <2>3. CASE ag.pc = "retry"
    <3>1. [ag EXCEPT !.pc = "posted", !.ticket = file, !.attempt = @ + 1] \in AgentJob
      <4>1. ag.attempt + 1 \in 0..1
        BY <2>3 DEF RetryKnown
      <4>2. QED BY <2>0, <4>1 DEF AgentJob
    <3>2. QED BY <1>13, <2>3, <3>1 DEF Forward
  <2>4. QED BY <1>13, <2>2, <2>3 DEF Forward
<1>14. CASE Unreachable
  BY <1>14, <1>a DEF Unreachable
<1>15. CASE UNCHANGED channelVars
  BY <1>15 DEF channelVars
<1>16. QED
  BY <1>1, <1>2, <1>3, <1>4, <1>5, <1>6, <1>7, <1>8, <1>9, <1>10, <1>11, <1>12, <1>13, <1>14,
     <1>15 DEF ChannelNext, Startup, Handler

(* The keys, the lock, the publication and the job's retry hang together in every step. *)
LEMMA ChannelStep ==
    ASSUME ChannelTypeOK, ChannelIInv, PublicationStands, RefusalMeansReplaced,
           [ChannelNext]_channelVars
    PROVE  ChannelIInv' /\ PublicationStands' /\ RefusalMeansReplaced'
<1> USE ChannelAssumption DEF ChannelIInv
<1>1. ASSUME NEW c \in Coords, Arm(c)
      PROVE  ChannelIInv' /\ PublicationStands' /\ RefusalMeansReplaced'
  <2>1. OneWriter'
    BY <1>1 DEF Arm, Down, OneWriter
  <2>2. KeysFresh'
    BY <1>1 DEF Arm, Down, KeysFresh, ChannelTypeOK, Coordinator, AgentJob
  <2>3. RefusalAddressed'
    BY <1>1 DEF Arm, Down, RefusalAddressed
  <2>4. RetryKnown'
    BY <1>1 DEF Arm, Down, RetryKnown
  <2>5. PublicationStands'
    BY <1>1 DEF Arm, Down, PublicationStands
  <2>6. RefusalMeansReplaced'
    BY <1>1 DEF Arm, Down, RefusalMeansReplaced
  <2>7. QED BY <2>1, <2>2, <2>3, <2>4, <2>5, <2>6
<1>2. ASSUME NEW c \in Coords, Claim(c)
      PROVE  ChannelIInv' /\ PublicationStands' /\ RefusalMeansReplaced'
  <2>1. OneWriter'
    BY <1>2 DEF Claim, ClaimPublishing, ClaimLost, OneWriter, ChannelTypeOK, Coordinator,
         AgentJob
  <2>2. KeysFresh'
    BY <1>2 DEF Claim, ClaimPublishing, ClaimLost, KeysFresh, ChannelTypeOK, Coordinator,
         AgentJob
  <2>3. RefusalAddressed'
    BY <1>2 DEF Claim, ClaimPublishing, ClaimLost, RefusalAddressed, ChannelTypeOK,
         Coordinator, AgentJob
  <2>4. RetryKnown'
    BY <1>2 DEF Claim, ClaimPublishing, ClaimLost, RetryKnown, ChannelTypeOK, Coordinator,
         AgentJob
  <2>5. PublicationStands'
    BY <1>2 DEF Claim, ClaimPublishing, ClaimLost, OneWriter, PublicationStands,
         ChannelTypeOK, Coordinator, AgentJob
  <2>6. RefusalMeansReplaced'
    BY <1>2 DEF Claim, ClaimPublishing, ClaimLost, RefusalMeansReplaced
  <2>7. QED BY <2>1, <2>2, <2>3, <2>4, <2>5, <2>6
<1>3. ASSUME NEW c \in Coords, Truncate(c)
      PROVE  ChannelIInv' /\ PublicationStands' /\ RefusalMeansReplaced'
  <2>1. OneWriter'
    BY <1>3 DEF Truncate, OneWriter
  <2>2. KeysFresh'
    BY <1>3 DEF Truncate, KeysFresh
  <2>3. RefusalAddressed'
    BY <1>3 DEF Truncate, RefusalAddressed
  <2>4. RetryKnown'
    BY <1>3 DEF Truncate, RetryKnown
  <2>5. PublicationStands'
    BY <1>3 DEF Truncate, OneWriter, PublicationStands, ChannelTypeOK, Coordinator, AgentJob
  <2>6. RefusalMeansReplaced'
    BY <1>3 DEF Truncate, RefusalMeansReplaced
  <2>7. QED BY <2>1, <2>2, <2>3, <2>4, <2>5, <2>6
<1>4. ASSUME NEW c \in Coords, PublishKey(c)
      PROVE  ChannelIInv' /\ PublicationStands' /\ RefusalMeansReplaced'
  <2>1. OneWriter'
    BY <1>4 DEF PublishKey, OneWriter, ChannelTypeOK, Coordinator, AgentJob
  <2>2. KeysFresh'
    BY <1>4 DEF PublishKey, KeysFresh, ChannelTypeOK, Coordinator, AgentJob
  <2>3. RefusalAddressed'
    BY <1>4 DEF PublishKey, RefusalAddressed, ChannelTypeOK, Coordinator, AgentJob
  <2>4. RetryKnown'
    BY <1>4 DEF PublishKey, RetryKnown, ChannelTypeOK, Coordinator, AgentJob
  <2>5. PublicationStands'
    BY <1>4 DEF PublishKey, OneWriter, PublicationStands, ChannelTypeOK, Coordinator,
         AgentJob
  <2>6. RefusalMeansReplaced'
    BY <1>4 DEF PublishKey, RefusalMeansReplaced
  <2>7. QED BY <2>1, <2>2, <2>3, <2>4, <2>5, <2>6
<1>5. ASSUME NEW c \in Coords, PublishFails(c)
      PROVE  ChannelIInv' /\ PublicationStands' /\ RefusalMeansReplaced'
  <2>1. OneWriter'
    BY <1>5 DEF PublishFails, OneWriter
  <2>2. KeysFresh'
    BY <1>5 DEF PublishFails, KeysFresh
  <2>3. RefusalAddressed'
    BY <1>5 DEF PublishFails, RefusalAddressed
  <2>4. RetryKnown'
    BY <1>5 DEF PublishFails, RetryKnown
  <2>5. PublicationStands'
    BY <1>5 DEF PublishFails, OneWriter, PublicationStands, ChannelTypeOK, Coordinator,
         AgentJob
  <2>6. RefusalMeansReplaced'
    BY <1>5 DEF PublishFails, RefusalMeansReplaced
  <2>7. QED BY <2>1, <2>2, <2>3, <2>4, <2>5, <2>6
<1>6. ASSUME NEW c \in Coords, Bind(c)
      PROVE  ChannelIInv' /\ PublicationStands' /\ RefusalMeansReplaced'
  <2>1. OneWriter'
    BY <1>6 DEF Bind, OneWriter
  <2>2. KeysFresh'
    BY <1>6 DEF Bind, KeysFresh
  <2>3. RefusalAddressed'
    BY <1>6 DEF Bind, RefusalAddressed
  <2>4. RetryKnown'
    BY <1>6 DEF Bind, RetryKnown
  <2>5. PublicationStands'
    BY <1>6 DEF Bind, PublicationStands
  <2>6. RefusalMeansReplaced'
    BY <1>6 DEF Bind, RefusalMeansReplaced
  <2>7. QED BY <2>1, <2>2, <2>3, <2>4, <2>5, <2>6
<1>7. ASSUME NEW c \in Coords, CoordExit(c)
      PROVE  ChannelIInv' /\ PublicationStands' /\ RefusalMeansReplaced'
  <2>1. OneWriter'
    BY <1>7 DEF CoordExit, Down, NoJob, OneWriter, ChannelTypeOK, Coordinator, AgentJob
  <2>2. KeysFresh'
    BY <1>7 DEF CoordExit, Down, NoJob, KeysFresh, ChannelTypeOK, Coordinator, AgentJob
  <2>3. RefusalAddressed'
    BY <1>7 DEF CoordExit, Down, NoJob, RefusalAddressed
  <2>4. RetryKnown'
    BY <1>7 DEF CoordExit, Down, NoJob, RetryKnown
  <2>5. PublicationStands'
    BY <1>7 DEF CoordExit, Down, NoJob, PublicationStands
  <2>6. RefusalMeansReplaced'
    BY <1>7 DEF CoordExit, Down, NoJob, RefusalMeansReplaced
  <2>7. QED BY <2>1, <2>2, <2>3, <2>4, <2>5, <2>6
<1>8. ASSUME NEW c \in Coords, Serve(c)
      PROVE  ChannelIInv' /\ PublicationStands' /\ RefusalMeansReplaced'
  <2>1. OneWriter'
    BY <1>8 DEF Serve, NoJob, OneWriter
  <2>2. KeysFresh'
    BY <1>8 DEF Serve, NoJob, KeysFresh, ChannelTypeOK, Coordinator, AgentJob
  <2>3. RefusalAddressed'
    BY <1>8 DEF Serve, NoJob, RefusalAddressed
  <2>4. RetryKnown'
    BY <1>8 DEF Serve, NoJob, RetryKnown
  <2>5. PublicationStands'
    BY <1>8 DEF Serve, NoJob, PublicationStands
  <2>6. RefusalMeansReplaced'
    BY <1>8 DEF Serve, NoJob, RefusalMeansReplaced
  <2>7. QED BY <2>1, <2>2, <2>3, <2>4, <2>5, <2>6
<1>9. ASSUME NEW c \in Coords, BadMac(c)
      PROVE  ChannelIInv' /\ PublicationStands' /\ RefusalMeansReplaced'
  <2>1. OneWriter'
    BY <1>9 DEF BadMac, OneWriter
  <2>2. KeysFresh'
    BY <1>9 DEF BadMac, KeysFresh
  <2>3. RefusalAddressed'
    BY <1>9 DEF BadMac, OneWriter, KeysFresh, RefusalAddressed, RetryKnown,
         PublicationStands, RefusalMeansReplaced, ChannelTypeOK, Coordinator, AgentJob
  <2>4. RetryKnown'
    BY <1>9 DEF BadMac, RetryKnown
  <2>5. PublicationStands'
    BY <1>9 DEF BadMac, PublicationStands
  <2>6. RefusalMeansReplaced'
    BY <1>9 DEF BadMac, RefusalMeansReplaced
  <2>7. QED BY <2>1, <2>2, <2>3, <2>4, <2>5, <2>6
<1>10. ASSUME NEW c \in Coords, RepairTruncate(c)
      PROVE  ChannelIInv' /\ PublicationStands' /\ RefusalMeansReplaced'
  <2>1. OneWriter'
    BY <1>10 DEF RepairTruncate, OneWriter
  <2>2. KeysFresh'
    BY <1>10 DEF RepairTruncate, KeysFresh
  <2>3. RefusalAddressed'
    BY <1>10 DEF RepairTruncate, RefusalAddressed
  <2>4. RetryKnown'
    BY <1>10 DEF RepairTruncate, RetryKnown
  <2>5. PublicationStands'
    BY <1>10 DEF RepairTruncate, OneWriter, KeysFresh, RefusalAddressed, PublicationStands,
         ChannelTypeOK, Coordinator, AgentJob
  <2>6. RefusalMeansReplaced'
    BY <1>10 DEF RepairTruncate, RefusalMeansReplaced
  <2>7. QED BY <2>1, <2>2, <2>3, <2>4, <2>5, <2>6
<1>11. ASSUME NEW c \in Coords, RepairWrite(c)
      PROVE  ChannelIInv' /\ PublicationStands' /\ RefusalMeansReplaced'
  <2>1. OneWriter'
    BY <1>11 DEF RepairWrite, OneWriter
  <2>2. KeysFresh'
    BY <1>11 DEF RepairWrite, KeysFresh
  <2>3. RefusalAddressed'
    BY <1>11 DEF RepairWrite, RefusalAddressed
  <2>4. RetryKnown'
    BY <1>11 DEF RepairWrite, OneWriter, KeysFresh, RefusalAddressed, RetryKnown,
         ChannelTypeOK, Coordinator, AgentJob
  <2>5. PublicationStands'
    BY <1>11 DEF RepairWrite, OneWriter, KeysFresh, RefusalAddressed, PublicationStands,
         ChannelTypeOK, Coordinator, AgentJob
  <2>6. RefusalMeansReplaced'
    BY <1>11 DEF RepairWrite, RefusalMeansReplaced
  <2>7. QED BY <2>1, <2>2, <2>3, <2>4, <2>5, <2>6
<1>12. ASSUME NEW c \in Coords, Refused(c)
      PROVE  ChannelIInv' /\ PublicationStands' /\ RefusalMeansReplaced'
  <2>1. OneWriter'
    BY <1>12 DEF Refused, NoJob, OneWriter
  <2>2. KeysFresh'
    BY <1>12 DEF Refused, NoJob, OneWriter, KeysFresh, RefusalAddressed, ChannelTypeOK,
         Coordinator, AgentJob
  <2>3. RefusalAddressed'
    BY <1>12 DEF Refused, NoJob, RefusalAddressed
  <2>4. RetryKnown'
    BY <1>12 DEF Refused, NoJob, OneWriter, KeysFresh, RefusalAddressed, RetryKnown,
         ChannelTypeOK, Coordinator, AgentJob
  <2>5. PublicationStands'
    BY <1>12 DEF Refused, NoJob, PublicationStands
  <2>6. RefusalMeansReplaced'
    <3>1. ASSUME lockable, ag.attempt # 0, co[c].remembers, ag.first = co[c].key
          PROVE  FALSE
      BY <1>12, <3>1 DEF Refused, RetryKnown, RefusalAddressed, ChannelTypeOK, AgentJob
    <3>2. CASE ag.attempt = 0
      BY <1>12, <3>2 DEF Refused, RefusalMeansReplaced, RetryKnown, ChannelTypeOK, AgentJob
    <3>3. CASE ag.attempt # 0
      <4>1. /\ ag'.first = ag.first /\ ag'.by = co[c].key /\ ag'.remembers = co[c].remembers
            /\ lockable' = lockable
        BY <1>12, <3>3 DEF Refused, NoJob
      <4>2. QED BY <3>1, <3>3, <4>1 DEF RefusalMeansReplaced
    <3>4. QED BY <3>2, <3>3
  <2>7. QED BY <2>1, <2>2, <2>3, <2>4, <2>5, <2>6
<1>13. ASSUME Forward
      PROVE  ChannelIInv' /\ PublicationStands' /\ RefusalMeansReplaced'
  <2>1. OneWriter'
    BY <1>13 DEF Forward, NoJob, OneWriter
  <2>2. KeysFresh'
    BY <1>13 DEF Forward, NoJob, KeysFresh, ChannelTypeOK, Coordinator, AgentJob
  <2>3. RefusalAddressed'
    BY <1>13 DEF Forward, NoJob, RefusalAddressed
  <2>4. RetryKnown'
    <3>1. CASE ag.pc = "idle"
      <4>1. ag' = [NoJob EXCEPT !.pc = "posted", !.ticket = file]
        BY <1>13, <3>1 DEF Forward
      <4>2. ag'.pc = "posted" /\ ag'.attempt = 0 /\ ag'.outcome = "none"
        BY <4>1 DEF NoJob
      <4>3. QED BY <4>2 DEF RetryKnown
    <3>2. CASE ag.pc = "retry"
      <4>1. ag' = [ag EXCEPT !.pc = "posted", !.ticket = file, !.attempt = @ + 1]
        BY <1>13, <3>2 DEF Forward
      <4>2. /\ ag'.pc = "posted" /\ ag'.ticket = file
            /\ ag'.first = ag.first /\ ag'.first # 0 /\ ag'.outcome = "none"
        BY <4>1, <3>2 DEF RetryKnown, ChannelTypeOK, AgentJob
      <4>3. UNCHANGED <<co, lockable>>
        BY <1>13 DEF Forward
      <4>4. QED BY <4>2, <4>3 DEF RetryKnown, PublicationStands, OneWriter
    <3>3. QED BY <1>13, <3>1, <3>2 DEF Forward
  <2>5. PublicationStands'
    BY <1>13 DEF Forward, NoJob, PublicationStands
  <2>6. RefusalMeansReplaced'
    BY <1>13 DEF Forward, NoJob, RefusalMeansReplaced
  <2>7. QED BY <2>1, <2>2, <2>3, <2>4, <2>5, <2>6
<1>14. ASSUME Unreachable
      PROVE  ChannelIInv' /\ PublicationStands' /\ RefusalMeansReplaced'
  <2>1. OneWriter'
    BY <1>14 DEF Unreachable, NoJob, OneWriter
  <2>2. KeysFresh'
    BY <1>14 DEF Unreachable, NoJob, KeysFresh, ChannelTypeOK, Coordinator, AgentJob
  <2>3. RefusalAddressed'
    BY <1>14 DEF Unreachable, NoJob, RefusalAddressed
  <2>4. RetryKnown'
    BY <1>14 DEF Unreachable, NoJob, RetryKnown
  <2>5. PublicationStands'
    BY <1>14 DEF Unreachable, NoJob, PublicationStands
  <2>6. RefusalMeansReplaced'
    BY <1>14 DEF Unreachable, NoJob, RefusalMeansReplaced
  <2>7. QED BY <2>1, <2>2, <2>3, <2>4, <2>5, <2>6
<1>15. CASE UNCHANGED channelVars
  BY <1>15 DEF channelVars, OneWriter, KeysFresh, RefusalAddressed, RetryKnown,
     PublicationStands, RefusalMeansReplaced
<1>16. QED
  BY <1>1, <1>2, <1>3, <1>4, <1>5, <1>6, <1>7, <1>8, <1>9, <1>10, <1>11, <1>12, <1>13, <1>14,
     <1>15 DEF ChannelNext, Startup, Handler

(* What the lock keeps true of the coordinators, the published key and the agent's job. *)
LEMMA ChannelCorrect ==
    ChannelSpec => [](ChannelTypeOK /\ ChannelIInv /\ PublicationStands /\ RefusalMeansReplaced)
<1> DEFINE Inv == ChannelTypeOK /\ ChannelIInv /\ PublicationStands /\ RefusalMeansReplaced
<1>1. ChannelInit => Inv
  <2> SUFFICES ASSUME ChannelInit PROVE Inv
    OBVIOUS
  <2>1. ChannelTypeOK
    BY ChannelAssumption DEF ChannelInit, ChannelTypeOK, Down, NoJob, Coordinator, CoordStages,
                             AgentJob, JobStages, JobOutcomes
  <2>2. ChannelIInv /\ PublicationStands /\ RefusalMeansReplaced
    BY ChannelAssumption DEF ChannelInit, Down, NoJob, ChannelIInv, OneWriter, KeysFresh,
                             RefusalAddressed, RetryKnown, PublicationStands,
                                RefusalMeansReplaced
  <2>3. QED BY <2>1, <2>2
<1>2. Inv /\ [ChannelNext]_channelVars => Inv'
  BY ChannelStep, ChannelTypeStep DEF ChannelIInv
<1>3. QED BY <1>1, <1>2, PTL DEF ChannelSpec

\* Every variable of the admission channel keeps its type, and a job makes at most one retry.
THEOREM ChannelTypeCorrect == ChannelSpec => []ChannelTypeOK
BY ChannelCorrect, PTL

\* While the coordinator that published under the lock lives, no other start, whatever it
\* goes on to do, overwrites its key (adm_claim_channel).
THEOREM KeyStandsWhileItsOwnerLives == ChannelSpec => []PublicationStands
BY ChannelCorrect, PTL

\* A job is refused twice only if the coordinator was replaced between the two attempts, or
\* is one that never published: one retry is enough (http_post_json_platform).
THEOREM OneRetryIsEnough == ChannelSpec => []RefusalMeansReplaced
BY ChannelCorrect, PTL

-----------------------------------------------------------------------------
(* The route of a chat (ChatRoute), then all the routes (Routes). *)

Request == [pc : OnWorker \cup {"away", "backlog", "done"},
            from : [origin : {"local", "proven", "claimed", "unattributed"}, hops : Nat],
            queued : BOOLEAN, ahead : Nat,
            outcome : {"none", "local", "shared", "gone", "refused", "dropped"}]

\* The requests that hold a slot.
Held == {"admitted", "serving", "served"}
InLine == Waits \ {"queueing"}

\* A request is counted as a waiter from its first refusal by the gate to its admission or its end.
Placed(rec) ==
    /\ rec.queued => rec.pc \in InLine \cup {"trying", "admitted"}
    /\ rec.pc \in InLine \cup {"admitted"} => rec.queued
EachPlaced == \A r \in Requests : Placed(req[r])

\* The hand-off queue holds each connection that waits for a worker once, and nothing else.
BacklogSound ==
    /\ \A i \in 1..Len(backlog) : req[backlog[i]].pc = "backlog"
    /\ \A i, j \in 1..Len(backlog) : backlog[i] = backlog[j] => i = j

\* Each worker carries one request, and while every slot was taken when a request began to
\* wait, no more requests can wait than the slots leave workers for.
WorkersSuffice == Cardinality(At(OnWorker)) <= Workers
SlotsLeaveOver == Cardinality(At(Waits)) <= Workers - Slots

\* The ledger is never ahead of the day, and it is exact.
LedgerSound == starts >= 1 /\ ovf.day <= today /\ LedgerExact

\* What was spent, and all that the requests that are out may still cost.
Committed(out) == RollDay(ovf).spent + Cardinality(out) * MaxCharge
CommitmentsBounded ==
    DailyCap > 0 => Committed(At(Borrowing)) <= DailyCap - 1 + (Workers - Slots) * MaxCharge

RouteTyped ==
    /\ OverflowTypeOK
    /\ backlog \in Seq(Requests)
    /\ gate \in [active : Nat, waiting : Nat]
    /\ req \in [Requests -> Request]
    /\ gone \subseteq Requests
    /\ starts \in Nat

RouteIInv ==
    /\ RouteTyped
    /\ GateExact /\ gate.active <= Slots
    /\ EachPlaced
    /\ BacklogSound
    /\ WorkersSuffice
    /\ SlotsLeaveOver
    /\ LedgerSound
    /\ CommitmentsBounded

-----------------------------------------------------------------------------
\* Any requests can be counted.
LEMMA Countable ==
    ASSUME NEW A \in SUBSET Requests
    PROVE  IsFiniteSet(A) /\ Cardinality(A) \in Nat /\ Cardinality(A) <= Cardinality(Requests)
BY ChatAssumption, FS_Subset, FS_CardinalityType

\* Two sets that differ by one member at most differ by one at most.
LEMMA Moved ==
    ASSUME NEW U, IsFiniteSet(U), NEW A \in SUBSET U, NEW B \in SUBSET U, NEW r \in U,
           \A q \in U \ {r} : q \in A <=> q \in B
    PROVE  /\ (r \in A <=> r \in B) => Cardinality(B) = Cardinality(A)
           /\ r \in A /\ r \notin B => Cardinality(B) = Cardinality(A) - 1
           /\ r \notin A /\ r \in B => Cardinality(B) = Cardinality(A) + 1
<1>1. IsFiniteSet(A) /\ IsFiniteSet(B)
  BY FS_Subset
<1>2. CASE r \in A <=> r \in B
  <2>1. A = B
    BY <1>2
  <2>2. QED BY <1>2, <2>1
<1>3. CASE r \in A /\ r \notin B
  <2>1. B = A \ {r}
    BY <1>3
  <2>2. QED BY <1>1, <1>3, <2>1, FS_RemoveElement
<1>4. CASE r \notin A /\ r \in B
  <2>1. B = A \cup {r}
    BY <1>4
  <2>2. QED BY <1>1, <1>4, <2>1, FS_AddElement
<1>5. QED BY <1>2, <1>3, <1>4

\* One request that goes from one place to another counts for the places it enters and leaves.
LEMMA AtMoved ==
    ASSUME NEW r \in Requests, NEW rec \in Request, req \in [Requests -> Request],
           req' = [req EXCEPT ![r] = rec], NEW CONSTANT S
    PROVE  /\ (req[r].pc \in S <=> rec.pc \in S) => Cardinality(At(S)') = Cardinality(At(S))
           /\ req[r].pc \in S /\ rec.pc \notin S =>
                  Cardinality(At(S)') = Cardinality(At(S)) - 1
           /\ req[r].pc \notin S /\ rec.pc \in S =>
                  Cardinality(At(S)') = Cardinality(At(S)) + 1
<1>1. At(S) \in SUBSET Requests /\ At(S)' \in SUBSET Requests
  BY DEF At
<1>2. \A q \in Requests \ {r} : q \in At(S) <=> q \in At(S)'
  BY DEF At
<1>3. (r \in At(S) <=> req[r].pc \in S) /\ (r \in At(S)' <=> rec.pc \in S)
  BY DEF At
<1> HIDE DEF At
<1>4. QED BY <1>1, <1>2, <1>3, ChatAssumption, Moved

\* And so it does among the waiters.
LEMMA QueuedMoved ==
    ASSUME NEW r \in Requests, NEW rec \in Request, req \in [Requests -> Request],
           req' = [req EXCEPT ![r] = rec]
    PROVE  /\ (req[r].queued <=> rec.queued) => Cardinality(Queued') = Cardinality(Queued)
           /\ req[r].queued /\ ~rec.queued => Cardinality(Queued') = Cardinality(Queued) - 1
           /\ ~req[r].queued /\ rec.queued => Cardinality(Queued') = Cardinality(Queued) + 1
<1>1. Queued \in SUBSET Requests /\ Queued' \in SUBSET Requests
  BY DEF Queued
<1>2. \A q \in Requests \ {r} : q \in Queued <=> q \in Queued'
  BY DEF Queued
<1>3. (r \in Queued <=> req[r].queued) /\ (r \in Queued' <=> rec.queued)
  BY DEF Queued
<1>4. QED BY <1>1, <1>2, <1>3, ChatAssumption, Moved

\* The counts the invariant is about are numbers.
LEMMA Counts ==
    /\ \A S : Cardinality(At(S)) \in Nat /\ Cardinality(At(S)) <= Cardinality(Requests)
    /\ Cardinality(Queued) \in Nat /\ Cardinality(Queued) <= Cardinality(Requests)
<1>1. (\A S : At(S) \in SUBSET Requests) /\ Queued \in SUBSET Requests
  BY DEF At, Queued
<1>2. QED BY <1>1, Countable

\* The holders of the slots and the waiters are among the requests on a worker.
LEMMA HeldAndWaiting ==
    Cardinality(At(Held)) + Cardinality(At(Waits)) <= Cardinality(At(OnWorker))
<1>1. /\ At(Held) \cup At(Waits) \in SUBSET At(OnWorker)
      /\ At(Held) \cap At(Waits) = {}
  BY DEF At, Held, Waits, OnWorker
<1>2. IsFiniteSet(At(Held)) /\ IsFiniteSet(At(Waits)) /\ IsFiniteSet(At(OnWorker))
  <2>1. \A S : At(S) \in SUBSET Requests
    BY DEF At
  <2>2. QED BY <2>1, Countable
<1>3. Cardinality(At(Held) \cup At(Waits)) = Cardinality(At(Held)) + Cardinality(At(Waits))
  <2>1. Cardinality(At(Held) \cap At(Waits)) = 0
    BY <1>1, FS_EmptySet
  <2>2. Cardinality(At(Held) \cup At(Waits)) =
            Cardinality(At(Held)) + Cardinality(At(Waits)) - Cardinality(At(Held) \cap At(Waits))
    BY <1>2, FS_Union
  <2>3. QED BY <2>1, <2>2, Counts
<1>4. QED BY <1>1, <1>2, <1>3, FS_Subset

\* Whoever borrows waits.
LEMMA BorrowersWait == Cardinality(At(Borrowing)) <= Cardinality(At(Waits))
<1>1. At(Borrowing) \in SUBSET At(Waits) /\ At(Waits) \in SUBSET Requests
  BY DEF At, Borrowing, Waits
<1>2. QED BY <1>1, Countable, FS_Subset

\* What fewer requests may cost is less.
LEMMA CostsMore ==
    ASSUME NEW a \in Nat, NEW b \in Nat, NEW m \in Nat, a <= b
    PROVE  a * m \in Nat /\ b * m \in Nat /\ a * m <= b * m
<1>1. PICK k \in Nat : b = a + k
  <2>1. b - a \in Nat /\ b = a + (b - a)
    OBVIOUS
  <2>2. QED BY <2>1
<1>2. \A x, y \in Nat : x * y \in Nat
  OBVIOUS
<1>3. (a + k) * m = a * m + k * m
  OBVIOUS
<1>4. QED BY <1>1, <1>2, <1>3

\* One request that is out fewer makes room for its bill.
LEMMA CostsLess ==
    ASSUME NEW a \in Nat, NEW m \in Nat
    PROVE  (a + 1) * m = a * m + m
OBVIOUS

-----------------------------------------------------------------------------
\* A ledger that has rolled is the day's own, however often it rolls.
LEMMA Rolled ==
    ASSUME OverflowTypeOK
    PROVE  /\ RollDay(ovf) \in [on : BOOLEAN, spent : Nat, day : Nat]
           /\ RollDay(ovf).day = today
           /\ RollDay(RollDay(ovf)) = RollDay(ovf)
BY DEF RollDay, OverflowTypeOK

\* The gate after r went from where it was to rec.
GateFollows(r, rec) ==
    /\ gate' \in [active : Nat, waiting : Nat]
    /\ gate'.active <= Slots
    /\ (req[r].pc \in Held <=> rec.pc \in Held) => gate'.active = gate.active
    /\ req[r].pc \in Held /\ rec.pc \notin Held => gate'.active = gate.active - 1
    /\ req[r].pc \notin Held /\ rec.pc \in Held => gate'.active = gate.active + 1
    /\ (req[r].queued <=> rec.queued) => gate'.waiting = gate.waiting
    /\ req[r].queued /\ ~rec.queued => gate'.waiting = gate.waiting - 1
    /\ ~req[r].queued /\ rec.queued => gate'.waiting = gate.waiting + 1

\* The ledger after it: nobody begins to borrow beyond the cap, and a charge ends the borrowing.
LedgerFollows(r, rec) ==
    \/ /\ UNCHANGED <<ovf, daySpend>>
       /\ rec.pc \in Borrowing => req[r].pc \in Borrowing
    \/ /\ ovf' = Consulted
       /\ UNCHANGED daySpend
       /\ rec.pc \in Borrowing => ~CapReached(RollDay(ovf))
    \/ /\ req[r].pc \in Borrowing /\ rec.pc \notin Borrowing
       /\ \E charge \in 0..MaxCharge : NoteSpend(charge)

\* r goes on: what every step of a request that a worker carries has in common.
GoesOn(r, rec) ==
    /\ req' = [req EXCEPT ![r] = rec]
    /\ req[r].pc \in OnWorker
    /\ rec.pc \in OnWorker \cup {"done"}
    /\ Placed(rec)
    /\ rec.pc \in Waits => \/ req[r].pc \in Waits
                           \/ req[r].pc \notin Held /\ gate.active >= Slots
    /\ haveKey' \in BOOLEAN
    /\ UNCHANGED <<backlog, gone, starts, today>>

\* A ledger that was only read is as it was, once it has rolled.
LEMMA LedgerRead ==
    ASSUME OverflowTypeOK, UNCHANGED <<today, daySpend>>, ovf' = ovf \/ ovf' = Consulted,
           haveKey' \in BOOLEAN
    PROVE  /\ OverflowTypeOK'
           /\ RollDay(ovf)'.spent = RollDay(ovf).spent
           /\ ovf.day <= today => ovf'.day <= today
<1>1. /\ ovf \in [on : BOOLEAN, spent : Nat, day : Nat] /\ today \in Nat /\ daySpend \in Nat
      /\ today' = today /\ daySpend' = daySpend
  BY DEF OverflowTypeOK
<1>2. CASE ovf' = ovf
  BY <1>1, <1>2 DEF RollDay, OverflowTypeOK
<1>3. CASE ovf' = RollDay(ovf)
  <2>1. ovf' \in [on : BOOLEAN, spent : Nat, day : Nat] /\ ovf'.day = today
    BY <1>3, Rolled
  <2>2. RollDay(ovf)' = ovf'
    BY <1>1, <2>1 DEF RollDay
  <2>3. QED BY <1>1, <1>3, <2>1, <2>2 DEF OverflowTypeOK
<1>4. QED BY <1>2, <1>3 DEF Consulted

\* A ledger that was charged.
LEMMA LedgerCharged ==
    ASSUME OverflowTypeOK, UNCHANGED today, NEW charge \in Nat, NoteSpend(charge),
           haveKey' \in BOOLEAN
    PROVE  /\ OverflowTypeOK'
           /\ RollDay(ovf)'.spent = RollDay(ovf).spent + charge
           /\ daySpend' = daySpend + charge
           /\ ovf.day <= today => ovf'.day <= today
<1>1. /\ ovf \in [on : BOOLEAN, spent : Nat, day : Nat] /\ today \in Nat /\ daySpend \in Nat
      /\ today' = today /\ daySpend' = daySpend + charge /\ daySpend' \in Nat
  BY DEF OverflowTypeOK, NoteSpend
<1>2. CASE charge > 0
  <2>1. ovf' = [RollDay(ovf) EXCEPT !.spent = RollDay(ovf).spent + charge]
    BY <1>2 DEF NoteSpend
  <2>2. /\ ovf' \in [on : BOOLEAN, spent : Nat, day : Nat] /\ ovf'.day = today
        /\ ovf'.spent = RollDay(ovf).spent + charge
    BY <2>1, Rolled
  <2>3. RollDay(ovf)' = ovf'
    BY <1>1, <2>2 DEF RollDay
  <2>4. QED BY <1>1, <2>2, <2>3 DEF OverflowTypeOK
<1>3. CASE ~(charge > 0)
  <2>1. ovf' = ovf /\ charge = 0
    BY <1>3 DEF NoteSpend
  <2>2. RollDay(ovf)' = RollDay(ovf) /\ RollDay(ovf).spent \in Nat
    BY <1>1, <2>1, Rolled DEF RollDay
  <2>3. QED BY <1>1, <2>1, <2>2 DEF OverflowTypeOK
<1>4. QED BY <1>2, <1>3

\* What the requests that are out may cost stays within the cap and the workers the slots leave
\* over, whether nobody starts to borrow, somebody does below the cap, or one of them is billed.
LEMMA CommitmentsFollow ==
    ASSUME RouteIInv, NEW r \in Requests, NEW rec \in Request,
           GoesOn(r, rec), LedgerFollows(r, rec), SlotsLeaveOver'
    PROVE  /\ OverflowTypeOK'
           /\ LedgerSound'
           /\ CommitmentsBounded'
<1> DEFINE n == Cardinality(At(Borrowing))
           n1 == Cardinality(At(Borrowing)')
           sp == RollDay(ovf).spent
           sp1 == RollDay(ovf)'.spent
           most == (Workers - Slots) * MaxCharge
<1>1. /\ OverflowTypeOK /\ req \in [Requests -> Request] /\ starts \in Nat
      /\ starts' = starts /\ today' = today /\ haveKey' \in BOOLEAN
      /\ starts >= 1 /\ ovf.day <= today /\ (starts = 1 => sp = daySpend)
      /\ DailyCap > 0 => sp + n * MaxCharge <= DailyCap - 1 + most
  BY DEF RouteIInv, RouteTyped, GoesOn, LedgerSound, LedgerExact, CommitmentsBounded, Committed
<1>2. n \in Nat /\ n1 \in Nat
  <2>1. At(Borrowing) \in SUBSET Requests /\ At(Borrowing)' \in SUBSET Requests
    BY DEF At
  <2>2. QED BY <2>1, Countable
<1>3. /\ (req[r].pc \in Borrowing <=> rec.pc \in Borrowing) => n1 = n
      /\ req[r].pc \in Borrowing /\ rec.pc \notin Borrowing => n1 = n - 1
      /\ req[r].pc \notin Borrowing /\ rec.pc \in Borrowing => n1 = n + 1
  BY <1>1, AtMoved DEF GoesOn
<1>4. /\ DailyCap \in Nat /\ MaxCharge \in Nat /\ Workers - Slots \in Nat /\ most \in Nat
      /\ sp \in Nat /\ n * MaxCharge \in Nat
  <2>1. Workers \in Nat /\ Slots \in 1..Workers /\ MaxCharge \in Nat /\ DailyCap \in Nat
    BY ChatAssumption, OverflowAssumption
  <2>2. \A x, y \in Nat : x * y \in Nat
    OBVIOUS
  <2>3. sp \in Nat
    BY <1>1, Rolled
  <2>4. QED BY <1>2, <2>1, <2>2, <2>3
<1>5. SUFFICES
        /\ OverflowTypeOK'
        /\ ovf'.day <= today
        /\ starts = 1 => sp1 = daySpend'
        /\ DailyCap > 0 => sp1 + n1 * MaxCharge <= DailyCap - 1 + most
  BY <1>1 DEF LedgerSound, LedgerExact, CommitmentsBounded, Committed
<1> HIDE DEF n, n1, sp, sp1, most
<1>6. CASE /\ UNCHANGED <<ovf, daySpend>>
           /\ rec.pc \in Borrowing => req[r].pc \in Borrowing
  <2>1. OverflowTypeOK' /\ ovf'.day <= today /\ sp1 = sp
    BY <1>1, <1>6, LedgerRead DEF sp, sp1
  <2>2. n1 <= n
    BY <1>2, <1>3, <1>6
  <2>3. n1 * MaxCharge \in Nat /\ n1 * MaxCharge <= n * MaxCharge
    BY <1>2, <1>4, <2>2, CostsMore
  <2>4. QED BY <1>1, <1>4, <1>6, <2>1, <2>3
<1>7. CASE /\ ovf' = Consulted /\ UNCHANGED daySpend
           /\ rec.pc \in Borrowing => ~CapReached(RollDay(ovf))
  <2>1. OverflowTypeOK' /\ ovf'.day <= today /\ sp1 = sp
    BY <1>1, <1>7, LedgerRead DEF sp, sp1
  <2>2. CASE rec.pc \in Borrowing
    <3>1. DailyCap > 0 => sp <= DailyCap - 1
      BY <1>4, <1>7, <2>2 DEF CapReached, sp
    <3>2. n1 <= Workers - Slots
      <4>1. n1 <= Cardinality(At(Waits)')
        <5>1. /\ At(Borrowing)' \in SUBSET (At(Waits)')
              /\ At(Waits)' \in SUBSET Requests
          BY DEF At, Borrowing, Waits
        <5>2. QED BY <5>1, Countable, FS_Subset DEF n1
      <4>2. Cardinality(At(Waits)') \in Nat
        <5>1. At(Waits)' \in SUBSET Requests
          BY DEF At
        <5>2. QED BY <5>1, Countable
      <4>3. QED BY <1>2, <1>4, <4>1, <4>2 DEF SlotsLeaveOver
    <3>3. n1 * MaxCharge \in Nat /\ n1 * MaxCharge <= most
      BY <1>2, <1>4, <3>2, CostsMore DEF most
    <3>4. QED BY <1>1, <1>4, <1>7, <2>1, <3>1, <3>3
  <2>3. CASE rec.pc \notin Borrowing
    <3>1. n1 <= n
      BY <1>2, <1>3, <2>3
    <3>2. n1 * MaxCharge \in Nat /\ n1 * MaxCharge <= n * MaxCharge
      BY <1>2, <1>4, <3>1, CostsMore
    <3>3. QED BY <1>1, <1>4, <1>7, <2>1, <3>2
  <2>4. QED BY <2>2, <2>3
<1>8. CASE /\ req[r].pc \in Borrowing /\ rec.pc \notin Borrowing
           /\ \E charge \in 0..MaxCharge : NoteSpend(charge)
  <2>1. PICK charge \in 0..MaxCharge : NoteSpend(charge)
    BY <1>8
  <2>2. charge \in Nat /\ charge <= MaxCharge
    BY <1>4
  <2>3. OverflowTypeOK' /\ ovf'.day <= today /\ sp1 = sp + charge /\ daySpend' = daySpend + charge
    BY <1>1, <2>1, <2>2, LedgerCharged DEF sp, sp1
  <2>4. n = n1 + 1
    BY <1>2, <1>3, <1>8
  <2>5. n1 * MaxCharge \in Nat /\ n * MaxCharge = n1 * MaxCharge + MaxCharge
    BY <1>2, <1>4, <2>4, CostsLess, CostsMore
  <2>6. QED BY <1>1, <1>4, <2>2, <2>3, <2>5
<1>9. QED BY <1>6, <1>7, <1>8 DEF LedgerFollows

\* A request that goes on keeps the invariant.
LEMMA GoingOnKeeps ==
    ASSUME RouteIInv, NEW r \in Requests, NEW rec \in Request,
           GoesOn(r, rec), GateFollows(r, rec), LedgerFollows(r, rec)
    PROVE  RouteIInv'
<1>1. /\ req \in [Requests -> Request] /\ req' = [req EXCEPT ![r] = rec]
      /\ backlog \in Seq(Requests)
  BY DEF RouteIInv, RouteTyped, GoesOn
<1>2. Slots \in Nat /\ Workers \in Nat
  BY ChatAssumption
<1>3. GateExact' /\ gate'.active <= Slots
  <2>1. At(Held) = At({"admitted", "serving", "served"}) /\ GateExact
    BY DEF Held, RouteIInv
  <2>2. gate.active = Cardinality(At(Held)) /\ gate.waiting = Cardinality(Queued)
    BY <2>1 DEF GateExact
  <2>3. gate'.active = Cardinality(At(Held)')
    <3>1. /\ (req[r].pc \in Held <=> rec.pc \in Held) => Cardinality(At(Held)') = Cardinality(At(Held))
          /\ req[r].pc \in Held /\ rec.pc \notin Held =>
                 Cardinality(At(Held)') = Cardinality(At(Held)) - 1
          /\ req[r].pc \notin Held /\ rec.pc \in Held =>
                 Cardinality(At(Held)') = Cardinality(At(Held)) + 1
      BY <1>1, AtMoved
    <3>2. QED BY <2>2, <3>1 DEF GateFollows
  <2>4. gate'.waiting = Cardinality(Queued')
    <3>1. req[r].queued \in BOOLEAN /\ rec.queued \in BOOLEAN
      BY <1>1 DEF Request
    <3>2. /\ (req[r].queued <=> rec.queued) => Cardinality(Queued') = Cardinality(Queued)
          /\ req[r].queued /\ ~rec.queued => Cardinality(Queued') = Cardinality(Queued) - 1
          /\ ~req[r].queued /\ rec.queued => Cardinality(Queued') = Cardinality(Queued) + 1
      BY <1>1, QueuedMoved
    <3>3. QED BY <2>2, <3>1, <3>2 DEF GateFollows
  <2>5. QED BY <2>3, <2>4 DEF GateExact, Held, GateFollows
<1>4. EachPlaced'
  BY <1>1 DEF RouteIInv, EachPlaced, GoesOn, Placed
<1>5. BacklogSound'
  <2>1. req[r].pc # "backlog"
    BY DEF GoesOn, OnWorker, Waits
  <2>2. backlog' = backlog /\ BacklogSound
    BY DEF RouteIInv, GoesOn
  <2>3. \A i \in 1..Len(backlog) : backlog[i] \in Requests
    BY <1>1
  <2>4. QED BY <1>1, <2>1, <2>2, <2>3 DEF BacklogSound
<1>6. WorkersSuffice'
  <2>1. Cardinality(At(OnWorker)') <= Cardinality(At(OnWorker))
    <3>1. Cardinality(At(OnWorker)) \in Nat /\ req[r].pc \in OnWorker
      BY Counts DEF GoesOn
    <3>2. \/ Cardinality(At(OnWorker)') = Cardinality(At(OnWorker))
          \/ Cardinality(At(OnWorker)') = Cardinality(At(OnWorker)) - 1
      <4>1. /\ (req[r].pc \in OnWorker <=> rec.pc \in OnWorker) =>
                   Cardinality(At(OnWorker)') = Cardinality(At(OnWorker))
            /\ req[r].pc \in OnWorker /\ rec.pc \notin OnWorker =>
                   Cardinality(At(OnWorker)') = Cardinality(At(OnWorker)) - 1
        BY <1>1, AtMoved
      <4>2. QED BY <3>1, <4>1
    <3>3. QED BY <3>1, <3>2
  <2>2. Cardinality(At(OnWorker)) \in Nat /\ Cardinality(At(OnWorker)') \in Nat
    <3>1. At(OnWorker)' \in SUBSET Requests
      BY DEF At
    <3>2. QED BY <3>1, Counts, Countable
  <2>3. QED BY <1>2, <2>1, <2>2 DEF WorkersSuffice, RouteIInv
<1>7. SlotsLeaveOver'
  <2>1. /\ Cardinality(At(Waits)) \in Nat /\ Cardinality(At(Waits)') \in Nat
        /\ Cardinality(At(Held)) \in Nat /\ Cardinality(At(OnWorker)) \in Nat
    <3>1. At(Waits)' \in SUBSET Requests
      BY DEF At
    <3>2. QED BY <3>1, Counts, Countable
  <2>2. CASE rec.pc \in Waits => req[r].pc \in Waits
    <3>1. Cardinality(At(Waits)') <= Cardinality(At(Waits))
      <4>1. /\ (req[r].pc \in Waits <=> rec.pc \in Waits) =>
                   Cardinality(At(Waits)') = Cardinality(At(Waits))
            /\ req[r].pc \in Waits /\ rec.pc \notin Waits =>
                   Cardinality(At(Waits)') = Cardinality(At(Waits)) - 1
        BY <1>1, AtMoved
      <4>2. QED BY <2>1, <2>2, <4>1
    <3>2. QED BY <1>2, <2>1, <3>1 DEF SlotsLeaveOver, RouteIInv
  <2>3. CASE rec.pc \in Waits /\ req[r].pc \notin Waits
    <3>1. Cardinality(At(Held)') + Cardinality(At(Waits)') <= Cardinality(At(OnWorker)')
      <4>1. /\ At(Held)' \cup At(Waits)' \in SUBSET (At(OnWorker)')
            /\ At(Held)' \cap At(Waits)' = {}
        BY DEF At, Held, Waits, OnWorker
      <4>2. IsFiniteSet(At(Held)') /\ IsFiniteSet(At(Waits)') /\ IsFiniteSet(At(OnWorker)')
        <5>1. /\ At(Held)' \in SUBSET Requests /\ At(Waits)' \in SUBSET Requests
              /\ At(OnWorker)' \in SUBSET Requests
          BY DEF At
        <5>2. QED BY <5>1, Countable
      <4>3. Cardinality(At(Held)' \cup At(Waits)') =
                Cardinality(At(Held)') + Cardinality(At(Waits)')
                    - Cardinality(At(Held)' \cap At(Waits)')
        BY <4>2, FS_Union
      <4>4. Cardinality(At(Held)' \cap At(Waits)') = 0
        BY <4>1, FS_EmptySet
      <4>5. Cardinality(At(Held)' \cup At(Waits)') <= Cardinality(At(OnWorker)')
        BY <4>1, <4>2, FS_Subset
      <4>6. /\ Cardinality(At(Held)') \in Nat /\ Cardinality(At(Waits)') \in Nat
            /\ Cardinality(At(OnWorker)') \in Nat
        BY <4>2, FS_CardinalityType
      <4>7. QED BY <4>3, <4>4, <4>5, <4>6
    <3>2. Cardinality(At(OnWorker)') \in Nat /\ Cardinality(At(OnWorker)') <= Workers
      <4>1. At(OnWorker)' \in SUBSET Requests
        BY DEF At
      <4>2. QED BY <4>1, <1>6, Countable DEF WorkersSuffice
    <3>3. Cardinality(At(Held)') = gate'.active /\ gate'.active >= Slots
      <4>1. rec.pc \notin Held /\ gate.active >= Slots /\ req[r].pc \notin Held
        BY <2>3 DEF GoesOn, Held, Waits
      <4>2. gate'.active = gate.active
        BY <4>1 DEF GateFollows
      <4>3. QED BY <1>3, <4>1, <4>2 DEF GateExact, Held
    <3>4. Cardinality(At(Held)') \in Nat /\ Cardinality(At(Held)') >= Slots
      <4>1. At(Held)' \in SUBSET Requests
        BY DEF At
      <4>2. QED BY <3>3, <4>1, Countable
    <3>5. Cardinality(At(Waits)') <= Workers - Slots
      BY <1>2, <2>1, <3>1, <3>2, <3>4
    <3>6. QED BY <3>5 DEF SlotsLeaveOver
  <2>4. QED BY <2>2, <2>3
<1>8. OverflowTypeOK' /\ LedgerSound' /\ CommitmentsBounded'
  BY <1>7, CommitmentsFollow
<1>9. RouteTyped'
  BY <1>1, <1>8 DEF RouteIInv, RouteTyped, GoesOn, GateFollows
<1>10. QED BY <1>3, <1>4, <1>5, <1>6, <1>7, <1>8, <1>9 DEF RouteIInv

-----------------------------------------------------------------------------
\* What the invariant says of one request that a worker carries.
LEMMA OfOne ==
    ASSUME RouteIInv, NEW r \in Requests
    PROVE  /\ req[r] \in Request /\ req[r].queued \in BOOLEAN /\ Placed(req[r])
           /\ gate \in [active : Nat, waiting : Nat] /\ gate.active <= Slots
           /\ haveKey \in BOOLEAN
           /\ req[r].pc \in Held => gate.active > 0
           /\ req[r].queued => gate.waiting > 0
<1>1. /\ req[r] \in Request /\ gate \in [active : Nat, waiting : Nat] /\ gate.active <= Slots
      /\ Placed(req[r]) /\ haveKey \in BOOLEAN
  BY DEF RouteIInv, RouteTyped, OverflowTypeOK, EachPlaced
<1>2. req[r].queued \in BOOLEAN
  BY <1>1 DEF Request
<1>3. gate.active = Cardinality(At(Held)) /\ gate.waiting = Cardinality(Queued)
  BY DEF RouteIInv, GateExact, Held
<1>4. ASSUME req[r].pc \in Held PROVE gate.active > 0
  <2>1. r \in At(Held) /\ At(Held) \in SUBSET Requests
    BY <1>4 DEF At
  <2>2. Cardinality(At(Held)) # 0
    BY <2>1, Countable, FS_EmptySet
  <2>3. QED BY <1>1, <1>3, <2>2
<1>5. ASSUME req[r].queued PROVE gate.waiting > 0
  <2>1. r \in Queued /\ Queued \in SUBSET Requests
    BY <1>5 DEF Queued
  <2>2. Cardinality(Queued) # 0
    BY <2>1, Countable, FS_EmptySet
  <2>3. QED BY <1>1, <1>3, <2>2
<1>6. QED BY <1>1, <1>2, <1>4, <1>5

\* A request that goes to another place of the route, with the gate as it is.
LEMMA GotoKeeps ==
    ASSUME RouteIInv, NEW r \in Requests, NEW pc \in OnWorker, Goto(r, pc),
           req[r].pc \in OnWorker, req[r].pc \in Held <=> pc \in Held,
           req[r].queued => pc \in InLine \cup {"trying", "admitted"},
           pc \in InLine \cup {"admitted"} => req[r].queued,
           pc \in Waits => \/ req[r].pc \in Waits
                           \/ req[r].pc \notin Held /\ gate.active >= Slots,
           UNCHANGED <<gate, backlog, gone, starts, today>>, haveKey' \in BOOLEAN,
           \/ /\ UNCHANGED <<ovf, daySpend>>
              /\ pc \in Borrowing => req[r].pc \in Borrowing
           \/ /\ ovf' = Consulted
              /\ UNCHANGED daySpend
              /\ pc \in Borrowing => ~CapReached(RollDay(ovf))
           \/ /\ req[r].pc \in Borrowing /\ pc \notin Borrowing
              /\ \E charge \in 0..MaxCharge : NoteSpend(charge)
    PROVE  RouteIInv'
<1> DEFINE rec == [req[r] EXCEPT !.pc = pc]
<1>1. /\ rec \in Request /\ rec.pc = pc /\ rec.queued = req[r].queued
      /\ req' = [req EXCEPT ![r] = rec]
  <2>1. req[r] \in Request
    BY OfOne
  <2>2. QED BY <2>1 DEF Request, Goto
<1> HIDE DEF rec
<1>2. GoesOn(r, rec)
  BY <1>1 DEF GoesOn, Placed
<1>3. GateFollows(r, rec)
  BY <1>1, OfOne DEF GateFollows
<1>4. LedgerFollows(r, rec)
  BY <1>1 DEF LedgerFollows
<1>5. QED BY <1>1, <1>2, <1>3, <1>4, GoingOnKeeps

\* A request that ends, on whatever way out of the route.
LEMMA DoneKeeps ==
    ASSUME RouteIInv, NEW r \in Requests,
           NEW how \in {"local", "shared", "gone", "refused"}, Done(r, how),
           req[r].pc \in OnWorker,
           gate' = [active |-> IF req[r].pc \in Held THEN gate.active - 1 ELSE gate.active,
                    waiting |-> IF req[r].queued THEN gate.waiting - 1 ELSE gate.waiting],
           UNCHANGED <<backlog, gone, starts, ovfVars>>
    PROVE  RouteIInv'
<1> DEFINE rec == [NotArrived EXCEPT !.pc = "done", !.outcome = how]
<1>1. /\ rec \in Request /\ rec.pc = "done" /\ rec.queued = FALSE
      /\ req' = [req EXCEPT ![r] = rec]
  BY DEF Request, Done, NotArrived
<1> HIDE DEF rec
<1>2. UNCHANGED <<ovf, daySpend, today, haveKey>>
  BY DEF ovfVars
<1>3. GoesOn(r, rec)
  BY <1>1, <1>2, OfOne DEF GoesOn, Placed, InLine, Waits
<1>4. GateFollows(r, rec)
  <2>1. rec.pc \notin Held
    BY <1>1 DEF Held
  <2>2. /\ gate.active \in Nat /\ gate.waiting \in Nat /\ gate.active <= Slots
        /\ req[r].queued \in BOOLEAN /\ Slots \in Nat
        /\ req[r].pc \in Held => gate.active > 0
        /\ req[r].queued => gate.waiting > 0
    BY OfOne, ChatAssumption
  <2>3. /\ gate'.active = IF req[r].pc \in Held THEN gate.active - 1 ELSE gate.active
        /\ gate'.waiting = IF req[r].queued THEN gate.waiting - 1 ELSE gate.waiting
        /\ gate' \in [active : Nat, waiting : Nat]
    BY <2>2
  <2>4. QED BY <1>1, <2>1, <2>2, <2>3 DEF GateFollows
<1>5. LedgerFollows(r, rec)
  BY <1>1, <1>2 DEF LedgerFollows, Borrowing
<1>6. QED BY <1>1, <1>3, <1>4, <1>5, GoingOnKeeps

\* Every step of a request that a worker carries keeps the invariant.
LEMMA ThreadKeeps ==
    ASSUME RouteIInv, NEW r \in Requests, Thread(r) \/ Platform(r) \/ EngineEnds(r)
    PROVE  RouteIInv'
<1>1. /\ req[r] \in Request /\ req[r].queued \in BOOLEAN /\ Placed(req[r])
      /\ gate \in [active : Nat, waiting : Nat] /\ gate.active <= Slots
      /\ haveKey \in BOOLEAN
      /\ req[r].pc \in Held => gate.active > 0
      /\ req[r].queued => gate.waiting > 0
      /\ Slots \in Nat
  BY OfOne, ChatAssumption
<1>2. CASE Tokenize(r)
  <2>1. CASE Goto(r, "trying")
    BY <1>1, <1>2, <2>1, GotoKeeps
       DEF Tokenize, OnWorker, Waits, InLine, Held, Borrowing, ovfVars
  <2>2. CASE Done(r, "refused")
    BY <1>1, <1>2, <2>2, DoneKeeps
       DEF Tokenize, Placed, OnWorker, Waits, InLine, Held, ovfVars
  <2>3. QED BY <1>2, <2>1, <2>2 DEF Tokenize
<1>3. CASE Acquire(r)
  <2> DEFINE pc == IF req[r].queued THEN "admitted" ELSE "serving"
             rec == [req[r] EXCEPT !.pc = pc]
  <2>1. /\ rec \in Request /\ rec.pc = pc /\ rec.queued = req[r].queued
        /\ req' = [req EXCEPT ![r] = rec]
    BY <1>1, <1>3 DEF Request, Goto, Acquire, OnWorker
  <2> HIDE DEF rec
  <2>2. GoesOn(r, rec)
    BY <1>1, <1>3, <2>1 DEF GoesOn, Acquire, Placed, OnWorker, Waits, InLine, ovfVars
  <2>3. gate' = [active |-> gate.active + 1, waiting |-> gate.waiting] /\ gate.active < Slots
    BY <1>1, <1>3 DEF Acquire
  <2>4. GateFollows(r, rec)
    BY <1>1, <1>3, <2>1, <2>3 DEF GateFollows, Acquire, Held
  <2>5. LedgerFollows(r, rec)
    BY <1>3, <2>1 DEF LedgerFollows, Acquire, ovfVars, Borrowing
  <2>6. QED BY <2>1, <2>2, <2>4, <2>5, GoingOnKeeps
<1>4. CASE Admitted(r)
  <2> DEFINE rec == [req[r] EXCEPT !.pc = "serving", !.queued = FALSE]
  <2>1. /\ rec \in Request /\ rec.pc = "serving" /\ rec.queued = FALSE
        /\ req' = [req EXCEPT ![r] = rec]
    BY <1>1, <1>4 DEF Request, Admitted, OnWorker
  <2> HIDE DEF rec
  <2>2. GoesOn(r, rec)
    BY <1>1, <1>4, <2>1 DEF GoesOn, Admitted, Placed, OnWorker, Waits, InLine, ovfVars
  <2>3. /\ gate' = [active |-> gate.active, waiting |-> gate.waiting - 1]
        /\ gate.waiting > 0 /\ req[r].queued
    BY <1>1, <1>4 DEF Admitted, WaiterRemoved, Placed
  <2>4. GateFollows(r, rec)
    BY <1>1, <1>4, <2>1, <2>3 DEF GateFollows, Admitted, Held
  <2>5. LedgerFollows(r, rec)
    BY <1>4, <2>1 DEF LedgerFollows, Admitted, ovfVars, Borrowing
  <2>6. QED BY <2>1, <2>2, <2>4, <2>5, GoingOnKeeps
<1>5. CASE Busy(r)
  BY <1>1, <1>5, GotoKeeps DEF Busy, Placed, OnWorker, Waits, InLine, Held, Borrowing, ovfVars
<1>6. CASE Queue(r)
  <2> DEFINE rec == [req[r] EXCEPT !.pc = "polling", !.queued = TRUE]
  <2>1. /\ rec \in Request /\ rec.pc = "polling" /\ rec.queued = TRUE
        /\ req' = [req EXCEPT ![r] = rec]
    BY <1>1, <1>6 DEF Request, Queue, OnWorker, Waits
  <2> HIDE DEF rec
  <2>2. GoesOn(r, rec)
    BY <1>1, <1>6, <2>1 DEF GoesOn, Queue, Placed, OnWorker, Waits, InLine, ovfVars
  <2>3. /\ gate' = [active |-> gate.active, waiting |-> gate.waiting + 1]
        /\ ~req[r].queued
    BY <1>1, <1>6 DEF Queue, Placed, InLine
  <2>4. GateFollows(r, rec)
    BY <1>1, <1>6, <2>1, <2>3 DEF GateFollows, Queue, Held
  <2>5. LedgerFollows(r, rec)
    BY <1>6, <2>1 DEF LedgerFollows, Queue, ovfVars, Borrowing
  <2>6. QED BY <2>1, <2>2, <2>4, <2>5, GoingOnKeeps
<1>7. CASE LeaveQueue(r)
  <2>1. /\ req[r].pc \in OnWorker /\ req[r].pc \notin Held /\ req[r].queued
    BY <1>1, <1>7 DEF LeaveQueue, Placed, OnWorker, Waits, InLine, Held
  <2>2. gate' = [active |-> gate.active, waiting |-> gate.waiting - 1]
    BY <1>1, <1>7, <2>1 DEF LeaveQueue, WaiterRemoved
  <2>3. QED BY <1>7, <2>1, <2>2, DoneKeeps DEF LeaveQueue
<1>8. CASE Estimate(r)
  <2> DEFINE rec == [req[r] EXCEPT !.pc = "asking", !.ahead = Ahead]
  <2>1. Ahead \in Nat
    BY <1>1 DEF Ahead
  <2>2. /\ rec \in Request /\ rec.pc = "asking" /\ rec.queued = req[r].queued
        /\ req' = [req EXCEPT ![r] = rec]
    BY <1>1, <1>8, <2>1 DEF Request, Estimate, OnWorker, Waits
  <2> HIDE DEF rec
  <2>3. GoesOn(r, rec)
    BY <1>1, <1>8, <2>2 DEF GoesOn, Estimate, Placed, OnWorker, Waits, InLine, ovfVars
  <2>4. GateFollows(r, rec)
    BY <1>1, <1>8, <2>2 DEF GateFollows, Estimate, Held
  <2>5. LedgerFollows(r, rec)
    BY <1>8, <2>2 DEF LedgerFollows, Estimate, ovfVars, Borrowing
  <2>6. QED BY <2>2, <2>3, <2>4, <2>5, GoingOnKeeps
<1>9. CASE AskOrigin(r)
  BY <1>1, <1>9, GotoKeeps
     DEF AskOrigin, Placed, OnWorker, Waits, InLine, Held, Borrowing, ovfVars
<1>10. CASE Decide(r)
  <2>1. Budgeted(req[r].ahead) => ~CapReached(RollDay(ovf))
    BY DEF Budgeted
  <2>2. QED BY <1>1, <1>10, <2>1, GotoKeeps
            DEF Decide, Placed, OnWorker, Waits, InLine, Held, Borrowing
<1>11. CASE Open(r)
  BY <1>1, <1>11, GotoKeeps
     DEF Open, Placed, OnWorker, Waits, InLine, Held, Borrowing, ovfVars
<1>12. CASE EnsureKey(r)
  BY <1>1, <1>12, GotoKeeps DEF EnsureKey, Placed, OnWorker, Waits, InLine, Held, Borrowing
<1>13. CASE Send(r)
  BY <1>1, <1>13, GotoKeeps
     DEF Send, Placed, OnWorker, Waits, InLine, Held, Borrowing, ovfVars
<1>14. CASE NotServed(r)
  BY <1>1, <1>14, GotoKeeps
     DEF NotServed, Placed, OnWorker, Waits, InLine, Held, Borrowing, ovfVars
<1>15. CASE \E charge \in 0..MaxCharge : Answered(r, charge)
  BY <1>1, <1>15, GotoKeeps
     DEF Answered, Placed, OnWorker, Waits, InLine, Held, Borrowing
<1>16. CASE Reply(r)
  <2>1. /\ req[r].pc \in OnWorker /\ req[r].pc \notin Held /\ req[r].queued
    BY <1>1, <1>16 DEF Reply, Placed, OnWorker, Waits, InLine, Held
  <2>2. CASE WaiterRemoved /\ Done(r, "shared")
    <3>1. gate' = [active |-> gate.active, waiting |-> gate.waiting - 1]
      BY <1>1, <2>1, <2>2 DEF WaiterRemoved
    <3>2. QED BY <1>16, <2>1, <2>2, <3>1, DoneKeeps DEF Reply
  <2>3. CASE Goto(r, "pausing") /\ UNCHANGED gate
    BY <1>1, <1>16, <2>1, <2>3, GotoKeeps
       DEF Reply, OnWorker, Waits, InLine, Held, Borrowing, ovfVars
  <2>4. QED BY <1>16, <2>2, <2>3 DEF Reply
<1>17. CASE Wake(r)
  BY <1>1, <1>17, GotoKeeps
     DEF Wake, Placed, OnWorker, Waits, InLine, Held, Borrowing, ovfVars
<1>18. CASE EngineEnds(r)
  BY <1>1, <1>18, GotoKeeps
     DEF EngineEnds, Placed, OnWorker, Waits, InLine, Held, Borrowing, ovfVars
<1>19. CASE Release(r)
  <2>1. /\ req[r].pc \in OnWorker /\ req[r].pc \in Held /\ ~req[r].queued
    BY <1>1, <1>19 DEF Release, Placed, OnWorker, Waits, InLine, Held
  <2>2. gate' = [active |-> gate.active - 1, waiting |-> gate.waiting]
    BY <1>1, <1>19, <2>1 DEF Release
  <2>3. QED BY <1>19, <2>1, <2>2, DoneKeeps DEF Release
<1>20. QED
  BY <1>2, <1>3, <1>4, <1>5, <1>6, <1>7, <1>8, <1>9, <1>10, <1>11, <1>12, <1>13, <1>14, <1>15,
     <1>16, <1>17, <1>18, <1>19 DEF Thread, Platform, Cancelled, Abandoned

-----------------------------------------------------------------------------
\* A request that no worker carries, before and after, counts for nothing but its place in the
\* hand-off queue.
LEMMA Uncounted ==
    ASSUME RouteIInv, NEW r \in Requests, NEW rec \in Request, req' = [req EXCEPT ![r] = rec],
           req[r].pc \notin OnWorker, rec.pc \notin OnWorker, ~req[r].queued, ~rec.queued
    PROVE  /\ \A S \in {Held, Waits, OnWorker, Borrowing} : At(S)' = At(S)
           /\ Queued' = Queued
<1>1. req \in [Requests -> Request]
  BY DEF RouteIInv, RouteTyped
<1>2. \A S \in {Held, Waits, OnWorker, Borrowing} : S \subseteq OnWorker
  BY DEF Held, Waits, OnWorker, Borrowing
<1>3. ASSUME NEW S \in {Held, Waits, OnWorker, Borrowing}, NEW q \in Requests
      PROVE  q \in At(S)' <=> q \in At(S)
  BY <1>1, <1>2, <1>3 DEF At
<1>4. \A S \in {Held, Waits, OnWorker, Borrowing} : At(S)' = At(S)
  <2>1. \A S : At(S) \subseteq Requests /\ At(S)' \subseteq Requests
    BY DEF At
  <2>2. QED BY <1>3, <2>1
<1>5. Queued' = Queued
  BY <1>1 DEF Queued
<1>6. QED BY <1>4, <1>5

\* A connection is handed to the pool.
LEMMA ArriveKeeps == ASSUME RouteIInv, NEW r \in Requests, Arrive(r) PROVE RouteIInv'
<1>1. PICK from \in Provenance :
          req' = [req EXCEPT ![r] = [NotArrived EXCEPT !.pc = "backlog", !.from = from]]
  BY DEF Arrive
<1> DEFINE rec == [NotArrived EXCEPT !.pc = "backlog", !.from = from]
<1>2. /\ rec \in Request /\ rec.pc = "backlog" /\ rec.queued = FALSE
      /\ req' = [req EXCEPT ![r] = rec]
  BY <1>1, ChatAssumption DEF Request, NotArrived
<1> HIDE DEF rec
<1>3. /\ req \in [Requests -> Request] /\ req[r].pc = "away" /\ ~req[r].queued
      /\ backlog \in Seq(Requests) /\ backlog' = Append(backlog, r)
      /\ UNCHANGED <<gate, gone, starts, ovf, haveKey, today, daySpend>>
  <2>1. Placed(req[r]) /\ req[r].pc = "away"
    BY OfOne DEF Arrive
  <2>2. QED BY <2>1 DEF RouteIInv, RouteTyped, Arrive, Placed, ovfVars, InLine, Waits
<1>4. /\ At(Held)' = At(Held) /\ At(Waits)' = At(Waits) /\ At(OnWorker)' = At(OnWorker)
      /\ At(Borrowing)' = At(Borrowing) /\ Queued' = Queued
  BY <1>2, <1>3, Uncounted DEF OnWorker, Waits
<1>5. BacklogSound'
  <2>1. \A i \in 1..Len(backlog) : backlog[i] \in Requests /\ req[backlog[i]].pc = "backlog"
    BY <1>3 DEF RouteIInv, BacklogSound
  <2>2. /\ Len(backlog') = Len(backlog) + 1 /\ backlog'[Len(backlog) + 1] = r
        /\ \A i \in 1..Len(backlog) : backlog'[i] = backlog[i] /\ backlog[i] # r
    BY <1>3, <2>1
  <2>3. Len(backlog) \in Nat
    BY <1>3
  <2>4. \A i \in 1..Len(backlog') : i \in 1..Len(backlog) \/ i = Len(backlog) + 1
    BY <2>2, <2>3
  <2>5. \A i \in 1..Len(backlog') : req'[backlog'[i]].pc = "backlog"
    BY <1>2, <1>3, <2>1, <2>2, <2>4
  <2>6. \A i, j \in 1..Len(backlog') : backlog'[i] = backlog'[j] => i = j
    BY <2>2, <2>4 DEF RouteIInv, BacklogSound
  <2>7. QED BY <2>5, <2>6 DEF BacklogSound
<1>6. EachPlaced'
  BY <1>2, <1>3 DEF RouteIInv, EachPlaced, Placed, InLine, Waits
<1>7. RouteTyped'
  BY <1>2, <1>3 DEF RouteIInv, RouteTyped, OverflowTypeOK
<1>8. GateExact' /\ gate'.active <= Slots
  BY <1>3, <1>4 DEF RouteIInv, GateExact, Held
<1>9. WorkersSuffice' /\ SlotsLeaveOver'
  BY <1>4 DEF RouteIInv, WorkersSuffice, SlotsLeaveOver
<1>10. LedgerSound' /\ CommitmentsBounded'
  BY <1>3, <1>4 DEF RouteIInv, LedgerSound, LedgerExact, CommitmentsBounded, Committed, RollDay
<1>11. QED BY <1>5, <1>6, <1>7, <1>8, <1>9, <1>10 DEF RouteIInv

\* A worker takes the first of the queue: it is there once, so no other place of it is left.
LEMMA TakeUpKeeps == ASSUME RouteIInv, TakeUp PROVE RouteIInv'
<1> DEFINE r == Head(backlog)
           rec == [req[r] EXCEPT !.pc = "tokenizing"]
<1>1. /\ req \in [Requests -> Request] /\ backlog \in Seq(Requests) /\ backlog # <<>>
      /\ r \in Requests /\ r = backlog[1] /\ req[r].pc = "backlog"
      /\ Len(backlog) \in Nat /\ Len(backlog) >= 1
  <2>1. backlog \in Seq(Requests) /\ backlog # <<>> /\ req \in [Requests -> Request]
    BY DEF RouteIInv, RouteTyped, TakeUp
  <2>2. r \in Requests /\ r = backlog[1] /\ Len(backlog) \in Nat /\ Len(backlog) >= 1
    BY <2>1
  <2>3. QED BY <2>1, <2>2 DEF RouteIInv, BacklogSound
<1>2. /\ rec \in Request /\ rec.pc = "tokenizing" /\ rec.queued = FALSE
      /\ req' = [req EXCEPT ![r] = rec] /\ req[r].queued = FALSE
  <2>1. req[r] \in Request /\ Placed(req[r]) /\ req[r].queued \in BOOLEAN
    BY <1>1, OfOne
  <2>2. req[r].queued = FALSE
    BY <1>1, <2>1 DEF Placed, InLine, Waits
  <2>3. rec \in Request /\ rec.pc = "tokenizing" /\ rec.queued = req[r].queued
    BY <2>1 DEF Request, OnWorker
  <2>4. req' = [req EXCEPT ![r] = rec]
    BY <1>1 DEF TakeUp, Goto
  <2>5. QED BY <2>2, <2>3, <2>4
<1>3. /\ UNCHANGED <<gate, gone, starts, ovf, haveKey, today, daySpend>>
      /\ Cardinality(At(OnWorker)) < Workers /\ backlog' = Tail(backlog)
  BY DEF TakeUp, ovfVars
<1> HIDE DEF rec, r
<1>4. /\ Cardinality(At(Held)') = Cardinality(At(Held))
      /\ Cardinality(At(Waits)') = Cardinality(At(Waits))
      /\ Cardinality(At(Borrowing)') = Cardinality(At(Borrowing))
      /\ Cardinality(Queued') = Cardinality(Queued)
      /\ Cardinality(At(OnWorker)') = Cardinality(At(OnWorker)) + 1
  <2>1. Cardinality(At(Held)') = Cardinality(At(Held))
    <3>1. req[r].pc \in Held <=> rec.pc \in Held
      BY <1>1, <1>2 DEF Held
    <3>2. QED BY <1>1, <1>2, <3>1, AtMoved
  <2>2. Cardinality(At(Waits)') = Cardinality(At(Waits))
    <3>1. req[r].pc \in Waits <=> rec.pc \in Waits
      BY <1>1, <1>2 DEF Waits
    <3>2. QED BY <1>1, <1>2, <3>1, AtMoved
  <2>3. Cardinality(At(Borrowing)') = Cardinality(At(Borrowing))
    <3>1. req[r].pc \in Borrowing <=> rec.pc \in Borrowing
      BY <1>1, <1>2 DEF Borrowing
    <3>2. QED BY <1>1, <1>2, <3>1, AtMoved
  <2>4. Cardinality(At(OnWorker)') = Cardinality(At(OnWorker)) + 1
    <3>1. req[r].pc \notin OnWorker /\ rec.pc \in OnWorker
      BY <1>1, <1>2 DEF OnWorker, Waits
    <3>2. QED BY <1>1, <1>2, <3>1, AtMoved
  <2>5. Cardinality(Queued') = Cardinality(Queued)
    BY <1>1, <1>2, QueuedMoved
  <2>6. QED BY <2>1, <2>2, <2>3, <2>4, <2>5
<1>5. BacklogSound'
  <2>1. \A i \in 1..Len(backlog) : backlog[i] \in Requests /\ req[backlog[i]].pc = "backlog"
    BY <1>1 DEF RouteIInv, BacklogSound
  <2>2. \A i, j \in 1..Len(backlog) : backlog[i] = backlog[j] => i = j
    BY DEF RouteIInv, BacklogSound
  <2>3. /\ Len(backlog') = Len(backlog) - 1
        /\ \A i \in 1..Len(backlog') : backlog'[i] = backlog[i + 1]
    BY <1>1, <1>3
  <2>4. \A i \in 1..Len(backlog') : i + 1 \in 1..Len(backlog) /\ i + 1 # 1
    BY <1>1, <2>3
  <2>5. \A i \in 1..Len(backlog') : backlog'[i] \in Requests /\ backlog'[i] # r
    BY <1>1, <2>1, <2>2, <2>3, <2>4
  <2>6. \A i \in 1..Len(backlog') : req'[backlog'[i]].pc = "backlog"
    <3>1. ASSUME NEW i \in 1..Len(backlog') PROVE req'[backlog'[i]].pc = "backlog"
      <4>1. req'[backlog'[i]] = req[backlog'[i]]
        BY <1>1, <1>2, <2>5
      <4>2. QED BY <2>1, <2>3, <2>4, <4>1
    <3>2. QED BY <3>1
  <2>7. \A i, j \in 1..Len(backlog') : backlog'[i] = backlog'[j] => i = j
    <3>1. ASSUME NEW i \in 1..Len(backlog'), NEW j \in 1..Len(backlog'), backlog'[i] = backlog'[j]
          PROVE  i = j
      <4>1. i + 1 = j + 1
        BY <2>2, <2>3, <2>4, <3>1
      <4>2. QED BY <4>1
    <3>2. QED BY <3>1
  <2>8. QED BY <2>6, <2>7 DEF BacklogSound
<1>6. EachPlaced'
  BY <1>1, <1>2 DEF RouteIInv, EachPlaced, Placed, InLine, Waits
<1>7. RouteTyped'
  BY <1>1, <1>2, <1>3 DEF RouteIInv, RouteTyped, OverflowTypeOK
<1>8. GateExact' /\ gate'.active <= Slots
  BY <1>3, <1>4 DEF RouteIInv, GateExact, Held
<1>9. WorkersSuffice' /\ SlotsLeaveOver'
  BY <1>3, <1>4, Counts, ChatAssumption DEF RouteIInv, WorkersSuffice, SlotsLeaveOver
<1>10. LedgerSound' /\ CommitmentsBounded'
  BY <1>3, <1>4 DEF RouteIInv, LedgerSound, LedgerExact, CommitmentsBounded, Committed, RollDay
<1>11. QED BY <1>5, <1>6, <1>7, <1>8, <1>9, <1>10 DEF RouteIInv

-----------------------------------------------------------------------------
\* Steps that touch neither the requests nor the gate: what the invariant says of them stays.
LEMMA SameRequests ==
    ASSUME RouteIInv, UNCHANGED <<backlog, gate, req, starts>>, gone' \subseteq Requests,
           OverflowTypeOK', LedgerSound', CommitmentsBounded'
    PROVE  RouteIInv'
<1>1. \A S : At(S)' = At(S)
  BY DEF At
<1>2. Queued' = Queued
  BY DEF Queued
<1>3. GateExact' /\ gate'.active <= Slots /\ WorkersSuffice' /\ SlotsLeaveOver'
  BY <1>1, <1>2 DEF RouteIInv, GateExact, WorkersSuffice, SlotsLeaveOver
<1>4. EachPlaced' /\ BacklogSound' /\ RouteTyped'
  BY DEF RouteIInv, EachPlaced, BacklogSound, RouteTyped
<1>5. QED BY <1>3, <1>4 DEF RouteIInv

\* A client hangs up.
LEMMA HangUpKeeps == ASSUME RouteIInv, NEW r \in Requests, HangUp(r) PROVE RouteIInv'
<1>1. /\ UNCHANGED <<backlog, gate, req, starts, ovf, haveKey, today, daySpend>>
      /\ gone' \subseteq Requests
  BY DEF HangUp, RouteIInv, RouteTyped, ovfVars
<1>2. At(Borrowing)' = At(Borrowing)
  BY <1>1 DEF At
<1>3. OverflowTypeOK' /\ LedgerSound' /\ CommitmentsBounded'
  BY <1>1, <1>2 DEF RouteIInv, RouteTyped, OverflowTypeOK, LedgerSound, LedgerExact,
                    CommitmentsBounded, Committed, RollDay
<1>4. QED BY <1>1, <1>3, SameRequests

\* What is out costs no more than the workers that the slots leave over may be billed for.
LEMMA NothingSpent ==
    ASSUME RouteIInv
    PROVE  /\ Cardinality(At(Borrowing)) * MaxCharge \in Nat
           /\ Cardinality(At(Borrowing)) * MaxCharge <= (Workers - Slots) * MaxCharge
           /\ (Workers - Slots) * MaxCharge \in Nat
<1>1. /\ Workers - Slots \in Nat /\ MaxCharge \in Nat
      /\ Cardinality(At(Borrowing)) \in Nat /\ Cardinality(At(Waits)) \in Nat
  BY ChatAssumption, Counts
<1>2. Cardinality(At(Borrowing)) <= Workers - Slots
  BY <1>1, BorrowersWait DEF RouteIInv, SlotsLeaveOver
<1>3. QED BY <1>1, <1>2, CostsMore

\* The switch, the key and the clock.
LEMMA OverflowStepKeeps ==
    ASSUME RouteIInv, OverflowStep, UNCHANGED routeVars
    PROVE  RouteIInv'
<1>1. /\ UNCHANGED <<backlog, gate, req, starts, gone>> /\ gone \subseteq Requests
      /\ OverflowTypeOK /\ starts >= 1 /\ ovf.day <= today
      /\ starts = 1 => RollDay(ovf).spent = daySpend
      /\ DailyCap > 0 => RollDay(ovf).spent + Cardinality(At(Borrowing)) * MaxCharge
                             <= DailyCap - 1 + (Workers - Slots) * MaxCharge
  BY DEF routeVars, RouteIInv, RouteTyped, LedgerSound, LedgerExact, CommitmentsBounded, Committed
<1>2. At(Borrowing)' = At(Borrowing)
  BY <1>1 DEF At
<1>3. /\ ovf \in [on : BOOLEAN, spent : Nat, day : Nat] /\ haveKey \in BOOLEAN
      /\ today \in Nat /\ daySpend \in Nat
  BY <1>1 DEF OverflowTypeOK
<1>4. ASSUME UNCHANGED <<today, daySpend>>, haveKey' \in BOOLEAN,
             \E on \in BOOLEAN : ovf' = [ovf EXCEPT !.on = on]
      PROVE  OverflowTypeOK' /\ LedgerSound' /\ CommitmentsBounded'
  <2>1. /\ ovf' \in [on : BOOLEAN, spent : Nat, day : Nat]
        /\ ovf'.spent = ovf.spent /\ ovf'.day = ovf.day
    BY <1>3, <1>4
  <2>2. RollDay(ovf)'.spent = RollDay(ovf).spent
    BY <1>3, <1>4, <2>1 DEF RollDay
  <2>3. QED BY <1>1, <1>2, <1>3, <1>4, <2>1, <2>2
            DEF OverflowTypeOK, LedgerSound, LedgerExact, CommitmentsBounded, Committed
<1>5. CASE SwitchOff \/ SwitchOn
  <2>1. \E on \in BOOLEAN : ovf' = [ovf EXCEPT !.on = on]
    BY <1>5 DEF SwitchOff, SwitchOn
  <2>2. QED BY <1>1, <1>3, <1>4, <1>5, <2>1, SameRequests DEF SwitchOff, SwitchOn
<1>6. CASE KeyExpires
  <2>1. ovf' = [ovf EXCEPT !.on = ovf.on] /\ ovf.on \in BOOLEAN
    BY <1>3, <1>6 DEF KeyExpires
  <2>2. QED BY <1>1, <1>3, <1>4, <1>6, <2>1, SameRequests DEF KeyExpires
<1>7. CASE Midnight
  <2>1. /\ ovf' = ovf /\ today' = today + 1 /\ daySpend' = 0 /\ haveKey' = haveKey
        /\ ovf'.day # today'
    BY <1>1, <1>3, <1>7 DEF Midnight
  <2>2. RollDay(ovf)'.spent = 0
    BY <1>3, <2>1 DEF RollDay
  <2>3. OverflowTypeOK' /\ LedgerSound'
    BY <1>1, <1>3, <2>1, <2>2 DEF OverflowTypeOK, LedgerSound, LedgerExact
  <2>4. CommitmentsBounded'
    BY <1>2, <2>2, NothingSpent, OverflowAssumption DEF CommitmentsBounded, Committed
  <2>5. QED BY <1>1, <2>3, <2>4, SameRequests
<1>8. QED BY <1>5, <1>6, <1>7 DEF OverflowStep

\* A ledger that starts with the process has nothing spent.
LEMMA LedgerStarts ==
    ASSUME NEW day \in Nat, NEW o \in Configured(day)
    PROVE  o \in [on : BOOLEAN, spent : Nat, day : Nat] /\ o.spent = 0 /\ o.day = day
<1>1. PICK on \in BOOLEAN : o = [on |-> on, spent |-> 0, day |-> day]
  BY DEF Configured
<1>2. QED BY <1>1

\* Nobody is on the way: nothing is counted.
LEMMA NobodyCounted ==
    ASSUME NEW f \in [Requests -> Request],
           \A r \in Requests : f[r].pc \in {"away", "done"} /\ ~f[r].queued
    PROVE  /\ \A S \in {Held, Waits, OnWorker, Borrowing} :
                  Cardinality({r \in Requests : f[r].pc \in S}) = 0
           /\ Cardinality({r \in Requests : f[r].queued}) = 0
<1>1. \A S \in {Held, Waits, OnWorker, Borrowing} : "away" \notin S /\ "done" \notin S
  BY DEF Held, Waits, OnWorker, Borrowing
<1>2. \A S \in {Held, Waits, OnWorker, Borrowing} : {r \in Requests : f[r].pc \in S} = {}
  BY <1>1
<1>3. {r \in Requests : f[r].queued} = {}
  OBVIOUS
<1>4. QED BY <1>2, <1>3, FS_EmptySet

\* The coordinator is replaced: nothing of what it kept is left.
LEMMA RestartKeeps == ASSUME RouteIInv, RouteRestart PROVE RouteIInv'
<1>1. /\ req \in [Requests -> Request] /\ EachPlaced /\ starts >= 1 /\ starts \in Nat
      /\ today \in Nat /\ daySpend \in Nat /\ gone \subseteq Requests
  BY DEF RouteIInv, RouteTyped, OverflowTypeOK, LedgerSound
<1>2. /\ req' \in [Requests -> Request]
      /\ \A r \in Requests : req'[r].pc \in {"away", "done"} /\ req'[r].queued = FALSE
  <2>1. [NotArrived EXCEPT !.pc = "done", !.outcome = "dropped"] \in Request
    BY DEF Request, NotArrived
  <2>2. \A r \in Requests : req[r] \in Request /\ req[r].queued \in BOOLEAN
    BY <1>1, OfOne
  <2>3. \A r \in Requests : req[r].pc \in {"away", "done"} => req[r].queued = FALSE
    BY <1>1, <2>2 DEF EachPlaced, Placed, InLine, Waits
  <2>4. req' = [r \in Requests |->
                  IF req[r].pc \in {"away", "done"} THEN req[r]
                  ELSE [NotArrived EXCEPT !.pc = "done", !.outcome = "dropped"]]
    BY DEF RouteRestart
  <2>5. req' \in [Requests -> Request]
    BY <2>1, <2>2, <2>4
  <2>6. QED BY <2>3, <2>4, <2>5 DEF NotArrived
<1>3. /\ backlog' = <<>> /\ gate' = [active |-> 0, waiting |-> 0] /\ starts' = starts + 1
      /\ gone' = gone /\ haveKey' = FALSE /\ today' = today /\ daySpend' = daySpend
      /\ ovf' \in [on : BOOLEAN, spent : Nat, day : Nat] /\ ovf'.spent = 0 /\ ovf'.day = today
  BY <1>1, LedgerStarts DEF RouteRestart, OverflowRestart
<1>4. /\ \A S \in {Held, Waits, OnWorker, Borrowing} : Cardinality(At(S)') = 0
      /\ Cardinality(Queued') = 0
  BY <1>2, NobodyCounted DEF At, Queued
<1>5. GateExact' /\ gate'.active <= Slots
  BY <1>3, <1>4, ChatAssumption DEF GateExact, Held
<1>6. EachPlaced'
  BY <1>2 DEF EachPlaced, Placed, InLine, Waits
<1>7. BacklogSound'
  BY <1>3 DEF BacklogSound
<1>8. WorkersSuffice' /\ SlotsLeaveOver'
  BY <1>4, ChatAssumption DEF WorkersSuffice, SlotsLeaveOver
<1>9. RollDay(ovf)'.spent = 0
  BY <1>3 DEF RollDay
<1>10. LedgerSound'
  BY <1>1, <1>3 DEF LedgerSound, LedgerExact
<1>11. CommitmentsBounded'
  <2>1. 0 * MaxCharge = 0 /\ (Workers - Slots) * MaxCharge \in Nat /\ DailyCap \in Nat
    BY ChatAssumption, OverflowAssumption, NothingSpent
  <2>2. Cardinality(At(Borrowing)') * MaxCharge = 0
    BY <1>4, <2>1
  <2>3. QED BY <1>9, <2>1, <2>2 DEF CommitmentsBounded, Committed
<1>12. RouteTyped'
  <2>1. backlog' \in Seq(Requests) /\ gate' \in [active : Nat, waiting : Nat] /\ starts' \in Nat
    BY <1>1, <1>3
  <2>2. OverflowTypeOK'
    BY <1>1, <1>3 DEF OverflowTypeOK
  <2>3. QED BY <1>1, <1>2, <1>3, <2>1, <2>2 DEF RouteTyped
<1>13. QED BY <1>5, <1>6, <1>7, <1>8, <1>10, <1>11, <1>12 DEF RouteIInv

\* A coordinator that has just started keeps the books of nobody.
LEMMA InitKeeps == RouteInit => RouteIInv
<1> SUFFICES ASSUME RouteInit PROVE RouteIInv
  OBVIOUS
<1>1. /\ backlog = <<>> /\ gate = [active |-> 0, waiting |-> 0] /\ gone = {} /\ starts = 1
      /\ today = 1 /\ haveKey = FALSE /\ daySpend = 0
      /\ ovf \in [on : BOOLEAN, spent : Nat, day : Nat] /\ ovf.spent = 0 /\ ovf.day = 1
  BY LedgerStarts DEF RouteInit, OverflowInit
<1>2. /\ req \in [Requests -> Request]
      /\ \A r \in Requests : req[r].pc \in {"away", "done"} /\ req[r].queued = FALSE
  BY DEF RouteInit, NotArrived, Request
<1>3. /\ \A S \in {Held, Waits, OnWorker, Borrowing} : Cardinality(At(S)) = 0
      /\ Cardinality(Queued) = 0
  BY <1>2, NobodyCounted DEF At, Queued
<1>4. GateExact /\ gate.active <= Slots
  BY <1>1, <1>3, ChatAssumption DEF GateExact, Held
<1>5. EachPlaced /\ BacklogSound
  BY <1>1, <1>2 DEF EachPlaced, Placed, InLine, Waits, BacklogSound
<1>6. WorkersSuffice /\ SlotsLeaveOver
  BY <1>3, ChatAssumption DEF WorkersSuffice, SlotsLeaveOver
<1>7. LedgerSound
  BY <1>1 DEF LedgerSound, LedgerExact, RollDay
<1>8. CommitmentsBounded
  <2>1. /\ 0 * MaxCharge = 0 /\ (Workers - Slots) * MaxCharge \in Nat /\ DailyCap \in Nat
        /\ RollDay(ovf).spent = 0
    <3>1. Workers - Slots \in Nat /\ MaxCharge \in Nat /\ DailyCap \in Nat
      BY ChatAssumption, OverflowAssumption
    <3>2. \A x, y \in Nat : x * y \in Nat
      OBVIOUS
    <3>3. RollDay(ovf).spent = 0
      BY <1>1 DEF RollDay
    <3>4. QED BY <3>1, <3>2, <3>3
  <2>2. Cardinality(At(Borrowing)) * MaxCharge = 0
    BY <1>3, <2>1
  <2>3. QED BY <2>1, <2>2 DEF CommitmentsBounded, Committed
<1>9. RouteTyped
  <2>1. backlog \in Seq(Requests) /\ gate \in [active : Nat, waiting : Nat] /\ starts \in Nat
    BY <1>1
  <2>2. OverflowTypeOK
    BY <1>1 DEF OverflowTypeOK
  <2>3. QED BY <1>1, <1>2, <2>1, <2>2 DEF RouteTyped
<1>10. QED BY <1>4, <1>5, <1>6, <1>7, <1>8, <1>9 DEF RouteIInv

\* No step of the route, of the platform, of a client or of the clock breaks it.
LEMMA NextKeeps == RouteIInv /\ [RouteNext]_chatVars => RouteIInv'
<1> SUFFICES ASSUME RouteIInv, [RouteNext]_chatVars PROVE RouteIInv'
  OBVIOUS
<1>1. CASE \E r \in Requests : Arrive(r) \/ HangUp(r) \/ Thread(r) \/ Platform(r) \/ EngineEnds(r)
  BY <1>1, ArriveKeeps, HangUpKeeps, ThreadKeeps
<1>2. CASE TakeUp
  BY <1>2, TakeUpKeeps
<1>3. CASE OverflowStep /\ UNCHANGED routeVars
  BY <1>3, OverflowStepKeeps
<1>4. CASE RouteRestart
  BY <1>4, RestartKeeps
<1>5. CASE UNCHANGED chatVars
  <2>1. UNCHANGED <<backlog, gate, req, gone, starts, ovf, haveKey, today, daySpend>>
    BY <1>5 DEF chatVars, routeVars, ovfVars
  <2>2. At(Borrowing)' = At(Borrowing) /\ gone \subseteq Requests
    BY <2>1 DEF At, RouteIInv, RouteTyped
  <2>3. OverflowTypeOK' /\ LedgerSound' /\ CommitmentsBounded'
    BY <2>1, <2>2 DEF RouteIInv, RouteTyped, OverflowTypeOK, LedgerSound, LedgerExact,
                      CommitmentsBounded, Committed, RollDay
  <2>4. QED BY <2>1, <2>2, <2>3, SameRequests
<1>6. QED BY <1>1, <1>2, <1>3, <1>4, <1>5 DEF RouteNext

\* The inductive invariant of the chat route: who is in line, who holds a slot, what is spent and
\* what may still be billed (coord_main.c's gate and pool, overflow.c's ledger).
THEOREM RouteCorrect == RouteSpec => []RouteIInv
BY InitKeeps, NextKeeps, PTL DEF RouteSpec

\* Every reachable state is well typed, and the gate's counters are within their widths
\* (infer_gate_try_acquire() admits no more than g_infer.slots).
THEOREM RouteTypeCorrect == RouteSpec => []RouteTypeOK
<1>1. RouteIInv => RouteTypeOK
  <2> SUFFICES ASSUME RouteIInv PROVE RouteTypeOK
    OBVIOUS
  <2>1. RouteTyped /\ GateExact /\ gate.active <= Slots
    BY DEF RouteIInv
  <2>2. gate.waiting <= Cardinality(Requests) /\ Cardinality(Requests) \in Nat /\ Slots \in Nat
    BY <2>1, Counts, Countable, ChatAssumption DEF GateExact
  <2>3. gate \in [active : 0..Slots, waiting : 0..Cardinality(Requests)]
    BY <2>1, <2>2 DEF RouteTyped
  <2>4. QED BY <2>1, <2>3 DEF RouteTypeOK, RouteTyped, Request
<1>2. QED BY <1>1, RouteCorrect, PTL

\* No slot is leaked or given up twice, no waiter stays counted, and the day's ledger is what the
\* platform billed, for any number of requests, slots and workers (infer_gate_*(), note_spend()).
THEOREM BooksAreExact == RouteSpec => []BooksExact
<1>1. RouteIInv => BooksExact
  BY DEF RouteIInv, BooksExact, LedgerSound
<1>2. QED BY <1>1, RouteCorrect, PTL

\* The cap is overshot by at most one answer for each worker that the busy slots leave over, for
\* any cap, any bill and any number of midnights and restarts (should_forward(), note_spend()).
THEOREM CapIsAlmostKept == RouteSpec => []OvershootBounded
<1>1. RouteIInv => OvershootBounded
  <2> SUFFICES ASSUME RouteIInv PROVE OvershootBounded
    OBVIOUS
  <2>1. OverflowTypeOK /\ CommitmentsBounded
    BY DEF RouteIInv, RouteTyped
  <2>2. RollDay(ovf).spent \in Nat
    BY <2>1, Rolled
  <2>3. QED BY <2>1, <2>2, NothingSpent, OverflowAssumption
            DEF OvershootBounded, CommitmentsBounded, Committed
<1>2. QED BY <1>1, RouteCorrect, PTL

-----------------------------------------------------------------------------
(***************************************************************************)
(* Routes.                                                                 *)
(***************************************************************************)
Working == {"templating", "counting", "chatting"}
AnyAsk == {NoAsk} \cup UNION {Asks[h] : h \in Handlers}
Handling == [pc : Working \cup {"idle", "read", "routing", "over"}, ask : AnyAsk,
             origin : {"none", "proven", "refused", "claimed", "local", "unattributed"},
             code : Nat, said : EngineSays \cup {"nothing", "left"}, after : BOOLEAN]

\* Where a request is taken to come from is what it brought says.
OriginFits(j) ==
    /\ j.ask.cap # "none" => j.origin \in {"proven", "refused"}
    /\ j.ask.cap = "none" /\ j.ask.mark = "legacy" => j.origin = "claimed"
    /\ j.after /\ j.origin = "local" => j.ask.mark = "local"

\* What the engine works on passed each gate of a machine that was started like m.
PassedGates(m, j) ==
    /\ j.origin # "refused" /\ j.ask.key /\ ~j.ask.browser
    /\ m.vocabularyOnly => j.ask.path = "tokenize"
    /\ ~(m.shared /\ m.unverified /\ j.origin \in {"proven", "claimed"})

\* Who is at fault, of a request that was answered.
Blamed(j) == /\ j.code = 400 /\ j.ask.sound => j.said = "refuses"
             /\ j.said = "refuses" => j.code = 400

\* How far a request is says what is known of it, on machine m, where others worked or did not.
KnownOf(m, others, j) ==
    /\ j.pc \in {"idle", "read"} => j.origin = "none"
    /\ j.pc \in Working \cup {"routing"} => j.origin # "none"
    /\ j.origin # "none" => OriginFits(j)
    /\ j.after => others
    /\ j.pc \in Working => PassedGates(m, j)
    /\ j.pc \in {"read", "routing", "templating", "chatting"} => j.said = "nothing"
    /\ j.pc = "counting" => j.said \in {"nothing", "yes"}
    /\ j.pc # "over" => j.code = 0
    /\ j.pc = "over" /\ j.origin # "none" => Blamed(j)
EachHandled == \A h \in Handlers : KnownOf(machine, lent, job[h])

\* Whoever takes work of others is a provider.
LendersProvide == lent => provider

RoutesTyped ==
    /\ job \in [Handlers -> Handling]
    /\ provider \in BOOLEAN /\ lent \in BOOLEAN
    /\ tickets \in Nat /\ marked \in Nat

RoutesIInv == RoutesTyped /\ EachHandled /\ LendersProvide /\ MarksMatchJobs

\* What a step may do to what the threads share, without a mark being set or given back.
SharedKept ==
    /\ UNCHANGED <<machine, marked>>
    /\ provider' \in BOOLEAN /\ lent' \in BOOLEAN /\ tickets' \in Nat
    /\ lent => lent'
    /\ lent' => provider'

\* A request that goes on as j, with the marks that belong to it.
LEMMA HandlingKeeps ==
    ASSUME RoutesIInv, NEW h \in Handlers, NEW j \in Handling, job' = [job EXCEPT ![h] = j],
           machine' = machine, provider' \in BOOLEAN, lent' \in BOOLEAN, tickets' \in Nat,
           lent => lent', lent' => provider', KnownOf(machine, lent', j),
           (job[h].origin = "proven" <=> j.origin = "proven") => marked' = marked,
           job[h].origin = "proven" /\ j.origin # "proven" => marked' = marked - 1,
           job[h].origin # "proven" /\ j.origin = "proven" => marked' = marked + 1
    PROVE  RoutesIInv'
<1> DEFINE A == {g \in Handlers : job[g].origin = "proven"}
           B == {g \in Handlers : job'[g].origin = "proven"}
<1>1. job \in [Handlers -> Handling] /\ marked = Cardinality(A) /\ EachHandled
  BY DEF RoutesIInv, RoutesTyped, MarksMatchJobs
<1>2. /\ A \in SUBSET Handlers /\ B \in SUBSET Handlers
      /\ \A q \in Handlers \ {h} : q \in A <=> q \in B
      /\ h \in A <=> job[h].origin = "proven"
      /\ h \in B <=> j.origin = "proven"
  BY <1>1
<1>3. MarksMatchJobs' <=> marked' = Cardinality(B)
  BY DEF MarksMatchJobs
<1> HIDE DEF A, B
<1>4. /\ (h \in A <=> h \in B) => Cardinality(B) = Cardinality(A)
      /\ h \in A /\ h \notin B => Cardinality(B) = Cardinality(A) - 1
      /\ h \notin A /\ h \in B => Cardinality(B) = Cardinality(A) + 1
  BY <1>2, RoutesAssumption, Moved
<1>5. marked' = Cardinality(B)
  BY <1>1, <1>2, <1>4
<1>6. Cardinality(B) \in Nat
  BY <1>2, RoutesAssumption, FS_Subset, FS_CardinalityType
<1>7. RoutesTyped'
  BY <1>1, <1>5, <1>6 DEF RoutesTyped
<1>8. EachHandled'
  BY <1>1 DEF EachHandled, KnownOf
<1>9. QED BY <1>3, <1>5, <1>7, <1>8 DEF RoutesIInv, LendersProvide

\* What the invariant says of one request.
LEMMA OfOneHandling ==
    ASSUME RoutesIInv, NEW h \in Handlers
    PROVE  /\ job[h] \in Handling /\ KnownOf(machine, lent, job[h])
           /\ job \in [Handlers -> Handling]
           /\ provider \in BOOLEAN /\ lent \in BOOLEAN /\ tickets \in Nat /\ marked \in Nat
           /\ lent => provider
BY DEF RoutesIInv, RoutesTyped, EachHandled, LendersProvide

\* An answer: it is the client's fault exactly where the code says so.
LEMMA AnswerKeeps ==
    ASSUME RoutesIInv, NEW h \in Handlers, NEW code \in Nat, Answer(h, code), SharedKept,
           job[h].pc \in Working \cup {"read", "routing"},
           job[h].origin # "none" /\ code = 400 => ~job[h].ask.sound
    PROVE  RoutesIInv'
<1> DEFINE j == [job[h] EXCEPT !.pc = "over", !.code = code]
<1>1. job[h] \in Handling /\ KnownOf(machine, lent, job[h])
  BY OfOneHandling
<1>2. /\ j \in Handling /\ j.pc = "over" /\ j.code = code /\ j.ask = job[h].ask
      /\ j.origin = job[h].origin /\ j.said = job[h].said /\ j.after = job[h].after
      /\ job' = [job EXCEPT ![h] = j]
  BY <1>1 DEF Handling, Answer
<1> HIDE DEF j
<1>3. job[h].said \notin {"refuses"}
  BY <1>1 DEF KnownOf, Working
<1>4. KnownOf(machine, lent', j)
  BY <1>1, <1>2, <1>3 DEF KnownOf, OriginFits, Blamed, SharedKept, Working
<1>5. QED BY <1>2, <1>4, HandlingKeeps DEF SharedKept

\* A client that leaves is answered by nobody.
LEMMA LeavingKeeps ==
    ASSUME RoutesIInv, NEW h \in Handlers, Hear(h, "left"), SharedKept,
           job[h].pc \in Working
    PROVE  RoutesIInv'
<1> DEFINE j == [job[h] EXCEPT !.pc = "over", !.said = "left"]
<1>1. job[h] \in Handling /\ KnownOf(machine, lent, job[h])
  BY OfOneHandling
<1>2. /\ j \in Handling /\ j.pc = "over" /\ j.code = job[h].code /\ j.ask = job[h].ask
      /\ j.origin = job[h].origin /\ j.said = "left" /\ j.after = job[h].after
      /\ job' = [job EXCEPT ![h] = j]
  BY <1>1 DEF Handling, Hear
<1> HIDE DEF j
<1>3. KnownOf(machine, lent', j)
  BY <1>1, <1>2 DEF KnownOf, OriginFits, Blamed, SharedKept, Working
<1>4. QED BY <1>2, <1>3, HandlingKeeps DEF SharedKept

\* A request that is received knows nothing but whether others have worked here.
LEMMA ReceiveKeeps == ASSUME RoutesIInv, NEW h \in Handlers, Receive(h) PROVE RoutesIInv'
<1>1. PICK a \in Asks[h] :
          job' = [job EXCEPT ![h] = [Idle0 EXCEPT !.pc = "read", !.ask = a, !.after = lent]]
  BY DEF Receive
<1> DEFINE j == [Idle0 EXCEPT !.pc = "read", !.ask = a, !.after = lent]
<1>2. /\ j \in Handling /\ j.pc = "read" /\ j.origin = "none" /\ j.said = "nothing" /\ j.code = 0
      /\ j.after = lent /\ job' = [job EXCEPT ![h] = j]
  <2>1. a \in AnyAsk /\ lent \in BOOLEAN
    BY OfOneHandling DEF AnyAsk
  <2>2. QED BY <1>1, <2>1 DEF Handling, Idle0
<1> HIDE DEF j
<1>3. /\ job[h].origin # "proven" /\ UNCHANGED <<machine, provider, tickets, marked, lent>>
  BY OfOneHandling DEF Receive, On, KnownOf, facts
<1>4. KnownOf(machine, lent', j)
  BY <1>2, <1>3 DEF KnownOf, Working
<1>5. QED BY <1>2, <1>3, <1>4, OfOneHandling, HandlingKeeps

\* Where it comes from is decided, and with it whether this machine is a provider.
LEMMA AttributeKeeps == ASSUME RoutesIInv, NEW h \in Handlers, Attribute(h) PROVE RoutesIInv'
<1> DEFINE j == [job[h] EXCEPT !.pc = "routing", !.origin = OriginOf(h)]
<1>1. /\ job[h] \in Handling /\ KnownOf(machine, lent, job[h]) /\ job[h].pc = "read"
      /\ provider \in BOOLEAN /\ lent \in BOOLEAN /\ tickets \in Nat /\ marked \in Nat
      /\ lent => provider
  BY OfOneHandling DEF Attribute, On
<1>2. /\ job[h].origin = "none" /\ job[h].said = "nothing" /\ job[h].code = 0
      /\ job[h].after => lent
  BY <1>1 DEF KnownOf
<1>3. /\ OriginOf(h) \in {"proven", "refused", "claimed", "local", "unattributed"}
      /\ OriginOf(h) = "proven" <=> Spends(h)
      /\ job[h].ask.cap # "none" => OriginOf(h) \in {"proven", "refused"}
      /\ ClaimsPlatform(h) => OriginOf(h) = "claimed"
      /\ OriginOf(h) = "local" => job[h].ask.mark = "local" \/ ~provider
  BY DEF OriginOf, Spends, BadCapability, ClaimsPlatform
<1>4. /\ j \in Handling /\ j.pc = "routing" /\ j.origin = OriginOf(h) /\ j.said = "nothing"
      /\ j.ask = job[h].ask /\ j.after = job[h].after /\ j.code = 0
      /\ job' = [job EXCEPT ![h] = j]
  BY <1>1, <1>2, <1>3 DEF Handling, Attribute
<1> HIDE DEF j
<1>5. /\ machine' = machine /\ provider' \in BOOLEAN /\ lent' \in BOOLEAN
      /\ lent => lent'
      /\ lent' => provider'
  BY <1>1 DEF Attribute
<1>6. /\ tickets' \in Nat
      /\ Spends(h) => marked' = marked + 1
      /\ ~Spends(h) => marked' = marked
  BY <1>1 DEF Attribute, Spends
<1>7. KnownOf(machine, lent', j)
  <2>1. OriginFits(j)
    BY <1>1, <1>2, <1>3, <1>4 DEF OriginFits, ClaimsPlatform
  <2>2. j.origin # "none" /\ (j.after => lent')
    BY <1>2, <1>3, <1>4, <1>5
  <2>3. j.pc = "routing" /\ j.said = "nothing" /\ j.code = 0
    BY <1>4
  <2>4. QED BY <2>1, <2>2, <2>3 DEF KnownOf, Working
<1>8. QED BY <1>2, <1>3, <1>4, <1>5, <1>6, <1>7, HandlingKeeps

\* A request that every gate let through goes to work, or is told that it makes no sense.
LEMMA EnterKeeps ==
    ASSUME RoutesIInv, NEW h \in Handlers, NEW path, PassesGates(h, path),
           NEW pc \in Working, Enter(h, pc)
    PROVE  RoutesIInv'
<1>1. /\ job[h] \in Handling /\ KnownOf(machine, lent, job[h])
      /\ job[h].pc = "routing" /\ job[h].origin # "refused"
      /\ UNCHANGED <<machine, provider, tickets, marked, lent>>
      /\ provider \in BOOLEAN /\ lent \in BOOLEAN /\ tickets \in Nat /\ (lent => provider)
  BY OfOneHandling DEF PassesGates, Asked, Allowed, On, Enter, facts
<1>2. CASE job[h].ask.sound
  <2> DEFINE j == [job[h] EXCEPT !.pc = pc]
  <2>1. /\ j \in Handling /\ j.pc = pc /\ j.ask = job[h].ask /\ j.origin = job[h].origin
        /\ j.said = job[h].said /\ j.after = job[h].after /\ j.code = job[h].code
        /\ job' = [job EXCEPT ![h] = j]
    BY <1>1, <1>2 DEF Handling, Enter
  <2> HIDE DEF j
  <2>2. PassedGates(machine, j)
    BY <1>1, <2>1 DEF PassedGates, PassesGates, Asked, StrangersWork
  <2>3. KnownOf(machine, lent', j)
    BY <1>1, <2>1, <2>2 DEF KnownOf, OriginFits, Working
  <2>4. QED BY <1>1, <2>1, <2>3, HandlingKeeps
<1>3. CASE ~job[h].ask.sound
  <2>1. Answer(h, 400)
    BY <1>3 DEF Enter
  <2>2. QED BY <1>1, <1>3, <2>1, AnswerKeeps DEF SharedKept
<1>4. QED BY <1>2, <1>3

\* The thread is done with its request: a mark it holds is given back.
LEMMA FinishKeeps == ASSUME RoutesIInv, NEW h \in Handlers, Finish(h) PROVE RoutesIInv'
<1>1. /\ Idle0 \in Handling /\ Idle0.pc = "idle" /\ Idle0.origin = "none" /\ Idle0.after = FALSE
      /\ Idle0.code = 0
  BY DEF Handling, Idle0, AnyAsk
<1>2. KnownOf(machine, lent', Idle0)
  BY <1>1 DEF KnownOf, Working
<1>3. /\ marked \in Nat /\ job[h].origin \in {"none", "proven", "refused", "claimed", "local",
                                              "unattributed"}
  BY OfOneHandling DEF Handling
<1>4. /\ job' = [job EXCEPT ![h] = Idle0] /\ UNCHANGED <<machine, provider, tickets, lent>>
      /\ job[h].origin = "proven" => marked' = marked - 1
      /\ job[h].origin # "proven" => marked' = marked
  BY <1>3 DEF Finish
<1>5. QED BY <1>1, <1>2, <1>4, OfOneHandling, HandlingKeeps

\* What the engine says of the template sends the request on, or ends it.
LEMMA SaidKeeps ==
    ASSUME RoutesIInv, NEW h \in Handlers, job[h].pc = "templating", UNCHANGED <<machine, facts>>,
           NEW e \in EngineSays, NEW pc \in {"counting", "over"}, NEW code \in Nat,
           job' = [job EXCEPT ![h].said = e, ![h].pc = pc, ![h].code = code],
           pc = "counting" => e = "yes" /\ code = 0,
           pc = "over" => (code = 400 <=> e = "refuses")
    PROVE  RoutesIInv'
<1> DEFINE j == [job[h] EXCEPT !.said = e, !.pc = pc, !.code = code]
<1>1. /\ job[h] \in Handling /\ KnownOf(machine, lent, job[h])
      /\ UNCHANGED <<machine, provider, tickets, marked, lent>>
      /\ provider \in BOOLEAN /\ lent \in BOOLEAN /\ tickets \in Nat /\ (lent => provider)
  BY OfOneHandling DEF facts
<1>2. /\ j \in Handling /\ j.pc = pc /\ j.ask = job[h].ask /\ j.origin = job[h].origin
      /\ j.said = e /\ j.after = job[h].after /\ j.code = code
      /\ job' = [job EXCEPT ![h] = j]
  BY <1>1 DEF Handling, Working
<1> HIDE DEF j
<1>3. j.pc \in Working => PassedGates(machine, j)
  BY <1>1, <1>2 DEF KnownOf, PassedGates, Working
<1>4. j.pc = "over" => Blamed(j)
  BY <1>2 DEF Blamed
<1>5. /\ j.origin # "none" /\ OriginFits(j)
      /\ j.after => lent'
      /\ j.pc = "counting" => j.said = "yes" /\ j.code = 0
      /\ j.pc = "counting" \/ j.pc = "over"
  BY <1>1, <1>2 DEF KnownOf, OriginFits, Working
<1>6. KnownOf(machine, lent', j)
  BY <1>3, <1>4, <1>5 DEF KnownOf
<1>7. QED BY <1>1, <1>2, <1>6, HandlingKeeps

\* The engine's answers to the two calls of a count.
LEMMA TemplateKeeps == ASSUME RoutesIInv, NEW h \in Handlers, TemplateAnswered(h) PROVE RoutesIInv'
<1>1. job[h].pc = "templating" /\ UNCHANGED <<machine, facts>>
  BY DEF TemplateAnswered, On
<1>2. CASE Hear(h, "left")
  BY <1>1, <1>2, OfOneHandling, LeavingKeeps DEF SharedKept, Working, facts
<1>3. CASE ~Hear(h, "left")
  <2>1. PICK e \in EngineSays :
            job' = [job EXCEPT ![h].said = e,
                               ![h].pc = IF e = "yes" THEN "counting" ELSE "over",
                               ![h].code = IF e = "yes" THEN 0
                                           ELSE IF e = "refuses" THEN 400 ELSE 503]
    BY <1>3 DEF TemplateAnswered
  <2>2. CASE e = "yes"
    <3>1. job' = [job EXCEPT ![h].said = e, ![h].pc = "counting", ![h].code = 0]
      BY <2>1, <2>2
    <3>2. QED BY <1>1, <2>2, <3>1, SaidKeeps
  <2>3. CASE e = "refuses"
    <3>1. job' = [job EXCEPT ![h].said = e, ![h].pc = "over", ![h].code = 400]
      BY <2>1, <2>3
    <3>2. /\ e \in EngineSays /\ 400 \in Nat /\ "over" \in {"counting", "over"}
          /\ "over" = "counting" => e = "yes" /\ 400 = 0
          /\ "over" = "over" => (400 = 400 <=> e = "refuses")
      BY <2>1, <2>3
    <3>3. QED BY <1>1, <3>1, <3>2, SaidKeeps, Zenon
  <2>4. CASE e \notin {"yes", "refuses"}
    <3> DEFINE code == 503
    <3>1. job' = [job EXCEPT ![h].said = e, ![h].pc = "over", ![h].code = code]
      BY <2>1, <2>4
    <3>2. /\ e \in EngineSays /\ code \in Nat /\ "over" \in {"counting", "over"}
          /\ "over" = "counting" => e = "yes" /\ code = 0
          /\ "over" = "over" => (code = 400 <=> e = "refuses")
      BY <2>1, <2>4
    <3> HIDE DEF code
    <3>3. QED BY <1>1, <3>1, <3>2, SaidKeeps, Zenon
  <2>5. QED BY <2>2, <2>3, <2>4
<1>4. QED BY <1>2, <1>3

\* The count itself: the engine's own failure is not the client's fault.
LEMMA CountedKeeps == ASSUME RoutesIInv, NEW h \in Handlers, Counted(h) PROVE RoutesIInv'
<1>1. /\ job[h].pc = "counting" /\ UNCHANGED <<machine, provider, tickets, marked, lent>>
      /\ provider \in BOOLEAN /\ lent \in BOOLEAN /\ tickets \in Nat /\ (lent => provider)
  BY OfOneHandling DEF Counted, On, facts
<1>2. CASE Hear(h, "left")
  BY <1>1, <1>2, LeavingKeeps DEF SharedKept, Working
<1>3. CASE Answer(h, 200) \/ Answer(h, 503)
  BY <1>1, <1>3, AnswerKeeps DEF SharedKept, Working
<1>4. QED BY <1>2, <1>3 DEF Counted

\* The routes that only answer, and the two that change what the threads share.
LEMMA RouteKeeps == ASSUME RoutesIInv, NEW h \in Handlers, Route(h) PROVE RoutesIInv'
<1>1. /\ provider \in BOOLEAN /\ lent \in BOOLEAN /\ tickets \in Nat /\ (lent => provider)
      /\ Route(h) => job[h].pc = "routing"
  BY OfOneHandling DEF Route, Health, NotServedHere, AdmitRoute, SwitchOverflow, Posture, Stats,
                       ClusterStatus, Capability, NoSuchEndpoint, TurnedAway, Models,
                       WithoutEngine, NotReady, TokenizeRoute, CountTokensRoute, ToChatRoute,
                       ToEngine, PassesGates, Served, Asked, Allowed, On
<1>2. job[h].pc = "routing"
  BY <1>1
<1>3. ASSUME UNCHANGED <<machine, facts>>, NEW code \in Nat \ {400}, Answer(h, code)
      PROVE  RoutesIInv'
  BY <1>1, <1>2, <1>3, AnswerKeeps DEF SharedKept, facts
<1>4. CASE Health(h) \/ Posture(h) \/ Stats(h) \/ ClusterStatus(h) \/ Models(h)
  <2>1. Answer(h, 200) /\ UNCHANGED <<machine, facts>>
    BY <1>4 DEF Health, Posture, Stats, ClusterStatus, Models
  <2>2. QED BY <1>3, <2>1
<1>5. CASE NotServedHere(h) \/ NoSuchEndpoint(h)
  <2>1. Answer(h, 404) /\ UNCHANGED <<machine, facts>>
    BY <1>5 DEF NotServedHere, NoSuchEndpoint
  <2>2. QED BY <1>3, <2>1
<1>6. CASE NotReady(h)
  <2>1. Answer(h, 503) /\ UNCHANGED <<machine, facts>>
    BY <1>6 DEF NotReady
  <2>2. QED BY <1>3, <2>1
<1>7. CASE Capability(h)
  <2>1. PICK code \in {200, 500, 503} : Answer(h, code)
    BY <1>7 DEF Capability
  <2>2. UNCHANGED <<machine, facts>> /\ code \in Nat \ {400}
    BY <1>7 DEF Capability
  <2>3. QED BY <1>3, <2>1, <2>2
<1>8. CASE TurnedAway(h)
  <2>1. PICK code \in {403, 401, 503} : Answer(h, code)
    BY <1>8 DEF TurnedAway
  <2>2. UNCHANGED <<machine, facts>> /\ code \in Nat \ {400}
    BY <1>8 DEF TurnedAway
  <2>3. QED BY <1>3, <2>1, <2>2
<1>9. CASE WithoutEngine(h)
  <2>1. PICK code \in {200, 503} : Answer(h, code)
    BY <1>9 DEF WithoutEngine
  <2>2. UNCHANGED <<machine, facts>> /\ code \in Nat \ {400}
    BY <1>9 DEF WithoutEngine
  <2>3. QED BY <1>3, <2>1, <2>2
<1>10. CASE AdmitRoute(h)
  <2> DEFINE a == job[h].ask
             issues == ~a.browser /\ a.key /\ a.sound
             code == IF a.browser THEN 403 ELSE IF ~a.key THEN 401 ELSE IF ~a.sound THEN 400 ELSE 200
  <2>1. /\ Answer(h, code) /\ tickets' = tickets + (IF issues THEN 1 ELSE 0)
        /\ provider' = (provider \/ issues) /\ lent' = (lent \/ issues)
        /\ UNCHANGED <<machine, marked>>
    BY <1>10 DEF AdmitRoute
  <2>2. code \in Nat /\ (code = 400 => ~a.sound)
    OBVIOUS
  <2>3. SharedKept
    BY <1>1, <2>1 DEF SharedKept
  <2> HIDE DEF code
  <2>4. QED BY <1>2, <2>1, <2>2, <2>3, AnswerKeeps
<1>11. CASE SwitchOverflow(h)
  <2>1. PICK code \in {403, 409, 200} : Answer(h, code)
    BY <1>11 DEF SwitchOverflow
  <2>2. code \in Nat \ {400} /\ UNCHANGED <<machine, provider, tickets, marked, lent>>
    BY <1>11 DEF SwitchOverflow
  <2>3. QED BY <1>1, <1>2, <2>1, <2>2, AnswerKeeps DEF SharedKept
<1>12. CASE TokenizeRoute(h)
  BY <1>12, EnterKeeps DEF TokenizeRoute, ToEngine, Working
<1>13. CASE CountTokensRoute(h)
  BY <1>13, EnterKeeps DEF CountTokensRoute, ToEngine, Working
<1>14. CASE ToChatRoute(h)
  BY <1>14, EnterKeeps DEF ToChatRoute, ToEngine, Working
<1>15. QED BY <1>4, <1>5, <1>6, <1>7, <1>8, <1>9, <1>10, <1>11, <1>12, <1>13, <1>14 DEF Route

\* Every step of a thread.
LEMMA HandlerKeeps == ASSUME RoutesIInv, NEW h \in Handlers, HandlerStep(h) PROVE RoutesIInv'
<1>1. /\ provider \in BOOLEAN /\ lent \in BOOLEAN /\ tickets \in Nat /\ (lent => provider)
      /\ KnownOf(machine, lent, job[h])
  BY OfOneHandling
<1>2. CASE ReadFails(h)
  <2>1. PICK code \in {400, 408, 413} : Answer(h, code)
    BY <1>2 DEF ReadFails
  <2>2. job[h].origin = "none" /\ job[h].pc = "read" /\ code \in Nat
    BY <1>1, <1>2 DEF ReadFails, On, KnownOf
  <2>3. QED BY <1>1, <1>2, <2>1, <2>2, AnswerKeeps DEF SharedKept, ReadFails, facts
<1>3. CASE RefuseCapability(h)
  <2>1. Answer(h, 403) /\ job[h].pc = "routing"
    BY <1>3 DEF RefuseCapability, On
  <2>2. SharedKept
    BY <1>1, <1>3 DEF SharedKept, RefuseCapability
  <2>3. QED BY <2>1, <2>2, AnswerKeeps
<1>4. CASE Chatted(h)
  <2>1. job[h].pc = "chatting" /\ SharedKept
    BY <1>1, <1>4 DEF SharedKept, Chatted, On, facts
  <2>2. CASE Answer(h, 200)
    BY <2>1, <2>2, AnswerKeeps DEF Working
  <2>3. CASE Hear(h, "left")
    BY <2>1, <2>3, LeavingKeeps DEF Working
  <2>4. QED BY <1>4, <2>2, <2>3 DEF Chatted
<1>5. QED
  BY <1>2, <1>3, <1>4, ReceiveKeeps, AttributeKeeps, RouteKeeps, TemplateKeeps, CountedKeeps,
     FinishKeeps DEF HandlerStep

\* What changes without a thread: the channel is overwritten, a capability expires.
LEMMA OutsideKeeps ==
    ASSUME RoutesIInv, UNCHANGED <<machine, provider, marked, lent, job>>, tickets' \in Nat
    PROVE  RoutesIInv'
BY DEF RoutesIInv, RoutesTyped, EachHandled, LendersProvide, MarksMatchJobs

\* A machine that has just started serves nobody and lends nothing.
LEMMA RoutesInitKeeps == RoutesInit => RoutesIInv
<1> SUFFICES ASSUME RoutesInit PROVE RoutesIInv
  OBVIOUS
<1>1. /\ job = [h \in Handlers |-> Idle0] /\ provider = FALSE /\ lent = FALSE
      /\ tickets = 0 /\ marked = 0
  BY DEF RoutesInit
<1>2. Idle0 \in Handling /\ KnownOf(machine, lent, Idle0) /\ Idle0.origin = "none"
  BY DEF Handling, Idle0, AnyAsk, KnownOf, Working
<1>3. {h \in Handlers : job[h].origin = "proven"} = {}
  BY <1>1, <1>2
<1>4. MarksMatchJobs
  BY <1>1, <1>3, FS_EmptySet DEF MarksMatchJobs
<1>5. QED BY <1>1, <1>2, <1>4 DEF RoutesIInv, RoutesTyped, EachHandled, LendersProvide

\* No step of a thread, of the agent or of the clock breaks it.
LEMMA RoutesNextKeeps == RoutesIInv /\ [RoutesNext]_routesVars => RoutesIInv'
<1> SUFFICES ASSUME RoutesIInv, [RoutesNext]_routesVars PROVE RoutesIInv'
  OBVIOUS
<1>1. tickets \in Nat
  BY DEF RoutesIInv, RoutesTyped
<1>2. CASE \E h \in Handlers : HandlerStep(h)
  BY <1>2, HandlerKeeps
<1>3. CASE Overwritten \/ TicketExpires \/ UNCHANGED routesVars
  <2>1. UNCHANGED <<machine, provider, marked, lent, job>> /\ tickets' \in Nat
    BY <1>1, <1>3 DEF Overwritten, TicketExpires, routesVars, facts
  <2>2. QED BY <2>1, OutsideKeeps
<1>4. QED BY <1>2, <1>3 DEF RoutesNext

\* The inductive invariant of the routes: where a request comes from, what is known of it at each
\* place of the handler, and that whoever lends is a provider (handle_http_request()).
THEOREM RoutesCorrect == RoutesSpec => []RoutesIInv
BY RoutesInitKeeps, RoutesNextKeeps, PTL DEF RoutesSpec

\* The engine works for the entitled only, a request that came after others were served is never
\* taken for the owner's unmarked, the right side is blamed, and each mark is given back once; for
\* any number of threads, any requests and any way the machine may be started.
THEOREM RoutesAreKept == RoutesSpec => []RoutesHold
<1>1. RoutesIInv => RoutesHold
  <2> SUFFICES ASSUME RoutesIInv PROVE RoutesHold
    OBVIOUS
  <2>1. EngineSeesTheEntitled
    <3>1. ASSUME NEW h \in Handlers, job[h].pc \in Working
          PROVE  /\ job[h].ask.cap # "none" => job[h].origin = "proven"
                 /\ job[h].ask.key /\ ~job[h].ask.browser
                 /\ machine.vocabularyOnly => job[h].ask.path = "tokenize"
                 /\ ~(machine.shared /\ machine.unverified
                      /\ (job[h].ask.mark = "legacy" \/ job[h].ask.cap # "none"))
      <4>1. PassedGates(machine, job[h]) /\ OriginFits(job[h])
        BY <3>1, OfOneHandling DEF KnownOf
      <4>2. QED BY <4>1 DEF PassedGates, OriginFits
    <3>2. QED BY <3>1 DEF EngineSeesTheEntitled, Working
  <2>2. UnmarkedIsNotTheOwners
    BY OfOneHandling DEF UnmarkedIsNotTheOwners, KnownOf, OriginFits
  <2>3. BlameIsRight
    BY OfOneHandling DEF BlameIsRight, KnownOf, Blamed, On
  <2>4. QED BY <2>1, <2>2, <2>3 DEF RoutesHold, RoutesIInv
<1>2. QED BY <1>1, RoutesCorrect, PTL
=============================================================================
