------------------------- MODULE AgentListingProofs -------------------------
(***************************************************************************)
(* Proofs about how a machine is found.  AgentListing: what an agent beats *)
(* for is what the platform has on its list, and an engine that was        *)
(* swapped is refreshed at most once more by each thread.  Pairing: a      *)
(* machine that guesses is held back, and the guesses of all are as few as *)
(* the meter allows.  Discovery: a search finds one of ours, and finds it  *)
(* whenever it can be reached.  Roster: a name of a cluster stays with the *)
(* machine that took it, and a token names one member.                     *)
(***************************************************************************)
EXTENDS MCMeeting, Roster, SequenceTheorems, WellFoundedInduction, FiniteSetTheorems, TLAPS

View == [opened : Seq(Services), fresh : BOOLEAN]

\* A registration resumes the provider that is listed or opens another; those that
\* were opened before stay what they were.
LEMMA OpenedGrows ==
    ASSUME plat \in View, NEW service \in Services
    PROVE  /\ Opened(service) \in View
           /\ Len(Opened(service).opened) \in Nat \ {0}
           /\ Current <= Len(Opened(service).opened)
           /\ \A i \in 1..Current : Opened(service).opened[i] = plat.opened[i]
           /\ Opened(service).opened[Len(Opened(service).opened)] = service
<1>1. plat.opened \in Seq(Services) /\ Current \in Nat /\ Current = Len(plat.opened)
  BY DEF View, Current
<1>2. CASE plat.opened # <<>> /\ plat.opened[Current] = service
  <2>1. Opened(service) = plat
    BY <1>2 DEF Opened
  <2>2. Current # 0
    BY <1>1, <1>2, EmptySeq DEF Current
  <2>3. QED BY <1>1, <1>2, <2>1, <2>2
<1>3. CASE ~(plat.opened # <<>> /\ plat.opened[Current] = service)
  <2> DEFINE longer == Append(plat.opened, service)
  <2>1. /\ longer \in Seq(Services) /\ Len(longer) = Current + 1
        /\ longer[Current + 1] = service
        /\ \A i \in 1..Current : longer[i] = plat.opened[i]
    BY <1>1, AppendProperties
  <2>2. Opened(service) = [opened |-> longer, fresh |-> FALSE]
    BY <1>3 DEF Opened
  <2> HIDE DEF longer
  <2>3. QED BY <1>1, <2>1, <2>2 DEF View
<1>4. QED BY <1>2, <1>3

\* The providers that were opened stay what they were.
Grows ==
    /\ plat' \in View
    /\ Current' \in Nat
    /\ Current <= Current'
    /\ \A i \in 1..Current : plat'.opened[i] = plat.opened[i]

\* Nothing that was typed and named by the providers comes undone when another is
\* opened or the listing is refreshed.
LEMMA KeptWhenGrows ==
    ASSUME TypeOK, NamedInv, Grows
    PROVE  /\ \A id \in 0..Current : \A service :
                 id \in 0..Current' /\ (Named(id, service) => (id # 0 => plat'.opened[id] = service))
           /\ reg' = reg => (reg \in Registration /\ Named(reg.id, reg.declared))'
           /\ beat' = beat => (beat \in HeartbeatState /\ Named(beat.id, beat.declared) /\ Named(beat.asId, beat.as))'
           /\ wire' \subseteq wire => (wire \subseteq Beats /\ BeatsNameTheirService)'
<1>1. Current \in Nat /\ Current' \in Nat /\ Current <= Current'
  BY DEF TypeOK, Grows, Current
<1>2. ASSUME NEW id \in 0..Current, NEW service
      PROVE  id \in 0..Current' /\ (Named(id, service) => (id # 0 => plat'.opened[id] = service))
  <2>1. id \in 0..Current' /\ (id # 0 => id \in 1..Current)
    BY <1>1
  <2>2. QED BY <2>1 DEF Named, Grows
<1>3. ASSUME reg' = reg PROVE (reg \in Registration /\ Named(reg.id, reg.declared))'
  <2>1. reg.id \in 0..Current /\ Named(reg.id, reg.declared)
    BY DEF TypeOK, Registration, NamedInv
  <2>2. reg.id \in 0..Current' /\ (reg.id # 0 => plat'.opened[reg.id] = reg.declared)
    BY <1>2, <2>1
  <2>3. QED BY <1>3, <2>2 DEF TypeOK, Registration, Named
<1>4. ASSUME beat' = beat
      PROVE  (beat \in HeartbeatState /\ Named(beat.id, beat.declared) /\ Named(beat.asId, beat.as))'
  <2>1. /\ beat.id \in 0..Current /\ Named(beat.id, beat.declared)
        /\ beat.asId \in 0..Current /\ Named(beat.asId, beat.as)
    BY DEF TypeOK, HeartbeatState, NamedInv
  <2>2. /\ beat.id \in 0..Current' /\ (beat.id # 0 => plat'.opened[beat.id] = beat.declared)
        /\ beat.asId \in 0..Current' /\ (beat.asId # 0 => plat'.opened[beat.asId] = beat.as)
    BY <1>2, <2>1
  <2>3. QED BY <1>4, <2>2 DEF TypeOK, HeartbeatState, Named
<1>5. ASSUME wire' \subseteq wire PROVE (wire \subseteq Beats /\ BeatsNameTheirService)'
  <2>1. ASSUME NEW q \in wire' PROVE q \in Beats' /\ plat'.opened[q.id] = q.as
    <3>1. q \in Beats /\ plat.opened[q.id] = q.as
      BY <1>5, <2>1 DEF TypeOK, NamedInv, BeatsNameTheirService
    <3>2. q.id \in 1..Current /\ q.id \in 1..Current'
      BY <1>1, <3>1 DEF Beats
    <3>3. QED BY <3>1, <3>2 DEF Beats, Grows
  <2>2. QED BY <2>1 DEF BeatsNameTheirService
<1>6. QED BY <1>2, <1>3, <1>4, <1>5

-----------------------------------------------------------------------------
ListingInv == TypeOK /\ PhaseInv /\ NamedInv

\* Types, what each thread knows, and what each provider was opened for.
THEOREM ListingCorrect == Spec => []ListingInv
<1> USE ListingAssumption DEF ListingAssumption
<1>1. Init => ListingInv
  <2> SUFFICES ASSUME Init PROVE ListingInv
    OBVIOUS
  <2>1. Current = 0 /\ plat \in View
    BY DEF Init, Current, View
  <2>2. TypeOK
    BY <2>1 DEF Init, TypeOK, View, Engines, Registration, HeartbeatState, MainPc
  <2>3. QED BY <2>2 DEF Init, ListingInv, PhaseInv, NamedInv, Named, BeatsNameTheirService
<1>2. ListingInv /\ [Next]_vars => ListingInv'
  <2> SUFFICES ASSUME TypeOK, PhaseInv, NamedInv, [Next]_vars PROVE ListingInv'
    BY DEF ListingInv
  <2>0. /\ Current \in Nat /\ plat \in View /\ main \in [pc : MainPc, live : Engines]
        /\ reg \in Registration /\ beat \in HeartbeatState /\ engine \in Engines
        /\ late \in [main : 0..2, beat : 0..2]
    BY DEF TypeOK, View, Current
  <2> DEFINE RegOK == reg \in Registration /\ Named(reg.id, reg.declared)
             BeatOK == beat \in HeartbeatState /\ Named(beat.id, beat.declared) /\ Named(beat.asId, beat.as)
             WireOK == wire \subseteq Beats /\ BeatsNameTheirService
             MainOK == main \in [pc : MainPc, live : Engines]
             RestOK == transport \in {"relay", "direct"} /\ engine \in Engines /\ swaps \in 0..MaxSwaps
                       /\ plat \in View /\ late \in [main : 0..2, beat : 0..2]
  <2>q. RegOK' /\ BeatOK' /\ WireOK' /\ MainOK' /\ RestOK' /\ PhaseInv' => ListingInv'
    BY DEF ListingInv, TypeOK, NamedInv, View
  <2>r. RegOK /\ BeatOK /\ WireOK /\ MainOK /\ RestOK
    BY DEF TypeOK, NamedInv, View
  <2>g. plat' = plat => Grows
    BY <2>0 DEF Grows, Current
  <2>h. ASSUME Grows
        PROVE  /\ reg' = reg => RegOK'
               /\ beat' = beat => BeatOK'
               /\ wire' \subseteq wire => WireOK'
    BY <2>h, KeptWhenGrows
  <2>o. ASSUME main.live \in Services, plat' \in {plat, Opened(main.live)}
        PROVE  Grows /\ plat' \in View
    BY <2>0, <2>g, <2>o, OpenedGrows DEF Grows, Current
  <2>m. \A pc \in MainPc : Goto(pc) => MainOK' /\ main'.pc = pc /\ main'.live = main.live
    BY <2>0 DEF Goto
  \* A beat sent for the provider and the service that its sender holds.
  <2>s. ASSUME NEW from \in {"main", "beat"}, NEW id \in 1..Current, NEW as,
               Named(id, as), Send(from, id, as), plat' = plat
        PROVE  WireOK' /\ late' \in [main : 0..2, beat : 0..2]
    <3>1. plat.opened[id] = as /\ as \in Services
      <4>1. plat.opened \in Seq(Services) /\ id \in 1..Len(plat.opened) /\ id # 0
        BY <2>0, <2>s DEF View, Current
      <4>2. plat.opened[id] = as
        BY <2>s, <4>1 DEF Named
      <4>3. plat.opened[id] \in Services
        BY <4>1, ElementOfSeq
      <4>4. QED BY <4>2, <4>3
    <3> DEFINE sentBeat == [from |-> from, id |-> id, as |-> as]
    <3>2. wire' = wire \cup {sentBeat} /\ Beats' = Beats /\ plat'.opened = plat.opened
      BY <2>s DEF Send, Beats, Current
    <3>3. sentBeat \in Beats /\ plat.opened[sentBeat.id] = sentBeat.as
      BY <2>s, <3>1 DEF Beats
    <3> HIDE DEF sentBeat
    <3>4. wire' \subseteq Beats' /\ BeatsNameTheirService'
      BY <2>r, <3>2, <3>3 DEF BeatsNameTheirService
    <3>5. late' \in [main : 0..2, beat : 0..2]
      <4>1. PICK n \in 0..2 : late' = [late EXCEPT ![from] = n]
        <5>1. late[from] \in 0..2
          BY <2>0, <2>s
        <5>2. late' = [late EXCEPT ![from] = IF engine # as /\ late[from] < 2 THEN late[from] + 1 ELSE late[from]]
          BY <2>s DEF Send
        <5>3. CASE engine # as /\ late[from] < 2
          <6>1. late[from] + 1 \in 0..2
            BY <5>1, <5>3
          <6>2. QED BY <5>2, <5>3, <6>1
        <5>4. CASE ~(engine # as /\ late[from] < 2)
          BY <5>1, <5>2, <5>4
        <5>5. QED BY <5>3, <5>4
      <4>2. QED BY <2>0, <2>s, <4>1
    <3>6. QED BY <3>4, <3>5
  <2>1. CASE Swap
    <3>1. RestOK' /\ plat' = plat /\ reg' = reg /\ beat' = beat /\ wire' = wire /\ main' = main
      BY <2>r, <2>1 DEF Swap, Engines
    <3>2. PhaseInv'
      BY <3>1 DEF PhaseInv
    <3>3. QED BY <2>q, <2>r, <2>g, <2>h, <3>1, <3>2
  <2>2. CASE Expire
    <3>1. /\ plat' = [plat EXCEPT !.fresh = FALSE] /\ reg' = reg /\ beat' = beat
          /\ wire' = wire /\ main' = main
      BY <2>2 DEF Expire
    <3>2. Grows
      <4>1. plat' \in View /\ plat'.opened = plat.opened
        BY <2>0, <3>1 DEF View
      <4>2. QED BY <2>0, <4>1 DEF Grows, Current
    <3>3. RestOK'
      BY <2>r, <2>2, <3>2 DEF Expire, Grows
    <3>4. PhaseInv'
      BY <3>1 DEF PhaseInv
    <3>5. QED BY <2>q, <2>r, <2>h, <3>1, <3>2, <3>3, <3>4
  <2>3. CASE RetryTime
    <3>1. /\ plat' = plat /\ beat' = beat /\ wire' = wire /\ main' = main /\ RestOK'
          /\ reg' = [reg EXCEPT !.waiting = FALSE]
      BY <2>r, <2>3 DEF RetryTime
    <3>2. RegOK'
      BY <2>r, <3>1 DEF Registration, Named, Current
    <3>3. PhaseInv'
      BY <2>0, <3>1 DEF PhaseInv, Registration
    <3>4. QED BY <2>q, <2>r, <2>g, <2>h, <3>1, <3>2, <3>3
  <2>4. CASE Drop
    <3>1. /\ plat' = plat /\ reg' = reg /\ beat' = beat /\ main' = main /\ RestOK'
          /\ wire' \subseteq wire
      BY <2>r, <2>4 DEF Drop
    <3>2. PhaseInv'
      BY <3>1 DEF PhaseInv
    <3>3. QED BY <2>q, <2>r, <2>g, <2>h, <3>1, <3>2
  <2>5. CASE Await \/ AwaitGivesUp \/ RegistrationRefused \/ CredentialsRejected \/ Probe \/ Reconcile
             \/ PollFails \/ JobDone
    <3>1. plat' = plat /\ reg' = reg /\ beat' = beat /\ wire' = wire /\ RestOK'
      BY <2>r, <2>5 DEF Await, AwaitGivesUp, RegistrationRefused, CredentialsRejected, Probe, Reconcile,
                        PollFails, JobDone
    <3>2. MainOK' /\ PhaseInv'
      <4>1. CASE Await
        BY <2>0, <3>1, <4>1 DEF Await, Goto, PhaseInv, MainPc, Engines
      <4>2. CASE AwaitGivesUp \/ RegistrationRefused \/ CredentialsRejected
        BY <2>0, <3>1, <4>2 DEF AwaitGivesUp, RegistrationRefused, CredentialsRejected, Goto, PhaseInv, MainPc
      <4>3. CASE Probe
        BY <2>0, <3>1, <4>3 DEF Probe, PhaseInv, MainPc
      <4>4. CASE Reconcile
        BY <2>0, <3>1, <4>4 DEF Reconcile, Goto, PhaseInv, MainPc, Engines
      <4>5. CASE PollFails \/ JobDone
        BY <2>0, <3>1, <4>5 DEF PollFails, JobDone, Goto, PhaseInv, MainPc
      <4>6. QED BY <2>5, <4>1, <4>2, <4>3, <4>4, <4>5
    <3>3. QED BY <2>q, <2>g, <2>h, <3>1, <3>2
  <2>6. CASE Registered
    <3>1. main.live \in Services /\ main.pc = "registering"
      BY <2>6 DEF Registered, PhaseInv
    <3>2. Grows /\ plat' = Opened(main.live) /\ wire' = wire
      BY <2>o, <2>6, <3>1 DEF Registered
    <3>3. Current' \in 1..Current' /\ plat'.opened[Current'] = main.live
      BY <2>0, <3>1, <3>2, OpenedGrows DEF Current
    <3>4. reg' = [reg EXCEPT !.id = Current', !.declared = main.live]
      BY <2>6 DEF Registered, Current
    <3>5. RegOK' /\ reg'.id = Current' /\ reg'.id # 0 /\ reg'.declared = main.live
      <4>1. Current' \in 0..Current' /\ Current' # 0 /\ Current \in Nat
        BY <2>0, <3>3
      <4>2. /\ reg'.id = Current' /\ reg'.declared = main.live /\ reg' \in Registration'
        BY <2>0, <3>1, <3>4, <4>1 DEF Registration
      <4>3. QED BY <3>3, <4>1, <4>2 DEF Named
    <3>6. BeatOK' /\ (beat'.pc # "none" => beat'.id # 0)
                  /\ (beat'.pc \in {"probing", "sending"} => beat'.asId # 0)
      <4>1. CASE beat' = beat
        BY <2>h, <3>2, <4>1 DEF PhaseInv
      <4>2. CASE beat' # beat
        <5>1. beat' = [beat EXCEPT !.id = reg'.id, !.declared = reg'.declared, !.pc = "resting"]
          BY <2>6, <4>2 DEF Registered, Copied
        <5>2. /\ beat'.pc = "resting" /\ beat'.id = reg'.id /\ beat'.declared = reg'.declared
              /\ beat'.asId = beat.asId /\ beat'.as = beat.as
          BY <2>0, <5>1 DEF HeartbeatState
        <5>3. beat.asId \in 0..Current /\ Named(beat.asId, beat.as)
          BY <2>r DEF HeartbeatState
        <5>4. beat.asId \in 0..Current' /\ (beat.asId # 0 => plat'.opened[beat.asId] = beat.as)
          BY <3>2, <5>3, KeptWhenGrows
        <5>5. beat' \in HeartbeatState'
          <6>1. reg'.id \in 0..Current' /\ reg'.declared \in Services \cup {None}
            BY <3>5 DEF Registration
          <6>2. beat.as \in Services \cup {None}
            BY <2>0 DEF HeartbeatState
          <6>3. beat' = [pc |-> "resting", id |-> reg'.id, declared |-> reg'.declared,
                         asId |-> beat.asId, as |-> beat.as]
            BY <2>0, <5>1 DEF HeartbeatState
          <6>4. QED BY <5>4, <6>1, <6>2, <6>3 DEF HeartbeatState
        <5>6. QED BY <3>5, <5>2, <5>4, <5>5 DEF Named
      <4>3. QED BY <4>1, <4>2
    <3>7. MainOK' /\ main'.pc = "probing"
      BY <2>m, <2>6 DEF Registered, MainPc
    <3>8. RestOK'
      BY <2>r, <2>6, <3>2 DEF Registered, Grows
    <3>9. PhaseInv'
      BY <3>5, <3>6, <3>7 DEF PhaseInv
    <3>10. QED BY <2>q, <2>h, <3>2, <3>5, <3>6, <3>7, <3>8, <3>9
  <2>7. CASE Unregistered
    <3>1. main.live \in Services
      BY <2>7 DEF Unregistered, PhaseInv
    <3>2. Grows /\ wire' = wire /\ reg' = reg /\ beat' = beat
      BY <2>o, <2>7, <3>1 DEF Unregistered
    <3>3. MainOK' /\ main'.pc = "awaiting"
      BY <2>m, <2>7 DEF Unregistered, MainPc
    <3>4. RestOK'
      BY <2>r, <2>7, <3>2 DEF Unregistered, Grows
    <3>5. PhaseInv'
      BY <3>2, <3>3 DEF PhaseInv
    <3>6. QED BY <2>q, <2>h, <3>2, <3>3, <3>4, <3>5
  <2>8. CASE Reregistered
    <3>1. main.live \in Services
      BY <2>8 DEF Reregistered, PhaseInv
    <3>2. Grows /\ plat' = Opened(main.live) /\ wire' = wire /\ beat' = beat
      BY <2>o, <2>8, <3>1 DEF Reregistered
    <3>3. Current' \in 1..Current' /\ plat'.opened[Current'] = main.live
      BY <2>0, <3>1, <3>2, OpenedGrows DEF Current
    <3>4. reg' = [id |-> Current', declared |-> main.live, waiting |-> FALSE]
      BY <2>8 DEF Reregistered, Current
    <3>5. RegOK' /\ reg'.id # 0
      BY <3>1, <3>3, <3>4 DEF Registration, Named
    <3>6. MainOK' /\ main'.pc = "reconciled"
      BY <2>m, <2>8 DEF Reregistered, MainPc
    <3>7. RestOK'
      BY <2>r, <2>8, <3>2 DEF Reregistered, Grows
    <3>8. PhaseInv'
      BY <3>2, <3>5, <3>6 DEF PhaseInv
    <3>9. QED BY <2>q, <2>h, <3>2, <3>5, <3>6, <3>7, <3>8
  <2>9. CASE NotReregistered
    <3>1. main.live \in Services /\ main.pc = "reregistering"
      BY <2>9 DEF NotReregistered, PhaseInv
    <3>2. Grows /\ wire' = wire /\ beat' = beat /\ reg' = [reg EXCEPT !.waiting = TRUE]
      BY <2>o, <2>9, <3>1 DEF NotReregistered
    <3>3. reg.id \in 0..Current /\ Named(reg.id, reg.declared) /\ reg.id # 0
      BY <2>r, <3>1 DEF Registration, PhaseInv
    <3>4. reg.id \in 0..Current' /\ (reg.id # 0 => plat'.opened[reg.id] = reg.declared)
      BY <3>2, <3>3, KeptWhenGrows
    <3>5. RegOK' /\ reg'.id # 0
      BY <2>0, <3>2, <3>3, <3>4 DEF Registration, Named
    <3>6. MainOK' /\ main'.pc = "reconciled"
      BY <2>m, <2>9 DEF NotReregistered, MainPc
    <3>7. RestOK'
      BY <2>r, <2>9, <3>2 DEF NotReregistered, Grows
    <3>8. PhaseInv'
      BY <3>2, <3>5, <3>6 DEF PhaseInv
    <3>9. QED BY <2>q, <2>h, <3>2, <3>5, <3>6, <3>7, <3>8
  <2>10. CASE Update
    <3>1. /\ plat' = plat /\ reg' = reg /\ wire' = wire /\ RestOK' /\ main.pc = "reconciled"
          /\ beat' = [beat EXCEPT !.id = reg.id, !.declared = reg.declared]
      BY <2>r, <2>10 DEF Update
    <3>2. BeatOK'
      BY <2>r, <3>1 DEF HeartbeatState, Registration, Named, Current
    <3>3. MainOK' /\ main'.pc \in {"polling", "probing"} /\ (main'.pc = "polling" => main'.live = reg.declared)
      BY <2>0, <2>10 DEF Update, Goto, MainPc
    <3>4. reg.id # 0
      BY <3>1 DEF PhaseInv
    <3>5. PhaseInv'
      BY <2>0, <3>1, <3>3, <3>4 DEF PhaseInv, HeartbeatState
    <3>6. QED BY <2>q, <2>g, <2>h, <3>1, <3>2, <3>3, <3>5
  <2>11. CASE Poll \/ DirectBeat
    <3>1. plat' = plat /\ reg' = reg /\ beat' = beat /\ engine' = engine /\ swaps' = swaps
          /\ transport' = transport /\ Send("main", reg.id, reg.declared)
      BY <2>11 DEF Poll, DirectBeat
    <3>2. reg.id # 0
      BY <2>11 DEF Poll, DirectBeat, PhaseInv
    <3>3. reg.id \in 1..Current /\ Named(reg.id, reg.declared)
      BY <2>0, <2>r, <3>2 DEF Registration
    <3>4. WireOK' /\ late' \in [main : 0..2, beat : 0..2]
      BY <2>s, <3>1, <3>3
    <3>5. MainOK' /\ main'.pc \in {"polled", "probing"}
      BY <2>m, <2>11 DEF Poll, DirectBeat, MainPc
    <3>6. PhaseInv'
      BY <3>1, <3>2, <3>5 DEF PhaseInv
    <3>7. QED BY <2>q, <2>r, <2>g, <2>h, <3>1, <3>4, <3>5, <3>6
  <2>12. CASE BeatCopies \/ BeatProbes
    <3>1. plat' = plat /\ reg' = reg /\ wire' = wire /\ main' = main /\ RestOK'
      BY <2>r, <2>12 DEF BeatCopies, BeatProbes
    <3>2. BeatOK' /\ (beat'.pc # "none" => beat'.id # 0)
                  /\ (beat'.pc \in {"probing", "sending"} => beat'.asId # 0)
      <4>0. /\ Current' = Current /\ HeartbeatState' = HeartbeatState /\ 0 \in 0..Current
            /\ \A id, service : Named(id, service) => (id # 0 => plat'.opened[id] = service)
        BY <2>0, <3>1 DEF Current, HeartbeatState, Named
      <4>1. CASE BeatCopies
        <5>1. beat.pc = "resting" /\ beat' = [beat EXCEPT !.pc = "probing", !.asId = beat.id, !.as = beat.declared]
          BY <4>1 DEF BeatCopies
        <5>2. /\ beat' \in HeartbeatState /\ beat'.id = beat.id /\ beat'.declared = beat.declared
              /\ beat'.asId = beat.id /\ beat'.as = beat.declared
          BY <2>0, <5>1 DEF HeartbeatState
        <5>3. QED BY <2>r, <4>0, <5>1, <5>2 DEF Named, PhaseInv
      <4>2. CASE BeatProbes
        <5>1. beat.pc = "probing" /\ (BeatRests \/ beat' = [beat EXCEPT !.pc = "sending"])
          BY <4>2 DEF BeatProbes
        <5>2. /\ beat' \in HeartbeatState /\ beat'.id = beat.id /\ beat'.declared = beat.declared
              /\ \/ beat'.pc = "resting" /\ beat'.asId = 0
                 \/ beat'.pc = "sending" /\ beat'.asId = beat.asId /\ beat'.as = beat.as
          BY <2>0, <4>0, <5>1 DEF BeatRests, HeartbeatState
        <5>3. QED BY <2>r, <4>0, <5>1, <5>2 DEF Named, PhaseInv
      <4>3. QED BY <2>12, <4>1, <4>2
    <3>3. PhaseInv'
      BY <3>1, <3>2 DEF PhaseInv
    <3>4. QED BY <2>q, <2>r, <2>g, <2>h, <3>1, <3>2, <3>3
  <2>13. CASE BeatSends
    <3>1. /\ plat' = plat /\ reg' = reg /\ main' = main /\ engine' = engine /\ swaps' = swaps
          /\ transport' = transport /\ BeatRests /\ Send("beat", beat.asId, beat.as)
      BY <2>13 DEF BeatSends
    <3>2. beat.asId \in 1..Current /\ Named(beat.asId, beat.as)
      BY <2>0, <2>r, <2>13 DEF BeatSends, PhaseInv, HeartbeatState
    <3>3. WireOK' /\ late' \in [main : 0..2, beat : 0..2]
      BY <2>s, <3>1, <3>2
    <3>4. BeatOK' /\ beat'.pc = "resting" /\ beat'.id = beat.id
      <4>1. /\ Current' = Current /\ HeartbeatState' = HeartbeatState /\ 0 \in 0..Current
            /\ \A id, service : Named(id, service) => (id # 0 => plat'.opened[id] = service)
        BY <2>0, <3>1 DEF Current, HeartbeatState, Named
      <4>2. /\ beat' \in HeartbeatState /\ beat'.id = beat.id /\ beat'.declared = beat.declared
            /\ beat'.pc = "resting" /\ beat'.asId = 0
        BY <2>0, <3>1, <4>1 DEF BeatRests, HeartbeatState
      <4>3. QED BY <2>r, <4>1, <4>2 DEF Named
    <3>5. PhaseInv'
      BY <2>13, <3>1, <3>4 DEF PhaseInv, BeatSends
    <3>6. QED BY <2>q, <2>r, <2>g, <2>h, <3>1, <3>3, <3>4, <3>5
  <2>14. ASSUME NEW q \in wire, Arrive(q) PROVE ListingInv'
    <3>1. plat' \in {plat, [plat EXCEPT !.fresh = TRUE]} /\ reg' = reg /\ beat' = beat /\ wire' \subseteq wire
      BY <2>14 DEF Arrive, Refresh
    <3>2. Grows
      <4>1. plat' \in View /\ plat'.opened = plat.opened
        BY <2>0, <3>1 DEF View
      <4>2. QED BY <2>0, <4>1 DEF Grows, Current
    <3>3. RestOK'
      BY <2>r, <2>14, <3>2 DEF Arrive, Grows
    <3>4. main' = main \/ (main.pc = "polled" /\ main'.pc \in {"probing", "job"} /\ main' = [main EXCEPT !.pc = main'.pc])
      BY <2>0, <2>14 DEF Arrive, Goto
    <3>5. MainOK'
      BY <2>0, <3>4 DEF MainPc
    <3>6. PhaseInv'
      BY <3>1, <3>4 DEF PhaseInv
    <3>7. QED BY <2>q, <2>h, <3>1, <3>2, <3>3, <3>5, <3>6
  <2>15. CASE UNCHANGED vars
    <3>1. /\ plat' = plat /\ reg' = reg /\ beat' = beat /\ wire' = wire /\ main' = main /\ RestOK'
      BY <2>r, <2>15 DEF vars
    <3>2. PhaseInv'
      BY <3>1 DEF PhaseInv
    <3>3. QED BY <2>q, <2>r, <2>g, <2>h, <3>1, <3>2
  <2>16. QED BY <2>1, <2>2, <2>3, <2>4, <2>5, <2>6, <2>7, <2>8, <2>9, <2>10, <2>11, <2>12, <2>13, <2>14, <2>15
             DEF Next, MainStep, BeatStep
<1>3. QED BY <1>1, <1>2, PTL DEF Spec

\* Every reachable state of the listing is well typed, and only services that may
\* be listed were ever registered.
THEOREM TypeCorrect == Spec => []TypeOK
BY ListingCorrect, PTL DEF ListingInv

\* No beat refreshes a provider that was opened for another service than the one
\* its sender found running.
THEOREM BeatsNamed == Spec => []BeatsNameTheirService
BY ListingCorrect, PTL DEF ListingInv, NamedInv

-----------------------------------------------------------------------------
\* On the relay, after a swap of the engine each thread refreshes the service it
\* replaced at most once, however the two threads and the engine interleave.
THEOREM OneBeatLate == Spec => []OneLateBeat
<1>1. Init => LateInv
  BY DEF Init, LateInv, OneLateBeat
<1>2. TypeOK /\ PhaseInv /\ LateInv /\ [Next]_vars => LateInv'
  <2> SUFFICES ASSUME TypeOK, PhaseInv, LateInv, [Next]_vars PROVE LateInv'
    OBVIOUS
  <2>0. /\ late \in [main : 0..2, beat : 0..2] /\ main \in [pc : MainPc, live : Engines]
        /\ beat \in HeartbeatState
    BY DEF TypeOK
  <2>1. CASE Swap
    BY <2>1 DEF Swap, LateInv, OneLateBeat
  <2>2. CASE Expire \/ RetryTime \/ Drop
    BY <2>2 DEF Expire, RetryTime, Drop, LateInv, OneLateBeat
  <2>3. CASE AwaitGivesUp \/ Unregistered \/ RegistrationRefused \/ Reregistered \/ NotReregistered
             \/ CredentialsRejected \/ PollFails \/ JobDone
    BY <2>0, <2>3 DEF AwaitGivesUp, Unregistered, RegistrationRefused, Reregistered, NotReregistered,
                      CredentialsRejected, PollFails, JobDone, Goto, LateInv, OneLateBeat, InRound
  <2>4. CASE Await \/ Probe \/ Reconcile
    BY <2>0, <2>4 DEF Await, Probe, Reconcile, Goto, LateInv, OneLateBeat, InRound
  <2>5. CASE Registered
    <3>1. beat'.pc # "sending" \/ beat' = beat
      BY <2>0, <2>5 DEF Registered, Copied, HeartbeatState
    <3>2. QED BY <2>0, <2>5, <3>1 DEF Registered, Goto, LateInv, OneLateBeat, InRound
  <2>6. CASE Update
    <3>1. beat'.pc = beat.pc /\ beat'.as = beat.as
      BY <2>0, <2>6 DEF Update, HeartbeatState
    <3>2. QED BY <2>0, <2>6, <3>1 DEF Update, Goto, LateInv, OneLateBeat, InRound
  <2>7. CASE Poll
    <3>1. main.live = reg.declared /\ main.pc = "polling" /\ main'.pc = "polled" /\ main.pc \in InRound
      BY <2>0, <2>7 DEF Poll, Goto, PhaseInv, InRound
    <3>2. /\ late'.beat = late.beat
          /\ late'.main = IF engine # reg.declared /\ late.main < 2 THEN late.main + 1 ELSE late.main
      BY <2>0, <2>7 DEF Poll, Send
    <3>3. transport = "relay" => late'.main <= 1
      BY <2>0, <3>1, <3>2 DEF LateInv, OneLateBeat
    <3>4. QED BY <2>7, <3>1, <3>2, <3>3 DEF Poll, LateInv, OneLateBeat, InRound
  <2>8. CASE DirectBeat
    BY <2>0, <2>8 DEF DirectBeat, Goto, Send, LateInv, OneLateBeat, InRound
  <2>9. CASE BeatCopies \/ BeatProbes
    BY <2>0, <2>9 DEF BeatCopies, BeatProbes, BeatRests, HeartbeatState, LateInv, OneLateBeat
  <2>10. CASE BeatSends
    <3>1. beat.pc = "sending" /\ beat'.pc = "resting"
      BY <2>0, <2>10 DEF BeatSends, BeatRests, HeartbeatState
    <3>2. /\ late'.main = late.main
          /\ late'.beat = IF engine # beat.as /\ late.beat < 2 THEN late.beat + 1 ELSE late.beat
      BY <2>0, <2>10 DEF BeatSends, Send
    <3>3. transport = "relay" => late'.beat <= 1
      BY <2>0, <3>1, <3>2 DEF LateInv, OneLateBeat
    <3>4. QED BY <2>10, <3>1, <3>2, <3>3 DEF BeatSends, LateInv, OneLateBeat
  <2>11. ASSUME NEW q \in wire, Arrive(q) PROVE LateInv'
    <3>1. main' = main \/ main'.pc \in {"probing", "job"}
      BY <2>0, <2>11 DEF Arrive, Goto
    <3>2. QED BY <2>11, <3>1 DEF Arrive, LateInv, OneLateBeat, InRound
  <2>12. CASE UNCHANGED vars
    BY <2>12 DEF vars, LateInv, OneLateBeat
  <2>13. QED BY <2>1, <2>2, <2>3, <2>4, <2>5, <2>6, <2>7, <2>8, <2>9, <2>10, <2>11, <2>12
             DEF Next, MainStep, BeatStep
<1>3. QED BY ListingCorrect, <1>1, <1>2, PTL DEF Spec, ListingInv, LateInv

\* What the marketplace hears follows the engine, for any services and any number of swaps.
THEOREM BeatsFollow == Spec => []BeatsFollowTheEngine
<1>1. BeatsNameTheirService /\ OneLateBeat => BeatsFollowTheEngine
  BY DEF BeatsFollowTheEngine
<1>2. QED BY <1>1, BeatsNamed, OneBeatLate, PTL


-----------------------------------------------------------------------------
(***************************************************************************)
(* Pairing: a source has one record at the join port's throttle, and every *)
(* wait that is owed is in a record that lasts as long.                    *)
(***************************************************************************)
Record == [used : {TRUE}, addr : Sources, fails : Nat, idle : Nat, wait : Nat]
Connection == [src : Sources, hello : Hellos, gone : BOOLEAN]
Service == [none : {FALSE}, conn : Connection, left : Int]
PairTypeOK ==
    /\ slots \in [1..NSlots -> Record \cup {Free}]
    /\ meter \in [age : Nat, fails : Nat, wait : Nat]
    /\ backlog \in Seq(Connection) /\ (serving = NoConn \/ serving \in Service)
    /\ owed \in [Sources -> Nat]

\* What the throttle keeps: one record of a source, that does not outlive its usefulness while it
\* holds the source back, and every wait that is owed, in a record.
Single == \A i, j \in 1..NSlots :
    slots[i].used /\ slots[j].used /\ slots[i].addr = slots[j].addr => i = j
Remembered == \A i \in 1..NSlots :
    slots[i].used /\ slots[i].wait > 0 => slots[i].idle + slots[i].wait <= LongestWait
IsOf(i, s) == slots[i].used /\ slots[i].addr = s
Owes == \A s \in Sources : owed[s] > 0 => \E i \in 1..NSlots : IsOf(i, s) /\ owed[s] <= slots[i].wait
\* Who is served is known, and was not told to wait.
ServedInTurn ==
    serving # NoConn =>
        /\ owed[serving.conn.src] = 0 /\ meter.wait = 0
        /\ \E i \in 1..NSlots : IsOf(i, serving.conn.src)
\* Failures beyond the free ones are a block apart, and all of them in one window.
Paid(n) == (n - MaxFails) * Block
Metered ==
    /\ meter.fails <= MaxCount /\ meter.wait <= Block
    /\ meter.fails >= MaxFails =>
          /\ meter.age > Window \/ Paid(meter.fails) + Block - meter.wait <= meter.age
          /\ Paid(meter.fails) <= Window
PairInv == PairTypeOK /\ Single /\ Remembered /\ Owes /\ ServedInTurn /\ Metered

\* The least of a set of naturals: the step of every induction here.
LEMMA LeastOf ==
    ASSUME NEW T, T \subseteq Nat, T # {}
    PROVE  \E m \in T : \A k \in T : m <= k
<1> DEFINE Before == {p \in Nat \X Nat : p[1] < p[2]}
<1>1. IsWellFoundedOn(Before, Nat)
  BY NatLessThanWellFounded DEF OpToRel
<1>2. PICK m \in T : \A k \in T : <<k, m>> \notin Before
  <2> HIDE DEF Before
  <2> QED BY <1>1, WFMin
<1>3. ASSUME NEW k \in T PROVE m <= k
  <2>1. k \in Nat /\ m \in Nat /\ <<k, m>> \notin Before
    BY <1>2
  <2>2. QED BY <2>1
<1>4. QED BY <1>3
\* The library's Min picks one of the set.
LEMMA MinIsOne ==
    ASSUME NEW T, T \subseteq Nat, T # {}
    PROVE  Min(T) \in T
BY LeastOf DEF Min
\* The library's Max of two numbers is one of them, and no less than either.
LEMMA MaxOfTwo ==
    ASSUME NEW m \in Nat, NEW n \in Nat
    PROVE  Max({m, n}) \in {m, n} /\ m <= Max({m, n}) /\ n <= Max({m, n})
<1>1. \E x \in {m, n} : \A y \in {m, n} : x >= y
  <2>1. CASE m >= n
    BY <2>1
  <2>2. CASE n >= m
    BY <2>2
  <2>3. QED BY <2>1, <2>2
<1>2. QED BY <1>1 DEF Max
\* A power of two counts the subsets of as many numbers.
LEMMA PowerIsNatural ==
    ASSUME NEW n \in Nat
    PROVE  2 ^ n \in Nat
<1>1. IsFiniteSet(1..n) /\ Cardinality(1..n) = n
  BY FS_Interval
<1>2. IsFiniteSet(SUBSET (1..n)) /\ Cardinality(SUBSET (1..n)) = 2 ^ n
  BY <1>1, FS_SUBSET
<1>3. QED BY <1>2, FS_CardinalityType
\* A product of naturals is one.
LEMMA TimesIsNatural ==
    ASSUME NEW m \in Nat, NEW n \in Nat
    PROVE  m * n \in Nat
OBVIOUS
\* WaitAfter, however often a source failed, is a wait of at most LongestWait.
LEMMA WaitsBounded ==
    ASSUME NEW n \in Nat
    PROVE  backoff_ms(n) \in Nat /\ backoff_ms(n) <= LongestWait
<1>1. FreeTries \in Nat /\ LongestWait \in Nat /\ BaseWait \in Nat
  BY PairingAssumption
<1>2. CASE n <= FreeTries
  BY <1>1, <1>2 DEF backoff_ms
<1>3. CASE ~(n <= FreeTries)
  <2>1. n - FreeTries - 1 \in Nat
    BY <1>1, <1>3
  <2>2. BaseWait * 2 ^ (n - FreeTries - 1) \in Nat
    BY <1>1, <2>1, PowerIsNatural, TimesIsNatural
  <2>3. QED BY <1>1, <1>3, <2>2 DEF backoff_ms, AtMost
<1>4. QED BY <1>2, <1>3

\* Where a record may go: where it is; else where there is none, or one whose wait is over; else
\* a wait is given up, and only when there is no other place.
LEMMA SlotChosen ==
    ASSUME PairTypeOK, NEW s \in Sources, NEW i \in throttle_slot_for(s)
    PROVE  /\ i \in 1..NSlots
           /\ IsOf(i, s) \/ \A j \in 1..NSlots : ~IsOf(j, s)
           /\ slots[i].used /\ slots[i].addr # s => slots[i].wait = 0 \/ Displaces(i, s)
<1> DEFINE Used == {j \in 1..NSlots : slots[j].used}
           Own == {j \in Used : slots[j].addr = s}
           Idle == {j \in Used : slots[j].wait = 0}
<1>1. \A j \in Used : slots[j] \in Record
  <2>1. \A j \in 1..NSlots : slots[j] \in Record \cup {Free}
    BY DEF PairTypeOK
  <2>2. QED BY <2>1 DEF Free
<1>2. CASE Own # {}
  BY <1>2 DEF throttle_slot_for, IsOf
<1>3. CASE Own = {} /\ Used # 1..NSlots
  <2>1. i = Min((1..NSlots) \ Used)
    BY <1>3 DEF throttle_slot_for
  <2>2. (1..NSlots) \ Used \subseteq Nat /\ (1..NSlots) \ Used # {}
    BY <1>3
  <2>3. i \in (1..NSlots) \ Used
    BY <1>3, <2>1, <2>2, MinIsOne
  <2>4. QED BY <1>3, <2>3 DEF IsOf
<1>4. CASE Own = {} /\ Used = 1..NSlots /\ Idle # {}
  <2>1. i \in Idle
    BY <1>4 DEF throttle_slot_for, LeastActive
  <2>2. QED BY <1>4, <2>1 DEF IsOf
<1>5. CASE Own = {} /\ Used = 1..NSlots /\ Idle = {}
  <2>1. i \in Used
    BY <1>5 DEF throttle_slot_for, LeastActive
  <2>2. \A j \in 1..NSlots : slots[j].used /\ slots[j].wait > 0
    <3>1. TAKE j \in 1..NSlots
    <3>2. j \in Used /\ slots[j].wait # 0
      BY <1>5
    <3>3. slots[j].wait \in Nat
      BY <1>1, <3>2 DEF Record
    <3>4. QED BY <3>2, <3>3
  <2>3. QED BY <1>5, <2>1, <2>2 DEF IsOf, Displaces
<1>6. QED BY <1>2, <1>3, <1>4, <1>5

\* A record that is put there is the one of its source, and the others stay.
LEMMA RecordPut ==
    ASSUME PairTypeOK, Single, Remembered, NEW s \in Sources, NEW i \in throttle_slot_for(s),
           NEW r \in Record, r.addr = s, r.wait > 0 => r.idle + r.wait <= LongestWait,
           slots' = [slots EXCEPT ![i] = r]
    PROVE  /\ slots' \in [1..NSlots -> Record \cup {Free}]
           /\ Single' /\ Remembered' /\ IsOf(i, s)'
           /\ i \in 1..NSlots /\ slots'[i] = r
           /\ \A j \in 1..NSlots : j # i => slots'[j] = slots[j]
<1>1. /\ i \in 1..NSlots /\ slots \in [1..NSlots -> Record \cup {Free}]
      /\ IsOf(i, s) \/ \A j \in 1..NSlots : ~IsOf(j, s)
  BY SlotChosen DEF PairTypeOK
<1>2. slots'[i] = r /\ \A j \in 1..NSlots : j # i => slots'[j] = slots[j]
  BY <1>1
<1>3. slots' \in [1..NSlots -> Record \cup {Free}]
  BY <1>1
<1>4. IsOf(i, s)'
  BY <1>2 DEF IsOf, Record
<1>5. ASSUME NEW j \in 1..NSlots, IsOf(j, s)', j # i
      PROVE  FALSE
  BY <1>1, <1>2, <1>5 DEF Single, IsOf
<1>6. Single'
  <2>1. ASSUME NEW j \in 1..NSlots, NEW k \in 1..NSlots,
               slots'[j].used, slots'[k].used, slots'[j].addr = slots'[k].addr
        PROVE  j = k
    <3>1. CASE j = i \/ k = i
      BY <1>2, <1>5, <2>1, <3>1 DEF IsOf
    <3>2. CASE j # i /\ k # i
      BY <1>2, <2>1, <3>2 DEF Single
    <3>3. QED BY <3>1, <3>2
  <2>2. QED BY <2>1 DEF Single
<1>7. Remembered'
  BY <1>2 DEF Remembered
<1>8. QED BY <1>1, <1>2, <1>3, <1>4, <1>6, <1>7

\* A wait that is owed is remembered where the source is.
LEMMA OwedIsThere ==
    ASSUME PairTypeOK, Single, Remembered, Owes, NEW s \in Sources, owed[s] > 0, NEW i \in 1..NSlots, IsOf(i, s)
    PROVE  /\ slots[i] \in Record /\ owed[s] <= slots[i].wait /\ slots[i].wait > 0
           /\ slots[i].idle + slots[i].wait <= LongestWait
<1>1. PICK j \in 1..NSlots : IsOf(j, s) /\ owed[s] <= slots[j].wait
  BY DEF Owes
<1>2. j = i
  BY <1>1 DEF Single, IsOf
<1>3. slots[i] \in Record /\ owed[s] \in Nat
  BY DEF PairTypeOK, IsOf, Free
<1>4. owed[s] <= slots[i].wait /\ slots[i].wait \in Nat
  BY <1>1, <1>2, <1>3 DEF Record
<1>5. slots[i].wait > 0
  BY <1>3, <1>4
<1>6. QED BY <1>3, <1>4, <1>5 DEF Remembered, IsOf

\* The others' waits stay where they are, but for one that is given up.
LEMMA OthersWait ==
    ASSUME PairTypeOK, Single, Remembered, Owes, NEW s \in Sources, NEW i \in throttle_slot_for(s),
           NEW t \in Sources, t # s, owed[t] > 0, ~(Displaces(i, s) /\ slots[i].addr = t)
    PROVE  \E j \in 1..NSlots : j # i /\ IsOf(j, t) /\ owed[t] <= slots[j].wait
<1>1. PICK j \in 1..NSlots : IsOf(j, t) /\ owed[t] <= slots[j].wait
  BY DEF Owes
<1>2. slots[j].wait > 0
  BY <1>1, OwedIsThere
<1>3. slots[j].wait # 0
  BY <1>2
<1>4. j # i
  BY <1>1, <1>3, SlotChosen DEF IsOf
<1>5. QED BY <1>1, <1>4

\* What is known of a source is a record of it, with the wait that is left.
LEMMA KnownIs ==
    ASSUME PairTypeOK, Remembered, NEW s \in Sources, NEW i \in 1..NSlots
    PROVE  /\ Known(i, s) \in Record /\ Known(i, s).addr = s
           /\ Known(i, s).wait > 0 => Known(i, s).idle + Known(i, s).wait <= LongestWait
           /\ IsOf(i, s) /\ slots[i].idle <= Forget => Known(i, s).wait = slots[i].wait
<1>1. PICK z : z = 0
  OBVIOUS
<1>2. CASE IsOf(i, s) /\ slots[i].idle <= Forget
  <2>1. slots[i] \in Record /\ slots[i].addr = s
    BY <1>2 DEF PairTypeOK, IsOf, Free
  <2>2. Known(i, s) = [slots[i] EXCEPT !.idle = z]
    BY <1>1, <1>2, Zenon DEF Known, IsOf
  <2>3. z \in Nat
    BY <1>1
  <2>4. /\ Known(i, s) \in Record /\ Known(i, s).addr = s /\ Known(i, s).idle = z
        /\ Known(i, s).wait = slots[i].wait
    BY <2>1, <2>2, <2>3 DEF Record
  <2>5. slots[i].wait > 0 => slots[i].idle + slots[i].wait <= LongestWait
    BY <1>2 DEF Remembered, IsOf
  <2>6. slots[i].idle \in Nat /\ slots[i].wait \in Nat /\ LongestWait \in Nat
    BY <2>1, PairingAssumption DEF Record
  <2>7. QED BY <1>1, <2>4, <2>5, <2>6
<1>3. CASE ~(IsOf(i, s) /\ slots[i].idle <= Forget)
  <2>1. Known(i, s) = [used |-> TRUE, addr |-> s, fails |-> 0, idle |-> 0, wait |-> 0]
    BY <1>3 DEF Known, IsOf, Entry
  <2>2. QED BY <1>3, <2>1 DEF Record
<1>4. QED BY <1>2, <1>3
\* The meter.
Meters == [age : Nat, fails : Nat, wait : Nat]
\* One more failure is a block more.
LEMMA PaidMore ==
    ASSUME NEW n \in Nat
    PROVE  /\ Paid(n) \in Int /\ Paid(n + 1) = Paid(n) + Block /\ Paid(MaxFails) = 0
<1>1. MaxFails \in Int /\ Block \in Int
  BY PairingAssumption
<1>2. \A k \in Int : k * Block \in Int /\ (k + 1) * Block = k * Block + Block /\ 0 * Block = 0
  BY <1>1
<1>3. PICK k : k = n - MaxFails
  OBVIOUS
<1>4. k \in Int /\ (n + 1) - MaxFails = k + 1 /\ MaxFails - MaxFails = 0
  BY <1>1, <1>3
<1>5. Paid(n) = k * Block /\ Paid(n + 1) = (k + 1) * Block /\ Paid(MaxFails) = 0 * Block
  <2>1. Paid(n) = (n - MaxFails) * Block
    BY Zenon DEF Paid
  <2>2. Paid(n + 1) = ((n + 1) - MaxFails) * Block
    BY Zenon DEF Paid
  <2>3. Paid(MaxFails) = (MaxFails - MaxFails) * Block
    BY Zenon DEF Paid
  <2>4. QED BY <1>3, <1>4, <2>1, <2>2, <2>3, Zenon
<1>6. QED BY <1>2, <1>4, <1>5
\* A window that is over takes its failures along; while they reach MaxFails they stand.
LEMMA RolledIs ==
    ASSUME PairTypeOK, Metered
    PROVE  /\ Rolled \in Meters /\ Rolled.wait = meter.wait /\ Rolled.age <= Window
           /\ Rolled.fails <= MaxCount
           /\ Rolled.fails >= MaxFails => Rolled = meter /\ Rolled.fails = meter.fails /\ Rolled.age = meter.age
<1>1. /\ meter \in Meters /\ MaxFails \in Nat \ {0} /\ Window \in Nat /\ MaxCount \in Nat
      /\ meter.age \in Nat /\ meter.fails \in Nat
  BY PairingAssumption DEF PairTypeOK, Meters
<1>2. CASE meter.age > Window
  <2>1. PICK z : z = 0
    OBVIOUS
  <2>2. Rolled = [meter EXCEPT !.age = z, !.fails = z]
    BY <1>2, <2>1, Zenon DEF Rolled
  <2>3. z \in Nat
    BY <2>1
  <2>4. Rolled \in Meters /\ Rolled.wait = meter.wait /\ Rolled.age = z /\ Rolled.fails = z
    BY <1>1, <2>2, <2>3 DEF Meters
  <2>5. QED BY <1>1, <2>1, <2>4
<1>3. CASE ~(meter.age > Window)
  BY <1>1, <1>3 DEF Rolled, Metered
<1>4. QED BY <1>2, <1>3
\* So the meter keeps what it says when the window rolls.
LEMMA RolledKeeps ==
    ASSUME PairTypeOK, Metered, meter' = Rolled
    PROVE  meter' \in Meters /\ Metered' /\ meter'.wait = meter.wait
BY RolledIs DEF Metered, Paid
\* One more failure, when no block lasts.
LEMMA CountedKeeps ==
    ASSUME PairTypeOK, Metered, meter.wait = 0, meter' = CountedFail
    PROVE  meter' \in Meters /\ Metered'
<1> DEFINE f == AtMost(Rolled.fails + 1, MaxCount)
<1>1. /\ MaxFails \in Nat \ {0} /\ Window \in Nat /\ MaxCount \in Nat /\ Block \in Nat \ {0}
      /\ Rolled \in Meters /\ Rolled.fails \in Nat /\ Rolled.age \in Nat /\ Rolled.wait = 0
      /\ Rolled.fails <= MaxCount /\ Rolled.age <= Window
  BY RolledIs, PairingAssumption DEF Meters
<1>2. /\ f \in Nat /\ f <= MaxCount
      /\ f = Rolled.fails + 1 \/ (f = Rolled.fails /\ f = MaxCount)
  BY <1>1 DEF AtMost
<1>3. [Rolled EXCEPT !.fails = @ + 1] = [Rolled EXCEPT !.fails = Rolled.fails + 1]
  BY <1>1
<1>4. PICK w : w = IF f >= MaxFails THEN Block ELSE 0
  OBVIOUS
<1>5. /\ meter' \in Meters /\ meter'.fails = f /\ meter'.age = Rolled.age /\ meter'.wait = w
  <2> HIDE DEF f
  <2>1. PICK m : m = [Rolled EXCEPT !.fails = f]
    OBVIOUS
  <2>2. m \in Meters /\ m.fails = f /\ m.age = Rolled.age /\ m.wait = 0
    BY <1>1, <1>2, <2>1 DEF Meters
  <2>3. meter' = IF would_block(f) THEN [m EXCEPT !.wait = Block] ELSE m
    BY <2>1, <2>2, Zenon DEF CountedFail, f
  <2>4. CASE f >= MaxFails
    <3>1. meter' = [m EXCEPT !.wait = Block] /\ w = Block
      BY <1>4, <2>3, <2>4 DEF would_block
    <3>2. QED BY <1>1, <2>2, <3>1 DEF Meters
  <2>5. CASE ~(f >= MaxFails)
    BY <1>4, <2>2, <2>3, <2>5 DEF would_block
  <2>6. QED BY <2>4, <2>5
<1>6. ASSUME f >= MaxFails
      PROVE  Paid(f) <= Rolled.age
  <2> HIDE DEF f
  <2>1. CASE Rolled.fails >= MaxFails
    <3>1. Paid(Rolled.fails) + Block <= Rolled.age /\ Paid(Rolled.fails) \in Int
      <4>1. Rolled = meter /\ meter.fails >= MaxFails /\ meter.age <= Window
        BY <1>1, <2>1, RolledIs
      <4>2. Paid(meter.fails) + Block - 0 <= meter.age /\ meter.fails \in Nat /\ meter.age \in Nat
        BY <1>1, <4>1 DEF Metered
      <4>3. QED BY <1>1, <4>1, <4>2, PaidMore
    <3>2. Paid(f) = Paid(Rolled.fails) \/ Paid(f) = Paid(Rolled.fails) + Block
      BY <1>1, <1>2, PaidMore
    <3>3. QED BY <1>1, <3>1, <3>2
  <2>2. CASE ~(Rolled.fails >= MaxFails)
    <3>1. f = MaxFails
      BY <1>1, <1>2, <1>6, <2>2
    <3>2. QED BY <1>1, <3>1, PaidMore
  <2>3. QED BY <2>1, <2>2
<1>7. Metered'
  <2> HIDE DEF f
  <2>1. CASE f >= MaxFails
    <3>1. Paid(f) <= Rolled.age /\ w = Block /\ Paid(f) \in Int
      BY <1>2, <1>4, <1>6, <2>1, PaidMore
    <3>2. Paid(f) <= Window /\ Paid(f) + Block - w <= Rolled.age
      BY <1>1, <3>1
    <3>3. QED BY <1>1, <1>2, <1>5, <2>1, <3>1, <3>2 DEF Metered, Paid
  <2>2. CASE ~(f >= MaxFails)
    BY <1>1, <1>2, <1>4, <1>5, <2>2 DEF Metered
  <2>3. QED BY <2>1, <2>2
<1>8. QED BY <1>5, <1>7
\* Time passes.
LEMMA MeterTicks ==
    ASSUME PairTypeOK, Metered, meter' = [meter EXCEPT !.age = AtMost(@ + 1, Window + 1), !.wait = Less(@)]
    PROVE  meter' \in Meters /\ Metered' /\ (meter.wait = 0 => meter'.wait = 0)
<1>1. /\ meter \in Meters /\ meter.age \in Nat /\ meter.wait \in Nat /\ meter.fails \in Nat
      /\ Window \in Nat /\ Block \in Nat
  BY PairingAssumption DEF PairTypeOK, Meters
<1>2. PICK a : a = AtMost(meter.age + 1, Window + 1)
  OBVIOUS
<1>3. PICK w : w = Less(meter.wait)
  OBVIOUS
<1>4. meter' = [meter EXCEPT !.age = a, !.wait = w]
  BY <1>2, <1>3, Zenon
<1>5. /\ a \in Nat /\ (meter.age <= Window => a = meter.age + 1) /\ (meter.age > Window => a > Window)
      /\ w \in Nat /\ w <= meter.wait /\ meter.wait <= w + 1
  BY <1>1, <1>2, <1>3 DEF AtMost, Less
<1>6. meter' \in Meters /\ meter'.age = a /\ meter'.wait = w /\ meter'.fails = meter.fails
  BY <1>1, <1>4, <1>5 DEF Meters
<1>7. Paid(meter.fails) \in Int
  BY <1>1, PaidMore
<1>8. Metered'
  <2>1. /\ meter.fails <= MaxCount /\ meter.wait <= Block
        /\ meter.fails >= MaxFails =>
              /\ meter.age > Window \/ Paid(meter.fails) + Block - meter.wait <= meter.age
              /\ Paid(meter.fails) <= Window
    BY DEF Metered
  <2>2. meter.fails >= MaxFails =>
           a > Window \/ Paid(meter.fails) + Block - w <= a
    BY <1>1, <1>5, <1>7, <2>1
  <2>3. w <= Block
    BY <1>1, <1>5, <2>1
  <2>4. QED BY <1>6, <2>1, <2>2, <2>3 DEF Metered, Paid
<1>9. QED BY <1>5, <1>6, <1>8

\* A connection is taken from the queue: it is told to wait, or it is served and owes nothing.
LEMMA AcceptKeeps ==
    ASSUME PairInv, AcceptJoin
    PROVE  PairInv'
<1>1. PairTypeOK /\ Single /\ Remembered /\ Owes /\ ServedInTurn /\ Metered
  BY DEF PairInv
<1>0. PICK c, s : c = Head(backlog) /\ s = c.src
  OBVIOUS
<1>2. c \in Connection /\ s \in Sources /\ backlog' \in Seq(Connection)
  <2>1. backlog \in Seq(Connection) /\ backlog # <<>> /\ backlog' = Tail(backlog)
    BY <1>1 DEF PairTypeOK, AcceptJoin
  <2>2. c \in Connection /\ backlog' \in Seq(Connection)
    BY <1>0, <2>1
  <2>3. QED BY <1>0, <2>2 DEF Connection
<1>3. PICK i \in throttle_slot_for(s) :
        /\ throttle_check(i, s)
        /\ IF WaitOf(i, s) > 0 THEN serving' = NoConn
           ELSE serving' = [none |-> FALSE, conn |-> c, left |-> Deadline]
  BY <1>0 DEF AcceptJoin
<1>4. /\ slots' = [slots EXCEPT ![i] = Known(i, s)] /\ meter' = Rolled
      /\ owed' = IF Displaces(i, s) THEN [owed EXCEPT ![slots[i].addr] = 0] ELSE owed
  BY <1>3 DEF throttle_check
<1>5. /\ i \in 1..NSlots
      /\ IsOf(i, s) \/ \A j \in 1..NSlots : ~IsOf(j, s)
  BY <1>1, <1>2, SlotChosen
<1>6. /\ Known(i, s) \in Record /\ Known(i, s).addr = s
      /\ Known(i, s).wait > 0 => Known(i, s).idle + Known(i, s).wait <= LongestWait
      /\ IsOf(i, s) /\ slots[i].idle <= Forget => Known(i, s).wait = slots[i].wait
  BY <1>1, <1>2, <1>5, KnownIs
<1>7. /\ slots' \in [1..NSlots -> Record \cup {Free}] /\ Single' /\ Remembered' /\ IsOf(i, s)'
      /\ slots'[i] = Known(i, s) /\ \A j \in 1..NSlots : j # i => slots'[j] = slots[j]
  BY <1>1, <1>2, <1>4, <1>6, RecordPut
<1>8. meter' \in Meters /\ Metered' /\ meter'.wait = meter.wait
  BY <1>1, <1>4, RolledKeeps
<1>9. owed' \in [Sources -> Nat]
      /\ \A t \in Sources : owed'[t] > 0 => owed'[t] = owed[t] /\ ~(Displaces(i, s) /\ slots[i].addr = t)
  <2>1. CASE Displaces(i, s)
    <3>1. slots[i].addr \in Sources
      <4>1. slots[i].used /\ slots[i] \in Record \cup {Free}
        BY <1>1, <1>5, <2>1 DEF Displaces, PairTypeOK
      <4>2. slots[i] \in Record
        BY <4>1 DEF Free
      <4>3. QED BY <4>2 DEF Record
    <3>2. owed' = [owed EXCEPT ![slots[i].addr] = 0] /\ owed \in [Sources -> Nat]
      BY <1>1, <1>4, <2>1 DEF PairTypeOK
    <3>3. QED BY <3>1, <3>2
  <2>2. CASE ~Displaces(i, s)
    BY <1>1, <1>4, <2>2 DEF PairTypeOK
  <2>3. QED BY <2>1, <2>2
<1>10. owed'[s] > 0 => Known(i, s).wait > 0 /\ owed'[s] <= Known(i, s).wait
  <2> SUFFICES ASSUME owed'[s] > 0 PROVE Known(i, s).wait > 0 /\ owed'[s] <= Known(i, s).wait
    OBVIOUS
  <2>1. owed[s] > 0 /\ owed'[s] = owed[s]
    BY <1>2, <1>9
  <2>2. IsOf(i, s)
    BY <1>1, <1>2, <1>5, <2>1 DEF Owes
  <2>3. /\ slots[i] \in Record /\ owed[s] <= slots[i].wait /\ slots[i].wait > 0
        /\ slots[i].idle + slots[i].wait <= LongestWait
    BY <1>1, <1>2, <1>5, <2>1, <2>2, OwedIsThere
  <2>4. slots[i].idle <= Forget
    <3>1. slots[i].idle \in Nat /\ slots[i].wait \in Nat /\ LongestWait \in Nat /\ Forget \in Nat /\ LongestWait < Forget
      BY <2>3, PairingAssumption DEF Record
    <3>2. QED BY <2>3, <3>1
  <2>5. QED BY <1>6, <2>1, <2>2, <2>3, <2>4
<1>11. Owes'
  <2>1. ASSUME NEW t \in Sources, owed'[t] > 0
        PROVE  \E j \in 1..NSlots : IsOf(j, t)' /\ owed'[t] <= slots'[j].wait
    <3>1. CASE t = s
      <4>1. IsOf(i, t)' /\ owed'[t] <= slots'[i].wait
        BY <1>7, <1>10, <2>1, <3>1
      <4>2. QED BY <1>5, <4>1
    <3>2. CASE t # s
      <4>1. owed[t] > 0 /\ owed'[t] = owed[t] /\ ~(Displaces(i, s) /\ slots[i].addr = t)
        BY <1>9, <2>1
      <4>2. PICK j \in 1..NSlots : j # i /\ IsOf(j, t) /\ owed[t] <= slots[j].wait
        BY <1>1, <1>2, <3>2, <4>1, OthersWait
      <4>3. IsOf(j, t)' /\ owed'[t] <= slots'[j].wait
        BY <1>7, <4>1, <4>2 DEF IsOf
      <4>4. QED BY <4>3
    <3>3. QED BY <3>1, <3>2
  <2>2. QED BY <2>1 DEF Owes
<1>12. (serving' = NoConn \/ serving' \in Service) /\ ServedInTurn'
  <2>1. CASE WaitOf(i, s) > 0
    BY <1>3, <2>1 DEF ServedInTurn
  <2>2. CASE ~(WaitOf(i, s) > 0)
    <3>1. serving' = [none |-> FALSE, conn |-> c, left |-> Deadline]
      BY <1>3, <2>2
    <3>2. serving' \in Service /\ serving'.conn.src = s
      BY <1>0, <1>2, <3>1, PairingAssumption DEF Service
    <3>3. Known(i, s).wait \in Nat /\ Rolled.wait \in Nat /\ Rolled.wait = meter.wait
      BY <1>1, <1>6, RolledIs DEF Record, Meters
    <3>4. Known(i, s).wait = 0 /\ Rolled.wait = 0
      BY <2>2, <3>3, MaxOfTwo DEF WaitOf
    <3>5. owed'[s] = 0
      BY <1>2, <1>9, <1>10, <3>4
    <3>6. IsOf(i, s)' /\ meter'.wait = 0
      BY <1>4, <1>7, <3>4
    <3>7. QED BY <1>5, <3>2, <3>5, <3>6 DEF ServedInTurn
  <2>3. QED BY <2>1, <2>2
<1>13. PairTypeOK'
  BY <1>2, <1>7, <1>8, <1>9, <1>12 DEF PairTypeOK, Meters
<1>14. QED BY <1>7, <1>8, <1>11, <1>12, <1>13 DEF PairInv

\* A proof is judged: the record is that of the machine that was served.
LEMMA RecordKeeps ==
    ASSUME PairInv, serving # NoConn, NEW i \in throttle_slot_for(serving.conn.src), NEW success \in BOOLEAN,
           throttle_record(i, serving.conn.src, success), serving' = NoConn, UNCHANGED backlog
    PROVE  PairInv'
<1>0. PICK s : s = serving.conn.src
  OBVIOUS
<1>1. /\ PairTypeOK /\ Single /\ Remembered /\ Owes /\ ServedInTurn /\ Metered /\ s \in Sources
      /\ i \in throttle_slot_for(s) /\ throttle_record(i, s, success)
  BY <1>0 DEF PairInv, PairTypeOK, Service, Connection
<1>2. /\ i \in 1..NSlots /\ meter.wait = 0 /\ \E j \in 1..NSlots : IsOf(j, s)
  BY <1>0, <1>1, SlotChosen DEF ServedInTurn
<1>3. IsOf(i, s)
  BY <1>1, <1>2, SlotChosen
<1>4. PICK r \in Record, w \in Nat :
          /\ slots' = [slots EXCEPT ![i] = r] /\ owed' = [owed EXCEPT ![s] = w]
          /\ r.addr = s /\ r.idle = 0 /\ r.wait = w /\ w <= LongestWait
          /\ meter' \in {meter, CountedFail}
  <2>1. CASE success
    <3>1. /\ slots' = [slots EXCEPT ![i] = Entry(s)] /\ owed' = [owed EXCEPT ![s] = 0] /\ meter' = meter
      BY <1>1, <2>1 DEF throttle_record
    <3>2. Entry(s) \in Record /\ Entry(s).addr = s /\ Entry(s).idle = 0 /\ Entry(s).wait = 0
      BY <1>1 DEF Entry, Record
    <3>3. 0 \in Nat /\ 0 <= LongestWait
      BY PairingAssumption
    <3>4. QED BY <3>1, <3>2, <3>3
  <2>2. CASE ~success
    <3> DEFINE f == AtMost(Known(i, s).fails + 1, MaxCount)
    <3>1. /\ slots' = [slots EXCEPT ![i] = [Entry(s) EXCEPT !.fails = f, !.wait = backoff_ms(f)]]
          /\ meter' = CountedFail /\ owed' = [owed EXCEPT ![s] = backoff_ms(f)]
      BY <1>1, <2>2 DEF throttle_record
    <3>2. f \in Nat
      <4>1. Known(i, s).fails \in Nat /\ MaxCount \in Nat
        BY <1>1, <1>2, KnownIs, PairingAssumption DEF Record
      <4>2. QED BY <4>1 DEF AtMost
    <3> HIDE DEF f
    <3>3. backoff_ms(f) \in Nat /\ backoff_ms(f) <= LongestWait
      BY <3>2, WaitsBounded
    <3>4. PICK r : r = [Entry(s) EXCEPT !.fails = f, !.wait = backoff_ms(f)]
      OBVIOUS
    <3>5. r \in Record /\ r.addr = s /\ r.idle = 0 /\ r.wait = backoff_ms(f)
      <4>1. PICK w : w = backoff_ms(f)
        OBVIOUS
      <4>2. w \in Nat /\ r = [Entry(s) EXCEPT !.fails = f, !.wait = w]
        BY <3>3, <3>4, <4>1
      <4>3. Entry(s) \in Record /\ Entry(s).addr = s /\ Entry(s).idle = 0
        BY <1>1 DEF Entry, Record
      <4>4. r \in Record /\ r.addr = s /\ r.idle = 0 /\ r.wait = w
        BY <3>2, <4>2, <4>3 DEF Record
      <4>5. QED BY <4>1, <4>4
    <3>6. QED BY <3>1, <3>3, <3>4, <3>5
  <2>3. QED BY <2>1, <2>2
<1>5. r.wait > 0 => r.idle + r.wait <= LongestWait
  BY <1>4
<1>6. /\ slots' \in [1..NSlots -> Record \cup {Free}] /\ Single' /\ Remembered' /\ IsOf(i, s)'
      /\ slots'[i] = r /\ \A j \in 1..NSlots : j # i => slots'[j] = slots[j]
  BY <1>1, <1>4, <1>5, RecordPut
<1>7. meter' \in Meters /\ Metered'
  <2>1. CASE meter' = meter
    BY <1>1, <2>1 DEF PairTypeOK, Meters, Metered, Paid
  <2>2. CASE meter' = CountedFail
    BY <1>1, <1>2, <2>2, CountedKeeps
  <2>3. QED BY <1>4, <2>1, <2>2
<1>8. owed' \in [Sources -> Nat] /\ owed'[s] = w /\ \A t \in Sources : t # s => owed'[t] = owed[t]
  BY <1>1, <1>4 DEF PairTypeOK
<1>9. Owes'
  <2>1. ASSUME NEW t \in Sources, owed'[t] > 0
        PROVE  \E j \in 1..NSlots : IsOf(j, t)' /\ owed'[t] <= slots'[j].wait
    <3>1. CASE t = s
      <4>1. IsOf(i, t)' /\ owed'[t] <= slots'[i].wait
        BY <1>4, <1>6, <1>8, <3>1
      <4>2. QED BY <1>2, <4>1
    <3>2. CASE t # s
      <4>1. owed[t] > 0 /\ owed'[t] = owed[t] /\ ~(Displaces(i, s) /\ slots[i].addr = t)
        BY <1>3, <1>8, <2>1, <3>2 DEF IsOf
      <4>2. PICK j \in 1..NSlots : j # i /\ IsOf(j, t) /\ owed[t] <= slots[j].wait
        BY <1>1, <3>2, <4>1, OthersWait
      <4>3. IsOf(j, t)' /\ owed'[t] <= slots'[j].wait
        BY <1>6, <4>1, <4>2 DEF IsOf
      <4>4. QED BY <4>3
    <3>3. QED BY <3>1, <3>2
  <2>2. QED BY <2>1 DEF Owes
<1>10. PairTypeOK'
  BY <1>1, <1>6, <1>7, <1>8 DEF PairTypeOK, Meters
<1>11. ServedInTurn'
  BY DEF ServedInTurn
<1>12. QED BY <1>6, <1>7, <1>9, <1>10, <1>11 DEF PairInv
\* Both ways a proof is judged, and a connection that is given up, keep the throttle whole.
LEMMA JudgedKeeps ==
    ASSUME PairInv, JudgeHello \/ HelloMissing
    PROVE  PairInv'
<1>1. PICK i \in throttle_slot_for(serving.conn.src), success \in BOOLEAN : throttle_record(i, serving.conn.src, success)
  BY DEF JudgeHello, HelloMissing
<1>2. serving # NoConn /\ serving' = NoConn /\ UNCHANGED backlog
  BY DEF JudgeHello, HelloMissing
<1>3. QED BY <1>1, <1>2, RecordKeeps

\* A machine dials.
LEMMA KnockKeeps ==
    ASSUME PairInv, NEW s \in Sources, NEW hello \in Hellos, Knock(s, hello)
    PROVE  PairInv'
<1>1. /\ backlog' = Append(backlog, [src |-> s, hello |-> hello, gone |-> FALSE])
      /\ UNCHANGED <<slots, meter, serving, owed>>
  BY DEF Knock
<1>2. PairTypeOK'
  <2>1. [src |-> s, hello |-> hello, gone |-> FALSE] \in Connection
    BY DEF Connection
  <2>2. backlog' \in Seq(Connection)
    BY <1>1, <2>1 DEF PairInv, PairTypeOK
  <2>3. QED BY <1>1, <2>2 DEF PairInv, PairTypeOK
<1>3. QED BY <1>1, <1>2 DEF PairInv, Single, Remembered, Owes, IsOf, ServedInTurn, Metered, Paid

\* Time passes.
LEMMA JoinTickKeeps ==
    ASSUME PairInv, JoinTick
    PROVE  PairInv'
<1>1. PairTypeOK /\ Single /\ Remembered /\ Owes /\ ServedInTurn /\ Metered
  BY DEF PairInv
<1>2. /\ meter' \in Meters /\ Metered' /\ (meter.wait = 0 => meter'.wait = 0)
  <2>1. meter' = [meter EXCEPT !.age = AtMost(@ + 1, Window + 1), !.wait = Less(@)]
    BY DEF JoinTick
  <2>2. QED BY <1>1, <2>1, MeterTicks
<1>3. ASSUME NEW i \in 1..NSlots
      PROVE  /\ ~slots[i].used => slots'[i] = Free
             /\ slots[i].used => /\ slots[i] \in Record /\ slots'[i] \in Record
                                 /\ slots'[i].addr = slots[i].addr
                                 /\ slots'[i].wait = Less(slots[i].wait)
                                 /\ slots'[i].idle <= slots[i].idle + 1
  <2>1. slots'[i] = IF slots[i].used THEN [slots[i] EXCEPT !.idle = AtMost(@ + 1, Forget + 1), !.wait = Less(@)]
                    ELSE Free
    BY DEF JoinTick
  <2>2. ASSUME slots[i].used
        PROVE  /\ slots[i] \in Record /\ slots'[i] \in Record
               /\ slots'[i].addr = slots[i].addr /\ slots'[i].wait = Less(slots[i].wait)
               /\ slots'[i].idle <= slots[i].idle + 1
    <3>1. slots[i] \in Record
      BY <1>1, <2>2 DEF PairTypeOK, Free
    <3>2. PICK d : d = AtMost(slots[i].idle + 1, Forget + 1)
      OBVIOUS
    <3>3. PICK w : w = Less(slots[i].wait)
      OBVIOUS
    <3>4. slots'[i] = [slots[i] EXCEPT !.idle = d, !.wait = w]
      BY <2>1, <2>2, <3>2, <3>3, Zenon
    <3>5. d \in Nat /\ w \in Nat /\ d <= slots[i].idle + 1
      <4>1. slots[i].idle \in Nat /\ slots[i].wait \in Nat /\ Forget \in Nat
        BY <3>1, PairingAssumption DEF Record
      <4>2. QED BY <3>2, <3>3, <4>1 DEF AtMost, Less
    <3>6. slots'[i] \in Record /\ slots'[i].addr = slots[i].addr /\ slots'[i].wait = w /\ slots'[i].idle = d
      BY <3>1, <3>4, <3>5 DEF Record
    <3>7. QED BY <3>1, <3>3, <3>5, <3>6
  <2>3. QED BY <2>1, <2>2
<1>4. \A i \in 1..NSlots : slots'[i].used = slots[i].used
  <2>1. TAKE i \in 1..NSlots
  <2>2. slots[i] \in Record \cup {Free}
    BY <1>1 DEF PairTypeOK
  <2>3. QED BY <1>3, <2>2 DEF Record, Free
<1>5. slots' \in [1..NSlots -> Record \cup {Free}]
  <2>1. slots' = [i \in 1..NSlots |-> slots'[i]]
    BY DEF JoinTick
  <2>2. \A i \in 1..NSlots : slots'[i] \in Record \cup {Free}
    BY <1>3
  <2>3. QED BY <2>1, <2>2
<1>6. Single'
  BY <1>1, <1>3, <1>4 DEF Single
<1>7. Remembered'
  <2>1. ASSUME NEW i \in 1..NSlots, slots'[i].used, slots'[i].wait > 0
        PROVE  slots'[i].idle + slots'[i].wait <= LongestWait
    <3>1. /\ slots[i] \in Record /\ slots'[i] \in Record
          /\ slots'[i].wait = Less(slots[i].wait) /\ slots'[i].idle <= slots[i].idle + 1
      BY <1>3, <1>4, <2>1
    <3>2. /\ slots[i].wait \in Nat /\ slots[i].idle \in Nat /\ slots'[i].idle \in Nat
          /\ LongestWait \in Nat
      BY <3>1, PairingAssumption DEF Record
    <3>3. slots[i].wait > 0 /\ slots'[i].wait = slots[i].wait - 1
      BY <2>1, <3>1, <3>2 DEF Less
    <3>4. slots[i].idle + slots[i].wait <= LongestWait
      BY <1>1, <1>4, <2>1, <3>3 DEF Remembered
    <3>5. QED BY <3>1, <3>2, <3>3, <3>4
  <2>2. QED BY <2>1 DEF Remembered
<1>8. owed' \in [Sources -> Nat] /\ \A t \in Sources : owed[t] \in Nat /\ owed'[t] = Less(owed[t])
  <2>1. owed \in [Sources -> Nat] /\ owed' = [t \in Sources |-> Less(owed[t])]
    BY <1>1 DEF PairTypeOK, JoinTick
  <2>2. \A n \in Nat : Less(n) \in Nat
    BY DEF Less
  <2>3. QED BY <2>1, <2>2
<1>9. Owes'
  <2>1. ASSUME NEW t \in Sources, owed'[t] > 0
        PROVE  \E j \in 1..NSlots : IsOf(j, t)' /\ owed'[t] <= slots'[j].wait
    <3>1. owed[t] \in Nat /\ owed'[t] = Less(owed[t])
      BY <1>8
    <3>2. owed[t] > 0
      BY <2>1, <3>1 DEF Less
    <3>3. PICK j \in 1..NSlots : IsOf(j, t) /\ owed[t] <= slots[j].wait
      BY <1>1, <3>2 DEF Owes
    <3>4. /\ slots[j].used /\ slots[j].addr = t /\ slots'[j].used
      BY <1>4, <3>3 DEF IsOf
    <3>5. slots[j] \in Record /\ slots'[j].addr = t /\ slots'[j].wait = Less(slots[j].wait)
      BY <1>3, <3>4
    <3>6. slots[j].wait \in Nat
      BY <3>5 DEF Record
    <3>7. owed'[t] <= slots'[j].wait
      BY <3>1, <3>3, <3>5, <3>6 DEF Less
    <3>8. IsOf(j, t)'
      BY <3>4, <3>5 DEF IsOf
    <3>9. QED BY <3>7, <3>8
  <2>2. QED BY <2>1 DEF Owes
<1>10. backlog' \in Seq(Connection)
  <2> DEFINE Leaves(c) == [c EXCEPT !.gone = @ \/ patience[c.src] = 1]
  <2>1. \A c \in Connection : Leaves(c) \in Connection
    BY DEF Connection
  <2>2. backlog' = [k \in DOMAIN backlog |-> Leaves(backlog[k])] /\ backlog \in Seq(Connection)
    BY <1>1 DEF JoinTick, PairTypeOK
  <2> HIDE DEF Leaves
  <2>3. QED BY <2>1, <2>2
<1>11. (serving' = NoConn \/ serving' \in Service) /\ ServedInTurn'
  <2>1. CASE serving = NoConn
    BY <2>1 DEF JoinTick, ServedInTurn
  <2>2. CASE serving # NoConn
    <3> DEFINE Leaves(c) == [c EXCEPT !.gone = @ \/ patience[c.src] = 1]
    <3>1. serving \in Service /\ serving.conn \in Connection /\ serving.left \in Int
      BY <1>1, <2>2 DEF PairTypeOK, Service
    <3>2. PICK k, n : k = Leaves(serving.conn) /\ n = serving.left - 1
      OBVIOUS
    <3>3. k \in Connection /\ k.src = serving.conn.src /\ n \in Int
      <4>1. k = [serving.conn EXCEPT !.gone = serving.conn.gone \/ patience[serving.conn.src] = 1]
        BY <3>2
      <4>2. k \in Connection /\ k.src = serving.conn.src
        BY <3>1, <4>1 DEF Connection
      <4>3. n \in Int
        BY <3>1, <3>2
      <4>4. QED BY <4>2, <4>3
    <3>4. serving' = [serving EXCEPT !.left = n, !.conn = k]
      BY <2>2, <3>2, Zenon DEF JoinTick
    <3>5. serving' \in Service /\ serving'.conn = k
      BY <3>1, <3>3, <3>4 DEF Service
    <3>6. serving.conn.src \in Sources /\ owed[serving.conn.src] = 0 /\ meter.wait = 0
      BY <1>1, <2>2, <3>1 DEF ServedInTurn, Connection
    <3>7. owed'[serving.conn.src] = 0 /\ meter'.wait = 0
      BY <1>2, <1>8, <3>6 DEF Less
    <3>8. PICK i \in 1..NSlots : IsOf(i, serving.conn.src)
      BY <1>1, <2>2 DEF ServedInTurn
    <3>9. IsOf(i, serving.conn.src)'
      BY <1>3, <1>4, <3>3, <3>5, <3>8 DEF IsOf
    <3>10. QED BY <3>3, <3>5, <3>7, <3>9 DEF ServedInTurn
  <2>3. QED BY <2>1, <2>2
<1>12. PairTypeOK'
  BY <1>2, <1>5, <1>8, <1>10, <1>11 DEF PairTypeOK, Meters
<1>13. QED BY <1>2, <1>6, <1>7, <1>9, <1>11, <1>12 DEF PairInv

\* Nothing is recorded at the start.
LEMMA PairStarts ==
    ASSUME PairInit
    PROVE  PairInv
<1>1. /\ slots = [i \in 1..NSlots |-> Free] /\ meter = [age |-> 0, fails |-> 0, wait |-> 0]
      /\ backlog = <<>> /\ serving = NoConn /\ owed = [s \in Sources |-> 0]
  BY DEF PairInit
<1>2. PairTypeOK
  BY <1>1 DEF PairTypeOK
<1>3. \A i \in 1..NSlots : ~slots[i].used
  BY <1>1 DEF Free
<1>4. Single /\ Remembered /\ Owes /\ ServedInTurn
  BY <1>1, <1>3 DEF Single, Remembered, Owes, ServedInTurn
<1>5. Metered
  BY <1>1, PairingAssumption DEF Metered
<1>6. QED BY <1>2, <1>4, <1>5 DEF PairInv
\* Every step of the join port keeps the invariant.
LEMMA PairStepKeeps ==
    ASSUME PairInv, [PairNext]_pairVars
    PROVE  PairInv'
<1>1. CASE PairNext
  BY <1>1, KnockKeeps, AcceptKeeps, JudgedKeeps, JoinTickKeeps DEF PairNext
<1>2. CASE UNCHANGED pairVars
  BY <1>2 DEF pairVars, PairInv, PairTypeOK, Single, Remembered, Owes, IsOf, ServedInTurn, Metered, Paid
<1>3. QED BY <1>1, <1>2
\* What is multiplied below a bound is below its quotient.
LEMMA DivBounds ==
    ASSUME NEW k \in Nat, NEW b \in Nat \ {0}, NEW w \in Nat, k * b <= w
    PROVE  k <= w \div b
OBVIOUS
\* A machine that is served owes no wait, and failures beyond the free ones are as many as blocks
\* fit in the window.
LEMMA PairInvIsEnough ==
    ASSUME PairInv
    PROVE  PairingHolds
<1>1. PenaltyStands
  BY DEF PairInv, ServedInTurn, PenaltyStands
<1>2. GuessRateBounded
  <2>a. /\ MaxFails \in Nat /\ Block \in Nat \ {0} /\ Window \in Nat
    BY PairingAssumption
  <2>b. \A b \in Nat \ {0}, w \in Nat : w \div b \in Nat
    OBVIOUS
  <2>c. meter.fails \in Nat
    BY DEF PairInv, PairTypeOK
  <2>1. /\ meter.fails \in Nat /\ MaxFails \in Nat /\ Block \in Nat \ {0} /\ Window \in Nat
        /\ Window \div Block \in Nat
    BY <2>a, <2>b, <2>c
  <2>2. CASE meter.fails >= MaxFails
    <3>1. PICK k : k = meter.fails - MaxFails
      OBVIOUS
    <3>2. k \in Nat /\ k * Block <= Window
      BY <2>1, <2>2, <3>1 DEF PairInv, Metered, Paid
    <3>3. k <= Window \div Block
      BY <2>1, <3>2, DivBounds
    <3>4. QED BY <2>1, <3>1, <3>2, <3>3 DEF GuessRateBounded
  <2>3. CASE ~(meter.fails >= MaxFails)
    BY <2>1, <2>3 DEF GuessRateBounded
  <2>4. QED BY <2>2, <2>3
<1>3. QED BY <1>1, <1>2 DEF PairingHolds

\* Discovery: every address on its way is one of our group's.
AddressesOurs ==
    /\ cloud # NoAddr => cloud \in ever
    /\ \A c \in Ours : adv[c] # NoAddr => adv[c] \in ever
    /\ \A b \in reply : b.addr # NoAddr => b.addr \in ever
    /\ found # NoAddr => found \in Given \cup ever
\* No address is on its way at the start.
LEMMA FindStarts ==
    ASSUME FindInit
    PROVE  AddressesOurs
BY DiscoveryAssumption DEF FindInit, AddressesOurs
\* Every step of a search and of the coordinators keeps that.
LEMMA FindStepKeeps ==
    ASSUME AddressesOurs, [FindNext]_findVars
    PROVE  AddressesOurs'
<1>1. ASSUME NEW c \in Coords, Advertise(c)
      PROVE  AddressesOurs'
  BY <1>1 DEF Advertise, AddressesOurs
<1>2. ASSUME NEW c \in Coords, Withdraw(c)
      PROVE  AddressesOurs'
  BY <1>2 DEF Withdraw, AddressesOurs
<1>3. ASSUME NEW c \in Coords, AnswerQuery(c)
      PROVE  AddressesOurs'
  BY <1>3 DEF AnswerQuery, AddressesOurs
<1>4. ASSUME NEW c \in Coords, Register(c)
      PROVE  AddressesOurs'
  BY <1>4 DEF Register, AddressesOurs
<1>5. CASE StartSearch
  BY <1>5 DEF StartSearch, Come, Try, AddressesOurs
<1>6. CASE ReadAnswer
  BY <1>6 DEF ReadAnswer, Come, AddressesOurs
<1>7. CASE ReadNothing \/ ReadOther
  BY <1>7 DEF ReadNothing, ReadOther, ReadInVain, AddressesOurs
<1>8. CASE ProviderEnds
  BY <1>8 DEF ProviderEnds, NextProvider, Try, AddressesOurs
<1>9. CASE AskCloud
  BY <1>9 DEF AskCloud, Come, AddressesOurs
<1>10. CASE Lose
  BY <1>10 DEF Lose, AddressesOurs
<1>11. CASE UNCHANGED findVars
  BY <1>11 DEF findVars, AddressesOurs
<1>12. QED BY <1>1, <1>2, <1>3, <1>4, <1>5, <1>6, <1>7, <1>8, <1>9, <1>10, <1>11 DEF FindNext

\* Multiplication is monotonic.
LEMMA Monotone ==
    ASSUME NEW p \in Nat, NEW i \in Nat, NEW j \in Nat, i <= j
    PROVE  p * i <= p * j
<1>1. PICK d \in Nat : j = i + d
  <2>1. j - i \in Nat /\ j = i + (j - i)
    OBVIOUS
  <2>2. QED BY <2>1
<1>2. p * j = p * i + p * d /\ p * d \in Nat /\ p * i \in Nat
  BY <1>1
<1>3. QED BY <1>2
\* What the quotient and the remainder are.
LEMMA Divided ==
    ASSUME NEW p \in Nat \ {0}, NEW w \in Nat
    PROVE  /\ w \div p \in Nat /\ w = p * (w \div p) + (w % p) /\ w % p \in 0..(p - 1)
OBVIOUS
\* A quotient below a bound, and a number below a multiple.
LEMMA QuotientBelow ==
    ASSUME NEW p \in Nat \ {0}, NEW w \in Nat, NEW l \in Nat
    PROVE  /\ w \div p < l => w + 1 <= p * l
           /\ w <= p * l => w \div p <= l
<1>1. PICK q \in Nat, r \in 0..(p - 1) : w \div p = q /\ w = p * q + r
  BY Divided
<1>2. ASSUME q < l PROVE w + 1 <= p * l
  <2>1. p * (q + 1) <= p * l
    BY <1>1, <1>2, Monotone
  <2>2. p * (q + 1) = p * q + p /\ p * q \in Nat /\ p * l \in Nat
    BY <1>1
  <2>3. QED BY <1>1, <2>1, <2>2
<1>3. ASSUME w <= p * l PROVE q <= l
  <2>1. SUFFICES ASSUME l + 1 <= q PROVE FALSE
    BY <1>1
  <2>2. p * (l + 1) <= p * q
    BY <1>1, <2>1, Monotone
  <2>3. p * (l + 1) = p * l + p /\ p * l \in Nat /\ p * q \in Nat
    BY <1>1
  <2>4. QED BY <1>1, <1>3, <2>2, <2>3
<1>4. QED BY <1>1, <1>2, <1>3
\* The quotient grows only where the divisor divides.
LEMMA QuotientOfNext ==
    ASSUME NEW p \in Nat \ {0}, NEW w \in Nat
    PROVE  /\ (w + 1) \div p \in Nat /\ (w + 1) \div p <= (w \div p) + 1
           /\ (w + 1) % p # 0 => (w + 1) \div p = w \div p
<1>1. PICK q \in Nat, r \in 0..(p - 1) : w \div p = q /\ w = p * q + r
  BY Divided
<1>2. PICK n \in Nat, s \in 0..(p - 1) : (w + 1) \div p = n /\ (w + 1) % p = s /\ w + 1 = p * n + s
  BY Divided
<1>3. p * n + s = p * q + r + 1 /\ p * n \in Nat /\ p * q \in Nat
  BY <1>1, <1>2
<1>4. n <= q + 1
  <2>1. SUFFICES ASSUME q + 2 <= n PROVE FALSE
    BY <1>1, <1>2
  <2>2. p * (q + 2) <= p * n
    BY <1>1, <1>2, <2>1, Monotone
  <2>3. p * (q + 2) = p * q + p + p
    BY <1>1
  <2>4. QED BY <1>1, <1>2, <1>3, <2>2, <2>3
<1>5. q <= n
  <2>1. SUFFICES ASSUME n + 1 <= q PROVE FALSE
    BY <1>1, <1>2
  <2>2. p * (n + 1) <= p * q
    BY <1>1, <1>2, <2>1, Monotone
  <2>3. p * (n + 1) = p * n + p
    BY <1>2
  <2>4. QED BY <1>1, <1>2, <1>3, <2>2, <2>3
<1>6. ASSUME s # 0 PROVE n = q
  <2>1. SUFFICES ASSUME n = q + 1 PROVE FALSE
    BY <1>1, <1>2, <1>4, <1>5
  <2>2. p * (q + 1) = p * q + p
    BY <1>1
  <2>3. p * n = p * q + p
    BY <2>1, <2>2
  <2>4. QED BY <1>1, <1>2, <1>3, <1>6, <2>3
<1>7. QED BY <1>1, <1>2, <1>4, <1>6

-----------------------------------------------------------------------------
\* Discovery: no more reads are wasted than lost datagrams account for.  A coordinator's query or
\* answer is on its way, or the datagrams lost are more than the queries sent before this one.
Pends(c) == c \in query \/ [group |-> "ours", addr |-> adv[c]] \in reply
SearchTypeOK ==
    /\ adv \in [Coords -> {NoAddr, Loopback} \cup {Lan(c) : c \in Coords}]
    /\ waited \in Nat /\ losses \in Nat /\ losses <= MaxLosses
    /\ steady \subseteq Up \cap Ours
SearchReaches == steady # {} /\ reach # "none" => stage \notin {"manual", "cloud", "lost"}
SearchPaid ==
    stage = "subnet" /\ reach \in {"all", "unicast"} =>
          \A c \in steady : \/ Pends(c) /\ waited <= ProbeEvery * losses
                            \/ waited \div ProbeEvery < losses
SearchInv == SearchTypeOK /\ reach \in {"all", "unicast", "none"} /\ SearchReaches /\ SearchPaid

\* Nobody searches at the start.
LEMMA SearchStarts ==
    ASSUME FindInit
    PROVE  SearchInv
BY DiscoveryAssumption DEF FindInit, SearchInv, SearchTypeOK, SearchReaches, SearchPaid

\* A coordinator that starts, stops, answers or registers loses no query or answer of another.
LEMMA CoordsKeepSearch ==
    ASSUME SearchInv, NEW c \in Coords, Advertise(c) \/ Withdraw(c) \/ AnswerQuery(c) \/ Register(c)
    PROVE  SearchInv'
<1>1. NoAddr # Loopback /\ \A d : Lan(d) # NoAddr
  BY DEF NoAddr, Loopback, Lan
<1>2. CASE Advertise(c)
  <2>1. \A d \in steady : adv'[d] = adv[d] /\ d # c
    BY <1>2 DEF Advertise, SearchInv, SearchTypeOK, Up
  <2>2. SearchTypeOK'
    BY <1>2, <2>1 DEF Advertise, SearchInv, SearchTypeOK, Up
  <2>3. \A d \in steady : Pends(d) => Pends(d)'
    BY <1>2, <2>1 DEF Advertise, Pends
  <2>4. QED BY <1>2, <2>2, <2>3 DEF Advertise, SearchInv, SearchReaches, SearchPaid
<1>3. CASE Withdraw(c)
  <2>1. \A d \in steady' : adv'[d] = adv[d] /\ d # c /\ d \in steady
    BY <1>3 DEF Withdraw, SearchInv, SearchTypeOK, Up
  <2>2. SearchTypeOK'
    BY <1>3, <2>1 DEF Withdraw, SearchInv, SearchTypeOK, Up
  <2>3. \A d \in steady' : Pends(d) => Pends(d)'
    BY <1>3, <2>1 DEF Withdraw, Pends
  <2>4. QED BY <1>3, <2>1, <2>2, <2>3 DEF Withdraw, SearchInv, SearchReaches, SearchPaid
<1>4. CASE AnswerQuery(c)
  <2>1. \A d \in steady : d \in Ours
    BY DEF SearchInv, SearchTypeOK
  <2>2. SearchTypeOK'
    BY <1>4 DEF AnswerQuery, SearchInv, SearchTypeOK, Up
  <2>3. \A d \in steady : Pends(d) => Pends(d)'
    BY <1>4, <2>1 DEF AnswerQuery, Pends
  <2>4. QED BY <1>4, <2>2, <2>3 DEF AnswerQuery, SearchInv, SearchReaches, SearchPaid
<1>5. CASE Register(c)
  BY <1>5 DEF Register, SearchInv, SearchTypeOK, SearchReaches, SearchPaid, Pends, Up
<1>6. QED BY <1>2, <1>3, <1>4, <1>5

\* A read that brings no answer is paid for by a lost datagram, or sends the query again.
LEMMA WastedRead ==
    ASSUME SearchInv, ReadNothing \/ ReadOther
    PROVE  SearchInv'
<1>1. /\ ProbeEvery \in Nat \ {0} /\ MaxLosses \in Nat /\ waited \in Nat /\ losses \in Nat
      /\ waited' = waited + 1 /\ UNCHANGED <<adv, reach, steady, reply, stage>>
      /\ losses' \in Nat /\ losses <= losses' /\ losses' <= MaxLosses
      /\ query \subseteq query'
  BY DiscoveryAssumption DEF ReadNothing, ReadOther, ReadInVain, SearchInv, SearchTypeOK
<1>2. SearchTypeOK'
  BY <1>1 DEF SearchInv, SearchTypeOK, Up
<1>3. SearchReaches' /\ (reach \in {"all", "unicast", "none"})'
  BY <1>1 DEF SearchInv, SearchReaches
<1>4. \A d \in steady : Pends(d) => Pends(d)'
  BY <1>1 DEF Pends
<1>5. ASSUME stage = "subnet", reach \in {"all", "unicast"}, NEW c \in steady
      PROVE  \/ Pends(c)' /\ waited' <= ProbeEvery * losses'
             \/ waited' \div ProbeEvery < losses'
  <2>1. (Pends(c) /\ waited <= ProbeEvery * losses) \/ waited \div ProbeEvery < losses
    BY <1>5 DEF SearchInv, SearchPaid
  <2>2. PICK q \in Nat, p \in Nat : q = waited \div ProbeEvery /\ p = (waited + 1) \div ProbeEvery
    BY <1>1, Divided, QuotientOfNext
  <2>3. p <= q + 1 /\ ((waited + 1) % ProbeEvery # 0 => p = q) /\ (q < losses => waited + 1 <= ProbeEvery * losses)
    BY <1>1, <2>2, QuotientOfNext, QuotientBelow
  <2>4. waited' \div ProbeEvery = p
    BY <1>1, <2>2
  <2>5. CASE ReadNothing
    <3>1. ~Pends(c)
      BY <2>5 DEF ReadNothing, Pends
    <3>2. q < losses /\ losses' = losses
      BY <2>1, <2>2, <2>5, <3>1 DEF ReadNothing
    <3>3. CASE (waited + 1) % ProbeEvery = 0
      <4>1. c \in query'
        BY <1>5, <2>5, <3>3 DEF ReadNothing, ReadInVain, Probed, SearchInv, SearchTypeOK
      <4>2. waited' <= ProbeEvery * losses'
        BY <1>1, <2>3, <3>2
      <4>3. QED BY <4>1, <4>2 DEF Pends
    <3>4. CASE (waited + 1) % ProbeEvery # 0
      BY <2>2, <2>3, <2>4, <3>2, <3>4
    <3>5. QED BY <3>3, <3>4
  <2>6. CASE ReadOther
    <3>1. losses' = losses + 1
      BY <2>6 DEF ReadOther
    <3>2. ProbeEvery * (losses + 1) = ProbeEvery * losses + ProbeEvery /\ ProbeEvery * losses \in Nat
      BY <1>1
    <3>3. CASE Pends(c) /\ waited <= ProbeEvery * losses
      <4>1. waited + 1 <= ProbeEvery * (losses + 1)
        BY <1>1, <3>2, <3>3
      <4>2. QED BY <1>1, <1>4, <3>1, <3>3, <4>1
    <3>4. CASE q < losses
      BY <1>1, <2>2, <2>3, <2>4, <3>1, <3>4
    <3>5. QED BY <2>1, <2>2, <3>3, <3>4
  <2>7. QED BY <2>5, <2>6
<1>6. SearchPaid'
  BY <1>1, <1>5 DEF SearchPaid
<1>7. QED BY <1>2, <1>3, <1>6 DEF SearchInv

\* The search of the network ends unanswered only where none of ours can be reached.
LEMMA NextTry ==
    ASSUME SearchInv, ProviderEnds
    PROVE  SearchInv'
<1>1. /\ ProbeEvery \in Nat \ {0} /\ MaxLosses \in Nat /\ waited \in Nat /\ losses \in Nat /\ Slices \in Nat
      /\ losses <= MaxLosses /\ UNCHANGED <<adv, reach, steady, losses>>
  BY DiscoveryAssumption DEF ProviderEnds, SearchInv, SearchTypeOK
<1>2. (waited' = 0 \/ waited' = waited) /\ stage' \in {"subnet", "cloud", "lost"}
  BY DEF ProviderEnds, NextProvider, Try
<1>3. SearchTypeOK'
  BY <1>1, <1>2 DEF SearchInv, SearchTypeOK, Up
<1>4. CASE stage = "broadcast"
  <2>1. stage' = "subnet" /\ waited' = 0 /\ query' = Probed("subnet")
    BY <1>4 DEF ProviderEnds, NextProvider, Try
  <2>2. SearchReaches'
    BY <2>1 DEF SearchReaches
  <2>3. ProbeEvery * losses \in Nat
    BY <1>1
  <2>4. reach \in {"all", "unicast"} => \A c \in steady : c \in query'
    BY <2>1 DEF Probed, SearchInv, SearchTypeOK
  <2>5. SearchPaid'
    BY <1>1, <2>1, <2>3, <2>4 DEF SearchPaid, Pends
  <2>6. QED BY <1>1, <1>3, <2>2, <2>5 DEF SearchInv
<1>5. CASE stage = "subnet"
  <2>1. waited >= (Slices * 3) \div 10 /\ stage' \in {"cloud", "lost"}
    BY <1>5 DEF ProviderEnds, NextProvider, Try, Share
  <2>2. PICK most \in Nat : most = (Slices * 3) \div 10
    BY <1>1
  <2>3. ProbeEvery * losses <= ProbeEvery * MaxLosses
    BY <1>1, Monotone
  <2>4. ProbeEvery * losses < waited
    BY <1>1, <2>1, <2>2, <2>3, FewLossesAssumption
  <2>5. ~(waited <= ProbeEvery * losses) /\ ~(waited \div ProbeEvery < losses)
    BY <1>1, <2>4, QuotientBelow, Divided
  <2>6. steady = {} \/ reach = "none"
    BY <1>5, <2>5 DEF SearchInv, SearchPaid
  <2>7. SearchReaches' /\ SearchPaid'
    BY <1>1, <2>1, <2>6 DEF SearchReaches, SearchPaid
  <2>8. QED BY <1>1, <1>3, <2>7 DEF SearchInv
<1>6. CASE stage = "cloud"
  <2>1. stage' = "lost"
    BY <1>6 DEF ProviderEnds, NextProvider
  <2>2. SearchReaches' /\ SearchPaid'
    BY <1>1, <1>6, <2>1 DEF SearchInv, SearchReaches, SearchPaid
  <2>3. QED BY <1>1, <1>3, <2>2 DEF SearchInv
<1>7. QED BY <1>4, <1>5, <1>6 DEF ProviderEnds

\* A lost datagram pays for the reads up to the next query.
LEMMA LossKeepsSearch ==
    ASSUME SearchInv, Lose
    PROVE  SearchInv'
<1>1. /\ ProbeEvery \in Nat \ {0} /\ waited \in Nat /\ losses \in Nat /\ MaxLosses \in Nat
      /\ losses' = losses + 1 /\ losses < MaxLosses /\ UNCHANGED <<adv, reach, steady, stage, waited>>
  BY DiscoveryAssumption DEF Lose, SearchInv, SearchTypeOK
<1>2. SearchTypeOK'
  BY <1>1 DEF SearchInv, SearchTypeOK, Up
<1>3. PICK q \in Nat : q = waited \div ProbeEvery
  BY <1>1, Divided
<1>4. waited <= ProbeEvery * losses => q <= losses
  BY <1>1, <1>3, QuotientBelow
<1>5. SearchPaid'
  BY <1>1, <1>3, <1>4 DEF SearchInv, SearchPaid
<1>6. QED BY <1>1, <1>2, <1>5 DEF SearchInv, SearchReaches

\* Every step of the search keeps the account.
LEMMA SearchStepKeeps ==
    ASSUME SearchInv, [FindNext]_findVars
    PROVE  SearchInv'
<1>1. ASSUME NEW c \in Coords, Advertise(c) \/ Withdraw(c) \/ AnswerQuery(c) \/ Register(c)
      PROVE  SearchInv'
  BY <1>1, CoordsKeepSearch
<1>2. CASE StartSearch
  <2>1. stage' \in {"found", "broadcast"} /\ steady' = Up \cap Ours /\ waited' \in {waited, 0}
        /\ UNCHANGED <<adv, reach, losses>>
    BY <1>2 DEF StartSearch, Come, Try
  <2>2. SearchTypeOK'
    BY <2>1 DEF SearchInv, SearchTypeOK, Up
  <2>3. QED BY <2>1, <2>2 DEF SearchInv, SearchReaches, SearchPaid
<1>3. CASE ReadAnswer
  BY <1>3 DEF ReadAnswer, Come, SearchInv, SearchTypeOK, SearchReaches, SearchPaid, Up
<1>4. CASE ReadNothing \/ ReadOther
  BY <1>4, WastedRead
<1>5. CASE ProviderEnds
  BY <1>5, NextTry
<1>6. CASE AskCloud
  <2>1. stage = "cloud" /\ stage' \in {"found", "cloud"} /\ waited' \in {waited, waited + 1}
        /\ UNCHANGED <<adv, reach, losses, steady>>
    BY <1>6 DEF AskCloud, Come
  <2>2. SearchTypeOK'
    BY <2>1 DEF SearchInv, SearchTypeOK, Up
  <2>3. QED BY <2>1, <2>2 DEF SearchInv, SearchReaches, SearchPaid
<1>7. CASE Lose
  BY <1>7, LossKeepsSearch
<1>8. CASE UNCHANGED findVars
  BY <1>8 DEF findVars, SearchInv, SearchTypeOK, SearchReaches, SearchPaid, Pends, Up
<1>9. QED BY <1>1, <1>2, <1>3, <1>4, <1>5, <1>6, <1>7, <1>8 DEF FindNext

-----------------------------------------------------------------------------
\* A machine that is found is one of its own cluster, it is found if it can be reached at all, and the
\* machines that guess at the code are held back: for any number of sources, coordinators, slots and
\* reads.
THEOREM FoundAndPaired == MeetingSpec => []JoinsItsOwn
<1> DEFINE Inv == PairInv /\ AddressesOurs /\ SearchInv
<1>1. MeetingInit => Inv
  BY PairStarts, FindStarts, SearchStarts DEF MeetingInit
<1>2. Inv /\ [MeetingNext]_MeetingVars => Inv'
  <2>1. [MeetingNext]_MeetingVars => [PairNext]_pairVars /\ [FindNext]_findVars
    BY DEF MeetingNext, MeetingVars
  <2>2. QED BY <2>1, PairStepKeeps, FindStepKeeps, SearchStepKeeps
<1>3. Inv => JoinsItsOwn
  <2>1. AddressesOurs => FoundIsOurs
    BY DEF AddressesOurs, FoundIsOurs
  <2>2. SearchInv => ReachableIsFound
    BY DEF SearchInv, SearchReaches, ReachableIsFound
  <2>3. QED BY <2>1, <2>2, PairInvIsEnough DEF JoinsItsOwn, FindsTheCluster
<1>4. QED BY <1>1, <1>2, <1>3, PTL DEF MeetingSpec

-----------------------------------------------------------------------------
\* Roster: a token was minted for one row, and a row stays with its machine.

Row == [of : Guests, token : 1..minted, online : BOOLEAN, wants : BOOLEAN]

\* What is said of an action's rows: they are gone, or what they were but for the flags
\* of one, or one of them is new and of a fresh token.
NoRows == rows' = [n \in Names |-> NoRow]
SameRows ==
    /\ minted' = minted
    /\ rows' \in [Names -> Row \cup {NoRow}]
    /\ \A n \in Names :
          /\ rows'[n] = NoRow <=> rows[n] = NoRow
          /\ rows[n] # NoRow => rows'[n].of = rows[n].of /\ rows'[n].token = rows[n].token
NewRow(g) ==
    /\ minted' = minted + 1
    /\ ~Conflict(g)
    /\ \E row \in [of : {g}, token : {minted + 1}, online : BOOLEAN, wants : BOOLEAN] :
          rows' = [rows EXCEPT ![NameOf[g]] = row]
RowsMove == (NoRows /\ minted' = minted) \/ SameRows \/ \E g \in Guests : NewRow(g)

LEMMA NoRowIsNone == \A row : row \in Row => row # NoRow
BY DEF Row, NoRow

\* The rows that are typed stay what they are where nothing of them is written.
LEMMA RowsUnread ==
    ASSUME RosterTyped, UNCHANGED <<rows, minted>>
    PROVE  SameRows
BY DEF RosterTyped, SameRows, Row

\* A flag of a row is all that is written.
LEMMA OneFlag ==
    ASSUME RosterTyped, minted' = minted, NEW n \in Names, rows[n] # NoRow, NEW b \in BOOLEAN,
           \/ rows' = [rows EXCEPT ![n].online = b]
           \/ rows' = [rows EXCEPT ![n].wants = b]
    PROVE  SameRows
<1>1. rows \in [Names -> Row \cup {NoRow}]
  BY DEF RosterTyped, Row
<1>2. PICK row : rows' = [rows EXCEPT ![n] = row] /\ row \in Row
                 /\ row.of = rows[n].of /\ row.token = rows[n].token
  <2>1. rows[n] \in Row
    BY <1>1
  <2>2. CASE rows' = [rows EXCEPT ![n].online = b]
    <3>1. /\ [rows[n] EXCEPT !.online = b] \in Row
          /\ [rows[n] EXCEPT !.online = b].of = rows[n].of
          /\ [rows[n] EXCEPT !.online = b].token = rows[n].token
      BY <2>1 DEF Row
    <3>2. QED BY <2>2, <3>1
  <2>3. CASE rows' = [rows EXCEPT ![n].wants = b]
    <3>1. /\ [rows[n] EXCEPT !.wants = b] \in Row
          /\ [rows[n] EXCEPT !.wants = b].of = rows[n].of
          /\ [rows[n] EXCEPT !.wants = b].token = rows[n].token
      BY <2>1 DEF Row
    <3>2. QED BY <2>3, <3>1
  <2>4. QED BY <2>2, <2>3
<1>3. QED BY <1>1, <1>2, NoRowIsNone DEF SameRows

\* A row's type follows from how the rows moved.
LEMMA MovedRowsAreTyped ==
    ASSUME RosterTyped, RowsMove
    PROVE  minted' \in Nat /\ rows' \in [Names -> Row' \cup {NoRow}]
<1>1. minted \in Nat /\ rows \in [Names -> Row \cup {NoRow}]
  BY DEF RosterTyped, Row
<1>2. CASE NoRows /\ minted' = minted
  BY <1>1, <1>2 DEF NoRows
<1>3. CASE SameRows
  <2>1. Row' = Row
    BY <1>3 DEF SameRows, Row
  <2>2. QED BY <1>1, <1>3, <2>1 DEF SameRows
<1>4. ASSUME NEW g \in Guests, NewRow(g) PROVE minted' \in Nat /\ rows' \in [Names -> Row' \cup {NoRow}]
  <2>1. PICK row \in [of : {g}, token : {minted + 1}, online : BOOLEAN, wants : BOOLEAN] :
            rows' = [rows EXCEPT ![NameOf[g]] = row]
    BY <1>4 DEF NewRow
  <2>2. minted' = minted + 1 /\ minted' \in Nat /\ 1..minted \subseteq 1..minted' /\ minted + 1 \in 1..minted'
    BY <1>1, <1>4 DEF NewRow
  <2>3. Row \subseteq Row' /\ row \in Row'
    BY <2>1, <2>2 DEF Row
  <2>4. QED BY <1>1, <2>1, <2>2, <2>3
<1>5. QED BY <1>2, <1>3, <1>4 DEF RowsMove

HostTyped ==
    host \in [mode : {"off", "creator", "closing"}, phase : {"idle", "starting", "ready"},
              coord : Names \cup {Nobody}, started : BOOLEAN, code : Codes \cup {Nobody},
              listening : BOOLEAN]
EnginesTyped ==
    engines \in [Guests \cup {Host} -> [state : Active \cup {"stopped", "crashed"},
                                        role : {"coordinator", "worker", Nobody}]]
Moves == HostTyped' /\ EnginesTyped' /\ RowsMove

LEMMA HostWritten ==
    ASSUME RosterAssumption, HostTyped
    PROVE  /\ OffHost \in [mode : {"off"}, phase : {"idle"}, coord : {Nobody}, started : {FALSE},
                           code : {Nobody}, listening : {FALSE}]
           /\ host' = OffHost => HostTyped'
           /\ \A c \in Codes : host' = [OffHost EXCEPT !.mode = "creator", !.coord = HostName, !.code = c]
                 => HostTyped'
           /\ host' = [host EXCEPT !.listening = TRUE] => HostTyped'
           /\ host' = [OffHost EXCEPT !.started = host.started] => HostTyped'
           /\ \A n \in Names : host' = [host EXCEPT !.coord = n] => HostTyped'
           /\ host' = [host EXCEPT !.phase = "starting", !.started = TRUE] => HostTyped'
           /\ host' = [OffHost EXCEPT !.mode = "closing", !.listening = host.listening] => HostTyped'
           /\ host' = [host EXCEPT !.phase = "idle", !.started = FALSE] => HostTyped'
           /\ host' = [host EXCEPT !.phase = "ready"] => HostTyped'
           /\ host' = host => HostTyped'
<1>1. /\ HostName \in Names
      /\ host \in [mode : {"off", "creator", "closing"}, phase : {"idle", "starting", "ready"},
                   coord : Names \cup {Nobody}, started : BOOLEAN, code : Codes \cup {Nobody},
                   listening : BOOLEAN]
  BY DEF RosterAssumption, HostTyped
<1>2. /\ OffHost.mode = "off" /\ OffHost.phase = "idle" /\ OffHost.coord = Nobody
      /\ OffHost \in [mode : {"off"}, phase : {"idle"}, coord : {Nobody}, started : {FALSE},
                      code : {Nobody}, listening : {FALSE}]
  BY DEF OffHost
<1>3. host' = OffHost => HostTyped'
  BY <1>2 DEF HostTyped
<1>4. \A c \in Codes : host' = [OffHost EXCEPT !.mode = "creator", !.coord = HostName, !.code = c]
         => HostTyped'
  BY <1>1, <1>2 DEF HostTyped
<1>5. /\ host' = [host EXCEPT !.listening = TRUE] => HostTyped'
      /\ \A n \in Names : host' = [host EXCEPT !.coord = n] => HostTyped'
  BY <1>1 DEF HostTyped
<1>6. /\ host' = [host EXCEPT !.phase = "starting", !.started = TRUE] => HostTyped'
      /\ host' = [host EXCEPT !.phase = "idle", !.started = FALSE] => HostTyped'
      /\ host' = [host EXCEPT !.phase = "ready"] => HostTyped'
      /\ host' = host => HostTyped'
  BY <1>1 DEF HostTyped
<1>7. /\ host' = [OffHost EXCEPT !.started = host.started] => HostTyped'
      /\ host' = [OffHost EXCEPT !.mode = "closing", !.listening = host.listening] => HostTyped'
  BY <1>1, <1>2 DEF HostTyped
<1>8. QED BY <1>2, <1>3, <1>4, <1>5, <1>6, <1>7

LEMMA EnginesWritten ==
    ASSUME EnginesTyped, NEW m \in Guests \cup {Host}
    PROVE  /\ \A role \in {"coordinator", "worker"} : StartEngine(m, role) => EnginesTyped'
           /\ StopEngine(m) => EnginesTyped'
           /\ \A s \in {"ready", "failed", "crashed"} :
                 engines' = [engines EXCEPT ![m].state = s] => EnginesTyped'
           /\ engines' = engines => EnginesTyped'
BY DEF EnginesTyped, StartEngine, StopEngine, Active, Stopped

LEMMA UsersMove ==
    ASSUME RosterAssumption, RosterTyped, Users
    PROVE  Moves
<1>1. HostTyped /\ EnginesTyped
  BY DEF RosterTyped, HostTyped, EnginesTyped
<1>2. ASSUME NEW c \in Codes, Create(c) PROVE Moves
  BY <1>1, <1>2, HostWritten, EnginesWritten DEF Create, Moves, RowsMove, NoRows, guestVars, EnginesTyped
<1>3. ASSUME NEW solo \in BOOLEAN, NEW launched \in BOOLEAN, Start(solo, launched) PROVE Moves
  <2>1. HostTyped' /\ UNCHANGED <<rows, minted>>
    BY <1>1, <1>3, HostWritten DEF Start, guestVars
  <2>2. EnginesTyped'
    <3>1. RoleOf(HostName, host.coord) \in {"coordinator", "worker"}
      BY DEF RoleOf
    <3>2. engines' = engines \/ StartEngine(Host, RoleOf(HostName, host.coord))
      BY <1>3 DEF Start
    <3>3. QED BY <1>1, <3>1, <3>2, EnginesWritten
  <2>3. QED BY <2>1, <2>2, RowsUnread DEF Moves, RowsMove
<1>4. ASSUME NEW n \in Names, ApproveCoordinator(n) PROVE Moves
  <2>1. n \in Members /\ host' = [host EXCEPT !.coord = n] /\ rows' = [rows EXCEPT ![n].wants = FALSE]
        /\ engines' = engines /\ minted' = minted
    BY <1>4 DEF ApproveCoordinator, guestVars
  <2>2. SameRows
    BY <2>1, OneFlag DEF Members
  <2>3. HostTyped' /\ EnginesTyped'
    BY <1>1, <2>1, HostWritten, EnginesWritten
  <2>4. QED BY <2>2, <2>3 DEF Moves, RowsMove
<1>5. CASE HostLeave
  <2>1. HostTyped' /\ StopEngine(Host) /\ minted' = minted
    BY <1>1, <1>5, HostWritten DEF HostLeave, guestVars
  <2>2. rows' = rows \/ NoRows
    BY <1>5 DEF HostLeave, NoRows
  <2>3. EnginesTyped'
    BY <1>1, <2>1, EnginesWritten
  <2>4. QED BY <2>1, <2>2, <2>3, RowsUnread DEF Moves, RowsMove
<1>6. ASSUME NEW g \in Guests, GuestLeave(g) PROVE Moves
  <2>1. UNCHANGED <<host, rows, minted>> /\ StopEngine(g)
    BY <1>6 DEF GuestLeave, hostVars
  <2>2. QED BY <1>1, <2>1, HostWritten, EnginesWritten, RowsUnread DEF Moves, RowsMove
<1>7. ASSUME NEW g \in Guests, NEW c \in Codes, Join(g, c) PROVE Moves
  <2>1. UNCHANGED <<host, rows, minted, engines>>
    BY <1>7 DEF Join, hostVars
  <2>2. QED BY <1>1, <2>1, HostWritten, EnginesWritten, RowsUnread DEF Moves, RowsMove
<1>8. QED BY <1>2, <1>3, <1>4, <1>5, <1>6, <1>7 DEF Users

LEMMA HostMoves ==
    ASSUME RosterAssumption, RosterTyped, HostStep \/ \E s \in SlotsOf[Host] : WatcherStep(s)
    PROVE  Moves
<1>1. HostTyped /\ EnginesTyped
  BY DEF RosterTyped, HostTyped, EnginesTyped
<1>2. CASE BindRoster
  <2>1. UNCHANGED <<rows, minted, engines>> /\ host' = [host EXCEPT !.listening = TRUE]
    BY <1>2 DEF BindRoster, guestVars
  <2>2. QED BY <1>1, <2>1, HostWritten, EnginesWritten, RowsUnread DEF Moves, RowsMove
<1>3. CASE RosterPortBusy
  <2>1. NoRows /\ minted' = minted /\ engines' = engines /\ host' = [OffHost EXCEPT !.started = host.started]
    BY <1>3 DEF RosterPortBusy, guestVars, NoRows
  <2>2. QED BY <1>1, <2>1, HostWritten, EnginesWritten DEF Moves, RowsMove
<1>4. CASE GraceEnds
  <2>1. engines' = engines /\ minted' = minted /\ (NoRows \/ rows' = rows) /\ (host' = OffHost \/ host' = host)
    BY <1>4 DEF GraceEnds, guestVars, NoRows
  <2>2. QED BY <1>1, <2>1, HostWritten, EnginesWritten, RowsUnread DEF Moves, RowsMove
<1>5. ASSUME NEW n \in Names, SweepOffline(n) PROVE Moves
  <2>1. n \in Members /\ host' = host /\ rows' = [rows EXCEPT ![n].online = FALSE]
        /\ engines' = engines /\ minted' = minted
    BY <1>5 DEF SweepOffline, guestVars
  <2>2. SameRows
    BY <2>1, OneFlag DEF Members
  <2>3. QED BY <1>1, <2>1, <2>2, HostWritten, EnginesWritten DEF Moves, RowsMove
<1>6. ASSUME NEW s \in SlotsOf[Host], WatcherStep(s) PROVE Moves
  <2>1. UNCHANGED <<rows, minted>>
    BY <1>6 DEF WatcherStep, WatcherLooks, WatcherAsks, TellReady, TellFailed, StopFailed, guestVars
  <2>2. \/ host' = host
        \/ host' = [host EXCEPT !.phase = "idle", !.started = FALSE]
        \/ host' = [host EXCEPT !.phase = "ready"]
    BY <1>6 DEF WatcherStep, WatcherLooks, WatcherAsks, TellReady, TellFailed, StopFailed
  <2>3. engines' = engines \/ StopEngine(Host)
    BY <1>6 DEF WatcherStep, WatcherLooks, WatcherAsks, TellReady, TellFailed, StopFailed
  <2>4. QED BY <1>1, <2>1, <2>2, <2>3, HostWritten, EnginesWritten, RowsUnread DEF Moves, RowsMove
<1>7. QED BY <1>2, <1>3, <1>4, <1>5, <1>6 DEF HostStep

\* What a request may do to the roster: an accepted join is a new row, a poll that is
\* answered puts its row online again.
LEMMA ThreadMoves ==
    ASSUME RosterAssumption, RosterTyped, NEW g \in Guests, NEW s \in SlotsOf[g], ThreadStep(g, s)
    PROVE  Moves
<1>1. HostTyped /\ EnginesTyped
  BY DEF RosterTyped, HostTyped, EnginesTyped
<1>2. NameOf[g] \in Names /\ minted \in Nat
  BY DEF RosterAssumption, RosterTyped
<1>3. CASE SaysHello(g, s)
  <2>1. UNCHANGED <<host, rows, minted, engines>>
    BY <1>3 DEF SaysHello, Request, hostVars
  <2>2. QED BY <1>1, <2>1, HostWritten, EnginesWritten, RowsUnread DEF Moves, RowsMove
<1>4. CASE AsksToJoin(g, s)
  <2>1. host' = host /\ engines' = engines
    BY <1>4 DEF AsksToJoin, Request, hostVars
  <2>2. \/ UNCHANGED <<rows, minted>>
        \/ /\ ~Conflict(g) /\ minted' = minted + 1
           /\ rows' = [rows EXCEPT ![NameOf[g]] =
                          [of |-> g, token |-> minted + 1, online |-> TRUE, wants |-> Wants[g]]]
    BY <1>4 DEF AsksToJoin, Request, hostVars
  <2>3. [of |-> g, token |-> minted + 1, online |-> TRUE, wants |-> Wants[g]]
           \in [of : {g}, token : {minted + 1}, online : BOOLEAN, wants : BOOLEAN]
    BY DEF RosterAssumption
  <2>4. SameRows \/ NewRow(g)
    BY <2>2, <2>3, RowsUnread DEF NewRow
  <2>5. QED BY <1>1, <2>1, <2>4, HostWritten, EnginesWritten DEF Moves, RowsMove
<1>5. CASE Polls(g, s)
  <2>1. host' = host /\ engines' = engines /\ minted' = minted
    BY <1>5 DEF Polls, Request, hostVars
  <2>2. \/ rows' = rows
        \/ PollReply(g, threads[g][s]).kind = "ok" /\ rows' = [rows EXCEPT ![NameOf[g]].online = TRUE]
    BY <1>5 DEF Polls, Request, hostVars
  <2>3. PollReply(g, threads[g][s]).kind = "ok" => rows[NameOf[g]] # NoRow
    BY DEF PollReply, Authorized, RosterReply
  <2>4. SameRows
    BY <1>2, <2>1, <2>2, <2>3, RowsUnread, OneFlag
  <2>5. QED BY <1>1, <2>1, <2>4, HostWritten, EnginesWritten DEF Moves, RowsMove
<1>6. CASE StopsOwn(g, s)
  <2>1. UNCHANGED <<host, rows, minted>> /\ StopEngine(g)
    BY <1>6 DEF StopsOwn, hostVars
  <2>2. QED BY <1>1, <2>1, HostWritten, EnginesWritten, RowsUnread DEF Moves, RowsMove
<1>7. ASSUME NEW launched \in BOOLEAN, Launches(g, s, launched) PROVE Moves
  <2>1. UNCHANGED <<host, rows, minted>>
        /\ (engines' = engines \/ StartEngine(g, threads[g][s].pc))
        /\ threads[g][s].pc \in {"coordinator", "worker"}
    BY <1>7 DEF Launches, hostVars, At
  <2>2. QED BY <1>1, <2>1, HostWritten, EnginesWritten, RowsUnread DEF Moves, RowsMove
<1>8. CASE \/ GivesUp(g, s) \/ HearsNothing(g, s) \/ LostTimer(g, s) \/ HearsClosed(g, s)
           \/ HearsUnauthorized(g, s) \/ HearsRefused(g, s) \/ HearsRoster(g, s) \/ Materializes(g, s)
  <2>1. UNCHANGED <<host, rows, minted, engines>>
    BY <1>8 DEF GivesUp, HearsNothing, LostTimer, HearsClosed, HearsUnauthorized, HearsRefused,
                HearsRoster, Materializes, hostVars
  <2>2. QED BY <1>1, <2>1, HostWritten, EnginesWritten, RowsUnread DEF Moves, RowsMove
<1>9. QED BY <1>3, <1>4, <1>5, <1>6, <1>7, <1>8 DEF ThreadStep

LEMMA EnginesMove ==
    ASSUME RosterAssumption, RosterTyped, NEW m \in Guests \cup {Host}, EngineStep(m)
    PROVE  Moves
<1>1. HostTyped /\ EnginesTyped
  BY DEF RosterTyped, HostTyped, EnginesTyped
<1>2. /\ UNCHANGED <<host, rows, minted>>
      /\ \E s \in {"ready", "failed", "crashed"} : engines' = [engines EXCEPT ![m].state = s]
  BY DEF EngineStep, EngineLoads, EngineFails, hostVars, guestVars
<1>3. QED BY <1>1, <1>2, HostWritten, EnginesWritten, RowsUnread DEF Moves, RowsMove

RosterInv == RosterTyped /\ TokensAreOwn

\* Every step of the roster moves the rows in one of the three ways.
LEMMA RosterStepMoves ==
    ASSUME RosterAssumption, RosterTyped, RosterNext
    PROVE  RosterTyped' /\ RowsMove
<1>1. Moves
  BY UsersMove, HostMoves, ThreadMoves, EnginesMove DEF RosterNext, Unasked
<1>2. faults' \in 0..MaxFaults
  <2>1. faults \in 0..MaxFaults /\ MaxFaults \in Nat
    BY DEF RosterTyped, RosterAssumption
  <2>2. UNCHANGED faults \/ Fault
    <3>1. Users => UNCHANGED faults \/ Fault
      BY DEF Users, Create, Start, ApproveCoordinator, HostLeave, GuestLeave, Join
    <3>2. HostStep => UNCHANGED faults \/ Fault
      BY DEF HostStep, BindRoster, RosterPortBusy, GraceEnds, SweepOffline
    <3>3. ASSUME NEW s \in SlotsOf[Host], WatcherStep(s) PROVE UNCHANGED faults \/ Fault
      BY <3>3 DEF WatcherStep, WatcherLooks, WatcherAsks, TellReady, TellFailed, StopFailed
    <3>4. ASSUME NEW g \in Guests, NEW s \in SlotsOf[g], ThreadStep(g, s) PROVE UNCHANGED faults \/ Fault
      BY <3>4 DEF ThreadStep, SaysHello, AsksToJoin, GivesUp, Polls, HearsNothing, LostTimer, HearsClosed,
                  HearsUnauthorized, HearsRefused, HearsRoster, StopsOwn, Materializes, Launches, Request
    <3>5. ASSUME NEW m \in Guests \cup {Host}, EngineStep(m) PROVE UNCHANGED faults \/ Fault
      BY <3>5 DEF EngineStep, EngineLoads, EngineFails
    <3>6. QED BY <3>1, <3>2, <3>3, <3>4, <3>5 DEF RosterNext, Unasked
  <2>3. QED BY <2>1, <2>2 DEF Fault
<1>3. minted' \in Nat /\ rows' \in [Names -> Row' \cup {NoRow}]
  BY <1>1, MovedRowsAreTyped DEF Moves
<1>4. QED BY <1>1, <1>2, <1>3 DEF Moves, RosterTyped, HostTyped, EnginesTyped, Row

\* A token that was just minted is nobody else's.
LEMMA TokensStayOwn ==
    ASSUME RosterTyped, TokensAreOwn, RowsMove
    PROVE  TokensAreOwn'
<1>1. rows \in [Names -> Row \cup {NoRow}] /\ minted \in Nat
  BY DEF RosterTyped, Row
<1>2. CASE NoRows
  BY <1>2 DEF NoRows, TokensAreOwn, Members
<1>3. CASE SameRows
  BY <1>3 DEF SameRows, TokensAreOwn, Members
<1>4. ASSUME NEW g \in Guests, NewRow(g) PROVE TokensAreOwn'
  <2>1. PICK row : /\ rows' = [rows EXCEPT ![NameOf[g]] = row]
                   /\ row.token = minted + 1
    BY <1>4 DEF NewRow
  <2>2. \A n \in Members : n \in Names /\ rows[n].token \in 1..minted
    BY <1>1 DEF Members, Row
  <2>3. \A n \in Members' : n \in Names /\ (n = NameOf[g] \/ (n \in Members /\ rows'[n] = rows[n]))
    BY <1>1, <2>1 DEF Members
  <2>4. \A n \in Members' : (n = NameOf[g]) => rows'[n].token = minted + 1
    BY <1>1, <2>1 DEF Members
  <2>5. minted + 1 \notin 1..minted
    BY <1>1
  <2>6. QED BY <2>2, <2>3, <2>4, <2>5 DEF TokensAreOwn
<1>5. QED BY <1>2, <1>3, <1>4 DEF RowsMove

LEMMA RosterStarts ==
    ASSUME RosterAssumption, RosterInit
    PROVE  RosterInv
<1>1. HostTyped /\ EnginesTyped
  BY DEF RosterInit, HostTyped, EnginesTyped, OffHost, Stopped
<1>2. minted = 0 /\ rows = [n \in Names |-> NoRow] /\ faults = 0 /\ MaxFaults \in Nat
  BY DEF RosterInit, RosterAssumption
<1>3. rows \in [Names -> [of : Guests, token : 1..minted, online : BOOLEAN, wants : BOOLEAN] \cup {NoRow}]
  BY <1>2
<1>4. TokensAreOwn
  BY <1>2 DEF TokensAreOwn, Members
<1>5. QED BY <1>1, <1>2, <1>3, <1>4 DEF RosterInv, RosterTyped, HostTyped, EnginesTyped

\* The token that a member presents at its polls is its own row's and nobody else's
\* (roster_request(), member_authorized()), whoever joins, leaves, is swept or closes.
THEOREM TokensNameOne == RosterSpec => []RosterInv
<1>1. RosterInit => RosterInv
  BY RosterStarts, RosterAssumption
<1>2. RosterInv /\ [RosterNext]_rosterVars => RosterInv'
  <2>1. SUFFICES ASSUME RosterInv, [RosterNext]_rosterVars PROVE RosterInv'
    OBVIOUS
  <2>2. CASE RosterNext
    BY <2>1, <2>2, RosterAssumption, RosterStepMoves, TokensStayOwn DEF RosterInv
  <2>3. CASE UNCHANGED rosterVars
    BY <2>1, <2>3 DEF rosterVars, RosterInv, RosterTyped, TokensAreOwn, Members
  <2>4. QED BY <2>1, <2>2, <2>3
<1>3. QED BY <1>1, <1>2, PTL DEF RosterSpec

\* While a cluster lasts, a name in its roster stays with the machine that took it:
\* no request of another displaces it, whoever holds the code (join_identity()).
THEOREM RowsStay == RosterSpec => RowKeepsItsMachine
<1> DEFINE Stays ==
        \A n \in Names :
            rows[n] # NoRow /\ rows'[n] # NoRow /\ host.code = host'.code
            => rows'[n].of = rows[n].of
<1>1. RosterInv /\ [RosterNext]_rosterVars => [Stays]_rosterVars
  <2>1. SUFFICES ASSUME RosterInv, RosterNext PROVE Stays
    OBVIOUS
  <2>2. RowsMove /\ rows \in [Names -> Row \cup {NoRow}]
    BY <2>1, RosterAssumption, RosterStepMoves DEF RosterInv, RosterTyped, Row
  <2>3. CASE NoRows
    BY <2>3 DEF NoRows
  <2>4. CASE SameRows
    BY <2>4 DEF SameRows
  <2>5. ASSUME NEW g \in Guests, NewRow(g) PROVE Stays
    <3>1. PICK row : rows' = [rows EXCEPT ![NameOf[g]] = row] /\ row.of = g
      BY <2>5 DEF NewRow
    <3>2. rows[NameOf[g]] # NoRow => rows[NameOf[g]].of = g
      BY <2>5 DEF NewRow, Conflict
    <3>3. QED BY <2>2, <3>1, <3>2
  <2>6. QED BY <2>2, <2>3, <2>4, <2>5 DEF RowsMove
<1>2. QED BY <1>1, TokensNameOne, PTL DEF RosterSpec, RowKeepsItsMachine
=============================================================================
