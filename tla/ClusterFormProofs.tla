-------------------------- MODULE ClusterFormProofs --------------------------
(***************************************************************************)
(* Proofs about ClusterForm, for any processes on any machines, any number *)
(* of machines to wait for and any limits: no machine is counted twice in  *)
(* a cluster that is formed, and no worker whose coordinator beats leaves  *)
(* over its silence.                                                       *)
(***************************************************************************)
EXTENDS ClusterForm, SequenceTheorems, TLAPS

\* What the proofs need of the types: where everybody is, and what is on its way.
CoordStages == {"joining", "validating", "readying", "serving", "draining", "stopped"}
CoordOf == [pc : CoordStages, guest : Procs \cup {None}, seat : 1..Remote, waited : Nat,
            joinWaited : Nat, sinceBeat : 0..1, hung : BOOLEAN]
Before == {"absent", "dialing", "greeting", "reported"}
AtWork == {"looping", "validating", "spawning", "respawning"}
WorkerStages == Before \cup AtWork \cup {"ended"}
Excuses == {"none", "busy", "gone"}
Ends == {"none", "refused", "disconnected", "silence", "crashing", "unable", "signalled", "killed"}
WorkerOf == [pc : WorkerStages, server : Servers, ready : BOOLEAN, silent : Nat, quick : Nat,
             excuse : Excuses, end : Ends]
Words == {"report", "valid", "invalid", "ready"}
Orders == {"assign", "plan", "beat"}
LinkOf == [down : SUBSET Orders, up : Seq(Words), cut : BOOLEAN, shut : BOOLEAN]
FormTypeOK ==
    /\ coord \in CoordOf /\ seats \in Seq(Procs) /\ Len(seats) <= Remote
    /\ proc \in [Procs -> WorkerOf]
    /\ link \in [Procs -> LinkOf]

\* Before it has joined a worker has no server; silence is counted only while it works.
Fresh(w) ==
    /\ w.pc \in Before => w.server = "none"
    /\ w.pc \notin AtWork => w.silent = 0
\* While machines are still admitted nobody has a plan, and nobody has answered one.
Unplanned(w, l) ==
    /\ w.pc \notin {"validating", "spawning", "respawning"}
    /\ w.server = "none" /\ w.silent = 0
    /\ l.up \in {<<>>, <<"report">>} /\ "plan" \notin l.down
\* Who has a plan, or a server for one, is seated.
Planned(w, l) ==
    \/ w.pc \in {"validating", "spawning", "respawning"}
    \/ w.pc = "looping" /\ (w.server # "none" \/ w.silent > 0)
    \/ "plan" \in l.down
\* Silence that is nobody's fault is a beat that is due or on its way.
BeatComes(w, l) ==
    /\ w.silent > 0 /\ w.excuse = "none" =>
          w.silent = 1 /\ (coord.pc = "serving" => coord.sinceBeat = 1 \/ "beat" \in l.down)
    /\ w.end = "silence" => w.pc = "ended" /\ w.excuse # "none"
Sound(p, w, l) ==
    /\ Fresh(w)
    /\ coord.pc = "joining" => Unplanned(w, l)
    /\ Planned(w, l) => p \in Seated
    /\ BeatComes(w, l)
WorkersSound == \A p \in Procs : Sound(p, proc[p], link[p])

\* A process is seated once, after it has greeted; so is the one that is being admitted.
Greeted(p) == proc[p].pc \notin {"absent", "dialing"}
SeatedOnce ==
    /\ \A i, j \in DOMAIN seats : seats[i] = seats[j] => i = j
    /\ \A i \in DOMAIN seats : Greeted(seats[i])
    /\ coord.guest # None =>
          /\ coord.pc = "joining" /\ Len(seats) < Remote
          /\ Greeted(coord.guest) /\ coord.guest \notin Seated
    /\ coord.pc \in {"validating", "readying"} => Len(seats) = Remote

\* Whose validation the coordinator has heard.
VouchedFor(i) ==
    \/ coord.pc = "validating" /\ i < coord.seat
    \/ coord.pc \in {"readying", "serving", "draining"}
Vouched(p) == \E i \in DOMAIN seats : seats[i] = p /\ VouchedFor(i)
\* A process that ended before it had a plan will never be vouched for; of two processes of a
\* machine one is such a process, because a machine starts the second when the first has ended.
NotValid(up) == \A k \in DOMAIN up : up[k] # "valid"
Cold(p) == proc[p].pc = "ended" /\ NotValid(link[p].up) /\ ~Vouched(p)
OneOfTwo ==
    \A p, q \in Procs :
        p # q /\ MachineOf[p] = MachineOf[q] /\ proc[p].pc # "absent" /\ proc[q].pc # "absent"
            => Cold(p) \/ Cold(q)
FormIInv == FormTypeOK /\ WorkersSound /\ SeatedOnce /\ OneOfTwo

-----------------------------------------------------------------------------
(* The names of stages, servers, excuses, endings, answers and orders.        *)
LEMMA Named ==
    /\ "joining" \in CoordStages /\ "validating" \in CoordStages
       /\ "readying" \in CoordStages /\ "serving" \in CoordStages
       /\ "draining" \in CoordStages /\ "stopped" \in CoordStages
    /\ "absent" \in Before /\ "dialing" \in Before /\ "greeting" \in Before
       /\ "reported" \in Before
    /\ "looping" \in AtWork /\ "validating" \in AtWork /\ "spawning" \in AtWork
       /\ "respawning" \in AtWork
    /\ "absent" \in WorkerStages /\ "dialing" \in WorkerStages
       /\ "greeting" \in WorkerStages /\ "reported" \in WorkerStages
       /\ "looping" \in WorkerStages /\ "validating" \in WorkerStages
       /\ "spawning" \in WorkerStages /\ "respawning" \in WorkerStages
       /\ "ended" \in WorkerStages
    /\ "none" \in Servers /\ "forked" \in Servers /\ "starting" \in Servers
       /\ "listening" \in Servers /\ "up" \in Servers /\ "waiting" \in Servers
       /\ "diedYoung" \in Servers /\ "diedOld" \in Servers
    /\ "none" \in Excuses /\ "busy" \in Excuses /\ "gone" \in Excuses
    /\ "none" \in Ends /\ "refused" \in Ends /\ "disconnected" \in Ends
       /\ "silence" \in Ends /\ "crashing" \in Ends /\ "unable" \in Ends
       /\ "signalled" \in Ends /\ "killed" \in Ends
    /\ "report" \in Words /\ "valid" \in Words /\ "invalid" \in Words /\ "ready" \in Words
    /\ "assign" \in Orders /\ "plan" \in Orders /\ "beat" \in Orders
    /\ "ended" \notin AtWork /\ "ended" \notin Before /\ \A pc \in Before : pc \notin AtWork
BY DEF CoordStages, Before, AtWork, WorkerStages, Servers, Dead, Excuses, Ends, Words, Orders

(* What a process has and where it stands, from the invariant.                *)
LEMMA OfOne ==
    ASSUME FormIInv, NEW p \in Procs
    PROVE  /\ proc[p] \in WorkerOf /\ link[p] \in LinkOf
           /\ Sound(p, proc[p], link[p])
           /\ proc \in [Procs -> WorkerOf] /\ link \in [Procs -> LinkOf]
BY DEF FormIInv, FormTypeOK, WorkersSound

(* Nobody who ended while machines were still admitted is ever vouched for.   *)
LEMMA EndedEarly ==
    ASSUME FormIInv, NEW p \in Procs, coord.pc = "joining", proc[p].pc = "ended"
    PROVE  Cold(p)
<1>1. link[p].up \in {<<>>, <<"report">>}
  BY OfOne DEF Sound, Unplanned
<1>2. NotValid(link[p].up)
  BY <1>1 DEF NotValid
<1>3. ~Vouched(p)
  BY DEF Vouched, VouchedFor
<1>4. QED BY <1>2, <1>3 DEF Cold

(* One worker acts, and the coordinator does not: what is to be shown is about that worker. *)
LEMMA OneWorker ==
    ASSUME FormIInv, NEW p \in Procs, NEW w \in WorkerOf, NEW l \in LinkOf,
           proc' = [proc EXCEPT ![p] = w], link' = [link EXCEPT ![p] = l],
           coord' = coord, seats' = seats,
           Sound(p, w, l),
           Greeted(p) => w.pc \notin {"absent", "dialing"},
           proc[p].pc = "absent" /\ w.pc # "absent" =>
               /\ coord.pc = "joining"
               /\ \A q \in Procs \ {p} : MachineOf[q] = MachineOf[p] =>
                      proc[q].pc \in {"absent", "ended"},
           proc[p].pc = "ended" => w.pc = "ended" /\ l.up = link[p].up
    PROVE  FormIInv'
<1>1. /\ proc'[p] = w /\ link'[p] = l
      /\ \A q \in Procs \ {p} : proc'[q] = proc[q] /\ link'[q] = link[q]
      /\ proc' \in [Procs -> WorkerOf] /\ link' \in [Procs -> LinkOf]
  BY OfOne
<1>2. FormTypeOK'
  <2>1. coord \in CoordOf /\ seats \in Seq(Procs) /\ Len(seats) <= Remote
    BY DEF FormIInv, FormTypeOK
  <2>2. CoordOf' = CoordOf /\ WorkerOf' = WorkerOf /\ LinkOf' = LinkOf
    OBVIOUS
  <2>3. QED BY <1>1, <2>1 DEF FormTypeOK
<1>3. WorkersSound'
  <2>1. ASSUME NEW q \in Procs
        PROVE  Sound(q, proc'[q], link'[q])
    BY <1>1, <2>1, OfOne
  <2>2. \A q, v, m : Sound(q, v, m) => Sound(q, v, m)'
    BY DEF Sound, Fresh, Unplanned, Planned, BeatComes, Seated
  <2>3. QED BY <2>1, <2>2 DEF WorkersSound, Sound, Fresh, Unplanned, Planned, BeatComes, Seated
<1>4. SeatedOnce'
  <2>1. \A q \in Procs : Greeted(q) => Greeted(q)'
    BY <1>1 DEF Greeted
  <2>2. /\ \A i \in DOMAIN seats : seats[i] \in Procs
        /\ coord.guest # None => coord.guest \in Procs
    BY DEF FormIInv, FormTypeOK, CoordOf
  <2>3. SeatedOnce
    BY DEF FormIInv
  <2>4. QED BY <2>1, <2>2, <2>3 DEF SeatedOnce, Seated
<1>5. OneOfTwo'
  <2>1. \A q \in Procs : Cold(q) => Cold(q)'
    <3>1. ASSUME NEW q \in Procs, Cold(q)
          PROVE  proc'[q].pc = "ended" /\ link'[q].up = link[q].up
      <4>1. CASE q = p
        BY <1>1, <3>1, <4>1 DEF Cold
      <4>2. CASE q # p
        BY <1>1, <3>1, <4>2 DEF Cold
      <4>3. QED BY <4>1, <4>2
    <3>2. QED BY <3>1 DEF Cold, NotValid, Vouched, VouchedFor
  <2>2. ASSUME NEW q \in Procs \ {p}, MachineOf[q] = MachineOf[p],
               proc'[p].pc # "absent", proc'[q].pc # "absent"
        PROVE  Cold(p) \/ Cold(q)
    <3>1. CASE proc[p].pc = "absent"
      <4>1. coord.pc = "joining" /\ proc[q].pc = "ended"
        BY <1>1, <2>2, <3>1
      <4>2. QED BY <4>1, EndedEarly
    <3>2. CASE proc[p].pc # "absent"
      BY <1>1, <2>2, <3>2 DEF FormIInv, OneOfTwo
    <3>3. QED BY <3>1, <3>2
  <2>3. ASSUME NEW q \in Procs \ {p}, NEW r \in Procs \ {p}, q # r, MachineOf[q] = MachineOf[r],
               proc'[q].pc # "absent", proc'[r].pc # "absent"
        PROVE  Cold(q) \/ Cold(r)
    BY <1>1, <2>3 DEF FormIInv, OneOfTwo
  <2>4. ASSUME NEW q \in Procs, NEW r \in Procs, q # r, MachineOf[q] = MachineOf[r],
               proc'[q].pc # "absent", proc'[r].pc # "absent"
        PROVE  Cold(q) \/ Cold(r)
    BY <2>2, <2>3, <2>4
  <2>5. QED BY <2>1, <2>4 DEF OneOfTwo
<1>6. QED BY <1>2, <1>3, <1>4, <1>5 DEF FormIInv

(* An answer is one more word on the way to the coordinator.                  *)
LEMMA Answered ==
    /\ \A up \in Seq(Words), word \in Words : Append(up, word) \in Seq(Words)
    /\ \A word \in Words : <<word>> \in Seq(Words)
OBVIOUS

(* What a worker that goes on working does: one lemma over its steps.          *)
LEMMA WorkerGoesOn ==
    ASSUME FormIInv, NEW p \in Procs,
           \/ Report(p) \/ Assigned(p) \/ TakePlan(p) \/ Validated(p) \/ Invalid(p) \/ Spawned(p)
           \/ HearBeat(p) \/ Reap(p) \/ Respawn(p) \/ Respawned(p) \/ Probe(p)
    PROVE  FormIInv'
<1>0. /\ proc[p] \in WorkerOf /\ link[p] \in LinkOf /\ Sound(p, proc[p], link[p])
      /\ proc \in [Procs -> WorkerOf] /\ link \in [Procs -> LinkOf]
  BY OfOne
<1>n. proc[p].pc # "joining" /\ (proc[p].pc \in AtWork => proc[p].pc # "ended" /\ proc[p].pc \notin Before)
  BY <1>0, Named DEF WorkerOf, AtWork, Before, WorkerStages
<1>w. ASSUME NEW w \in WorkerOf, NEW l \in LinkOf,
             proc' = [proc EXCEPT ![p] = w], link' = [link EXCEPT ![p] = l],
             UNCHANGED <<coord, seats>>, Sound(p, w, l),
             proc[p].pc \notin {"absent", "ended"}, w.pc \notin {"absent", "dialing"}
      PROVE  FormIInv'
  BY <1>w, OneWorker
<1>1. CASE Report(p)
  <2> DEFINE w == [proc[p] EXCEPT !.pc = "reported"]
             l == [link[p] EXCEPT !.up = <<"report">>]
  <2>1. proc[p].pc = "greeting"
    BY <1>1, <1>0, Named DEF Report
  <2>2. w \in WorkerOf
    BY <1>0, <2>1, Named DEF WorkerOf
  <2>3. w.pc = "reported" /\ w.server = proc[p].server /\ w.silent = proc[p].silent
        /\ w.excuse = proc[p].excuse /\ w.end = proc[p].end
    BY <1>0 DEF WorkerOf
  <2>4. l \in LinkOf
    <3>1. <<"report">> \in Seq(Words)
      <4>1. link[p].up \in Seq(Words) /\ "report" \in Words
        BY <1>0, Named DEF LinkOf
      <4>2. QED BY <4>1, Answered
    <3>2. QED BY <1>0, <3>1 DEF LinkOf
  <2>5. l.down = link[p].down /\ l.up = <<"report">>
    BY <1>0 DEF LinkOf
  <2>6. proc' = [proc EXCEPT ![p] = w] /\ link' = [link EXCEPT ![p] = l]
        /\ UNCHANGED <<coord, seats>>
    BY <1>0, <1>1 DEF Report
  <2> HIDE DEF w, l
  <2>7. Sound(p, w, l)
    BY <1>0, <2>1, <2>3, <2>5, Named DEF Sound, Fresh, Unplanned, Planned, BeatComes
  <2>8. proc[p].pc \notin {"absent", "ended"} /\ w.pc \notin {"absent", "dialing"}
    BY <1>0, <1>1, <2>1, <2>3 DEF Report, Sound, Fresh, Before
  <2>9. QED BY <1>w, <2>2, <2>4, <2>6, <2>7, <2>8
<1>2. CASE Assigned(p)
  <2> DEFINE w == [proc[p] EXCEPT !.pc = "looping"]
             l == [link[p] EXCEPT !.down = @ \ {"assign"}]
  <2>1. proc[p].pc = "reported"
    BY <1>2, <1>0, Named DEF Assigned
  <2>2. w \in WorkerOf
    BY <1>0, <2>1, Named DEF WorkerOf
  <2>3. w.pc = "looping" /\ w.server = proc[p].server /\ w.silent = proc[p].silent
        /\ w.excuse = proc[p].excuse /\ w.end = proc[p].end
    BY <1>0 DEF WorkerOf
  <2>4. l \in LinkOf
    BY <1>0, Named DEF LinkOf
  <2>5. l.down = link[p].down \ {"assign"} /\ l.up = link[p].up
    BY <1>0 DEF LinkOf
  <2>6. proc' = [proc EXCEPT ![p] = w] /\ link' = [link EXCEPT ![p] = l]
        /\ UNCHANGED <<coord, seats>>
    BY <1>0, <1>2 DEF Assigned
  <2> HIDE DEF w, l
  <2>7. Sound(p, w, l)
    BY <1>0, <2>1, <2>3, <2>5, Named DEF Sound, Fresh, Unplanned, Planned, BeatComes
  <2>8. proc[p].pc \notin {"absent", "ended"} /\ w.pc \notin {"absent", "dialing"}
    BY <1>0, <1>2, <2>1, <2>3 DEF Assigned, Sound, Fresh, Before
  <2>9. QED BY <1>w, <2>2, <2>4, <2>6, <2>7, <2>8
<1>3. CASE TakePlan(p)
  <2> DEFINE w == [Traffic(p) EXCEPT !.pc = "validating"]
             l == [link[p] EXCEPT !.down = @ \ {"plan"}]
  <2>1. proc[p].pc = "looping" /\ "plan" \in link[p].down
    BY <1>3, <1>0, Named DEF TakePlan, Traffic, Looping
  <2>2. w \in WorkerOf
    BY <1>0, <2>1, Named DEF WorkerOf, Traffic, Looping
  <2>3. w.pc = "validating" /\ w.server = proc[p].server /\ w.silent = 0 /\ w.excuse = "none"
        /\ w.end = proc[p].end
    BY <1>0 DEF WorkerOf, Traffic, Looping
  <2>4. l \in LinkOf
    BY <1>0, Named DEF LinkOf
  <2>5. l.down = link[p].down \ {"plan"} /\ l.up = link[p].up
    BY <1>0 DEF LinkOf
  <2>6. proc' = [proc EXCEPT ![p] = w] /\ link' = [link EXCEPT ![p] = l]
        /\ UNCHANGED <<coord, seats>>
    BY <1>0, <1>3 DEF TakePlan, Traffic, Looping
  <2> HIDE DEF w, l
  <2>7. Sound(p, w, l)
    BY <1>0, <2>1, <2>3, <2>5, Named DEF Sound, Fresh, Unplanned, Planned, BeatComes
  <2>8. proc[p].pc \notin {"absent", "ended"} /\ w.pc \notin {"absent", "dialing"}
    BY <1>0, <1>3, <2>1, <2>3 DEF TakePlan, Traffic, Looping, Sound, Fresh, Before
  <2>9. QED BY <1>w, <2>2, <2>4, <2>6, <2>7, <2>8
<1>4. CASE Validated(p)
  <2> DEFINE w == [proc[p] EXCEPT !.pc = "spawning", !.server = "forked"]
             l == link[p]
  <2>1. proc[p].pc = "validating"
    BY <1>4, <1>0, Named DEF Validated
  <2>2. w \in WorkerOf
    BY <1>0, <2>1, Named DEF WorkerOf
  <2>3. w.pc = "spawning" /\ w.silent = proc[p].silent /\ w.excuse = proc[p].excuse
        /\ w.end = proc[p].end
    BY <1>0 DEF WorkerOf
  <2>4. l \in LinkOf
    BY <1>0, Named DEF LinkOf
  <2>5. l.down = link[p].down /\ l.up = link[p].up
    BY <1>0 DEF LinkOf
  <2>6. proc' = [proc EXCEPT ![p] = w] /\ link' = [link EXCEPT ![p] = l]
        /\ UNCHANGED <<coord, seats>>
    BY <1>0, <1>4 DEF Validated
  <2> HIDE DEF w, l
  <2>7. Sound(p, w, l)
    BY <1>0, <2>1, <2>3, <2>5, Named DEF Sound, Fresh, Unplanned, Planned, BeatComes
  <2>8. proc[p].pc \notin {"absent", "ended"} /\ w.pc \notin {"absent", "dialing"}
    BY <1>0, <1>4, <2>1, <2>3 DEF Validated, Sound, Fresh, Before
  <2>9. QED BY <1>w, <2>2, <2>4, <2>6, <2>7, <2>8
<1>5. CASE Invalid(p)
  <2> DEFINE w == [proc[p] EXCEPT !.pc = "looping"]
             l == [link[p] EXCEPT !.up = Append(@, "invalid")]
  <2>1. proc[p].pc = "validating"
    BY <1>5, <1>0, Named DEF Invalid
  <2>2. w \in WorkerOf
    BY <1>0, <2>1, Named DEF WorkerOf
  <2>3. w.pc = "looping" /\ w.server = proc[p].server /\ w.silent = proc[p].silent
        /\ w.excuse = proc[p].excuse /\ w.end = proc[p].end
    BY <1>0 DEF WorkerOf
  <2>4. l \in LinkOf
    <3>1. Append(link[p].up, "invalid") \in Seq(Words)
      <4>1. link[p].up \in Seq(Words) /\ "invalid" \in Words
        BY <1>0, Named DEF LinkOf
      <4>2. QED BY <4>1, Answered
    <3>2. QED BY <1>0, <3>1 DEF LinkOf
  <2>5. l.down = link[p].down
    BY <1>0 DEF LinkOf
  <2>6. proc' = [proc EXCEPT ![p] = w] /\ link' = [link EXCEPT ![p] = l]
        /\ UNCHANGED <<coord, seats>>
    BY <1>0, <1>5 DEF Invalid
  <2> HIDE DEF w, l
  <2>7. Sound(p, w, l)
    BY <1>0, <2>1, <2>3, <2>5, Named DEF Sound, Fresh, Unplanned, Planned, BeatComes
  <2>8. proc[p].pc \notin {"absent", "ended"} /\ w.pc \notin {"absent", "dialing"}
    BY <1>0, <1>5, <2>1, <2>3 DEF Invalid, Sound, Fresh, Before
  <2>9. QED BY <1>w, <2>2, <2>4, <2>6, <2>7, <2>8
<1>6. CASE Spawned(p)
  <2> DEFINE w == [Traffic(p) EXCEPT !.pc = "looping", !.server = Recorded(p)]
             l == [link[p] EXCEPT !.up = Append(@, "valid")]
  <2>1. proc[p].pc = "spawning"
    BY <1>6, <1>0, Named DEF Spawned, Traffic, Recorded
  <2>2. w \in WorkerOf
    BY <1>0, <2>1, Named DEF WorkerOf, Traffic, Recorded
  <2>3. w.pc = "looping" /\ w.silent = 0 /\ w.excuse = "none" /\ w.end = proc[p].end
    BY <1>0 DEF WorkerOf, Traffic, Recorded
  <2>4. l \in LinkOf
    <3>1. Append(link[p].up, "valid") \in Seq(Words)
      <4>1. link[p].up \in Seq(Words) /\ "valid" \in Words
        BY <1>0, Named DEF LinkOf
      <4>2. QED BY <4>1, Answered
    <3>2. QED BY <1>0, <3>1 DEF LinkOf
  <2>5. l.down = link[p].down
    BY <1>0 DEF LinkOf
  <2>6. proc' = [proc EXCEPT ![p] = w] /\ link' = [link EXCEPT ![p] = l]
        /\ UNCHANGED <<coord, seats>>
    BY <1>0, <1>6 DEF Spawned, Traffic, Recorded
  <2> HIDE DEF w, l
  <2>7. Sound(p, w, l)
    BY <1>0, <2>1, <2>3, <2>5, Named DEF Sound, Fresh, Unplanned, Planned, BeatComes
  <2>8. proc[p].pc \notin {"absent", "ended"} /\ w.pc \notin {"absent", "dialing"}
    BY <1>0, <1>6, <2>1, <2>3 DEF Spawned, Traffic, Recorded, Sound, Fresh, Before
  <2>9. QED BY <1>w, <2>2, <2>4, <2>6, <2>7, <2>8
<1>7. CASE HearBeat(p)
  <2> DEFINE w == Traffic(p)
             l == [link[p] EXCEPT !.down = {}]
  <2>1. proc[p].pc = "looping"
    BY <1>7, <1>0, Named DEF HearBeat, Traffic, Looping
  <2>2. w \in WorkerOf
    BY <1>0, <2>1, Named DEF WorkerOf, Traffic, Looping
  <2>3. w.pc = proc[p].pc /\ w.server = proc[p].server /\ w.silent = 0 /\ w.excuse = "none"
        /\ w.end = proc[p].end
    BY <1>0 DEF WorkerOf, Traffic, Looping
  <2>4. l \in LinkOf
    BY <1>0, Named DEF LinkOf
  <2>5. l.down = {} /\ l.up = link[p].up
    BY <1>0 DEF LinkOf
  <2>6. proc' = [proc EXCEPT ![p] = w] /\ link' = [link EXCEPT ![p] = l]
        /\ UNCHANGED <<coord, seats>>
    BY <1>0, <1>7 DEF HearBeat, Traffic, Looping
  <2> HIDE DEF w, l
  <2>7. Sound(p, w, l)
    BY <1>0, <2>1, <2>3, <2>5, Named DEF Sound, Fresh, Unplanned, Planned, BeatComes
  <2>8. proc[p].pc \notin {"absent", "ended"} /\ w.pc \notin {"absent", "dialing"}
    BY <1>0, <1>7, <2>1, <2>3 DEF HearBeat, Traffic, Looping, Sound, Fresh, Before
  <2>9. QED BY <1>w, <2>2, <2>4, <2>6, <2>7, <2>8
<1>8. CASE Reap(p)
  <2> DEFINE w == [proc[p] EXCEPT !.server = "waiting", !.quick = Quick(p) + 1]
             l == link[p]
  <2>1. proc[p].pc = "looping" /\ proc[p].server # "none"
    BY <1>8, <1>0, Named DEF Reap, Looping, Dead, Quick
  <2>2. w \in WorkerOf
    <3>1. Quick(p) + 1 \in Nat
      BY <1>0 DEF Quick, WorkerOf
    <3>2. "waiting" \in Servers
      BY Named
    <3>3. QED BY <1>0, <3>1, <3>2 DEF WorkerOf
  <2>3. w.pc = proc[p].pc /\ w.server = "waiting" /\ w.silent = proc[p].silent
        /\ w.excuse = proc[p].excuse /\ w.end = proc[p].end
    BY <1>0 DEF WorkerOf, Looping, Dead, Quick
  <2>4. l \in LinkOf
    BY <1>0, Named DEF LinkOf
  <2>5. l.down = link[p].down /\ l.up = link[p].up
    BY <1>0 DEF LinkOf
  <2>6. proc' = [proc EXCEPT ![p] = w] /\ link' = [link EXCEPT ![p] = l]
        /\ UNCHANGED <<coord, seats>>
    BY <1>0, <1>8 DEF Reap, Looping, Dead, Quick
  <2> HIDE DEF w, l
  <2>7. Sound(p, w, l)
    BY <1>0, <2>1, <2>3, <2>5, Named DEF Sound, Fresh, Unplanned, Planned, BeatComes
  <2>8. proc[p].pc \notin {"absent", "ended"} /\ w.pc \notin {"absent", "dialing"}
    BY <1>0, <1>8, <2>1, <2>3 DEF Reap, Looping, Dead, Quick, Sound, Fresh, Before
  <2>9. QED BY <1>w, <2>2, <2>4, <2>6, <2>7, <2>8
<1>9. CASE Respawn(p)
  <2> DEFINE w == [proc[p] EXCEPT !.pc = "respawning", !.server = "forked"]
             l == link[p]
  <2>1. proc[p].pc = "looping" /\ proc[p].server # "none"
    BY <1>9, <1>0, Named DEF Respawn, Looping
  <2>2. w \in WorkerOf
    BY <1>0, <2>1, Named DEF WorkerOf, Looping
  <2>3. w.pc = "respawning" /\ w.silent = proc[p].silent /\ w.excuse = proc[p].excuse
        /\ w.end = proc[p].end
    BY <1>0 DEF WorkerOf, Looping
  <2>4. l \in LinkOf
    BY <1>0, Named DEF LinkOf
  <2>5. l.down = link[p].down /\ l.up = link[p].up
    BY <1>0 DEF LinkOf
  <2>6. proc' = [proc EXCEPT ![p] = w] /\ link' = [link EXCEPT ![p] = l]
        /\ UNCHANGED <<coord, seats>>
    BY <1>0, <1>9 DEF Respawn, Looping
  <2> HIDE DEF w, l
  <2>7. Sound(p, w, l)
    BY <1>0, <2>1, <2>3, <2>5, Named DEF Sound, Fresh, Unplanned, Planned, BeatComes
  <2>8. proc[p].pc \notin {"absent", "ended"} /\ w.pc \notin {"absent", "dialing"}
    BY <1>0, <1>9, <2>1, <2>3 DEF Respawn, Looping, Sound, Fresh, Before
  <2>9. QED BY <1>w, <2>2, <2>4, <2>6, <2>7, <2>8
<1>10. CASE Respawned(p)
  <2> DEFINE w == [proc[p] EXCEPT !.pc = "looping", !.server = Recorded(p)]
             l == link[p]
  <2>1. proc[p].pc = "respawning"
    BY <1>10, <1>0, Named DEF Respawned, Recorded
  <2>2. w \in WorkerOf
    BY <1>0, <2>1, Named DEF WorkerOf, Recorded
  <2>3. w.pc = "looping" /\ w.silent = proc[p].silent /\ w.excuse = proc[p].excuse
        /\ w.end = proc[p].end
    BY <1>0 DEF WorkerOf, Recorded
  <2>4. l \in LinkOf
    BY <1>0, Named DEF LinkOf
  <2>5. l.down = link[p].down /\ l.up = link[p].up
    BY <1>0 DEF LinkOf
  <2>6. proc' = [proc EXCEPT ![p] = w] /\ link' = [link EXCEPT ![p] = l]
        /\ UNCHANGED <<coord, seats>>
    BY <1>0, <1>10 DEF Respawned, Recorded
  <2> HIDE DEF w, l
  <2>7. Sound(p, w, l)
    BY <1>0, <2>1, <2>3, <2>5, Named DEF Sound, Fresh, Unplanned, Planned, BeatComes
  <2>8. proc[p].pc \notin {"absent", "ended"} /\ w.pc \notin {"absent", "dialing"}
    BY <1>0, <1>10, <2>1, <2>3 DEF Respawned, Recorded, Sound, Fresh, Before
  <2>9. QED BY <1>w, <2>2, <2>4, <2>6, <2>7, <2>8
<1>11. CASE Probe(p)
  <2> DEFINE w == [proc[p] EXCEPT !.server = "up", !.ready = TRUE]
             l == [link[p] EXCEPT !.up = IF proc[p].ready THEN @ ELSE Append(@, "ready")]
  <2>1. proc[p].pc = "looping" /\ proc[p].server # "none"
    BY <1>11, <1>0, Named DEF Probe, Looping
  <2>2. w \in WorkerOf
    BY <1>0, <2>1, Named DEF WorkerOf, Looping
  <2>3. w.pc = proc[p].pc /\ w.server = "up" /\ w.silent = proc[p].silent
        /\ w.excuse = proc[p].excuse /\ w.end = proc[p].end
    BY <1>0 DEF WorkerOf, Looping
  <2>4. l \in LinkOf
    <3>1. Append(link[p].up, "ready") \in Seq(Words)
      <4>1. link[p].up \in Seq(Words) /\ "ready" \in Words
        BY <1>0, Named DEF LinkOf
      <4>2. QED BY <4>1, Answered
    <3>2. QED BY <1>0, <3>1 DEF LinkOf
  <2>5. l.down = link[p].down
    BY <1>0 DEF LinkOf
  <2>6. proc' = [proc EXCEPT ![p] = w] /\ link' = [link EXCEPT ![p] = l]
        /\ UNCHANGED <<coord, seats>>
    BY <1>0, <1>11 DEF Probe, Looping
  <2> HIDE DEF w, l
  <2>7. Sound(p, w, l)
    BY <1>0, <2>1, <2>3, <2>5, Named DEF Sound, Fresh, Unplanned, Planned, BeatComes
  <2>8. proc[p].pc \notin {"absent", "ended"} /\ w.pc \notin {"absent", "dialing"}
    BY <1>0, <1>11, <2>1, <2>3 DEF Probe, Looping, Sound, Fresh, Before
  <2>9. QED BY <1>w, <2>2, <2>4, <2>6, <2>7, <2>8
<1>z. QED BY <1>1, <1>2, <1>3, <1>4, <1>5, <1>6, <1>7, <1>8, <1>9, <1>10, <1>11

(* A worker's end: it takes nothing out of the cluster that the invariant speaks of, and    *)
(* one that leaves over silence has an excuse for it.                                        *)
LEMMA WorkerEnds ==
    ASSUME FormIInv, NEW p \in Procs, Running(p), NEW why \in Ends, NEW server \in Servers,
           Ended(p, why, server), NEW l \in LinkOf, link' = [link EXCEPT ![p] = l],
           UNCHANGED <<coord, seats>>,
           l.down = link[p].down,
           coord.pc = "joining" => server = "none" /\ l.up = link[p].up,
           why = "silence" => proc[p].excuse # "none"
    PROVE  FormIInv'
<1>0. /\ proc[p] \in WorkerOf /\ link[p] \in LinkOf /\ Sound(p, proc[p], link[p])
  BY OfOne
<1> DEFINE w == [Absent EXCEPT !.pc = "ended", !.server = server, !.end = why,
                               !.excuse = proc[p].excuse]
<1>1. /\ w.pc = "ended" /\ w.server = server /\ w.silent = 0
      /\ w.end = why /\ w.excuse = proc[p].excuse
  BY DEF Absent
<1>2. w \in WorkerOf
  <2>1. Absent \in WorkerOf
    BY Named DEF Absent, WorkerOf
  <2>2. proc[p].excuse \in Excuses /\ "ended" \in WorkerStages
    BY <1>0, Named DEF WorkerOf
  <2>3. QED BY <2>1, <2>2 DEF WorkerOf
<1>3. proc' = [proc EXCEPT ![p] = w]
  BY DEF Ended
<1> HIDE DEF w
<1>4. Sound(p, w, l)
  BY <1>0, <1>1, Named DEF Sound, Fresh, Unplanned, Planned, BeatComes
<1>5. proc[p].pc \notin {"absent", "ended"}
  BY DEF Running
<1>6. QED BY <1>1, <1>2, <1>3, <1>4, <1>5, OneWorker

(* Every way a worker leaves: over silence only with an excuse, and early with no server.   *)
LEMMA WorkerLeaves ==
    ASSUME FormIInv, NEW p \in Procs,
           \/ JoinFails(p) \/ NotSpawned(p) \/ HearEnd(p) \/ Silence(p) \/ GiveUp(p) \/ NotRespawned(p)
           \/ Signalled(p) \/ Killed(p)
    PROVE  FormIInv'
<1>0. /\ proc[p] \in WorkerOf /\ link[p] \in LinkOf /\ Sound(p, proc[p], link[p])
      /\ proc \in [Procs -> WorkerOf] /\ link \in [Procs -> LinkOf]
  BY OfOne
<1>1. "none" \in Servers /\ "forked" \in Servers /\ proc[p].server \in Servers
  BY <1>0, Named DEF WorkerOf
<1>2. coord.pc = "joining" => proc[p].server = "none" /\ proc[p].pc # "validating"
  BY <1>0 DEF Sound, Unplanned
<1>3. ASSUME NEW why \in Ends \ {"silence"}, NEW server \in Servers,
             Running(p), Ended(p, why, server), UNCHANGED <<coord, seats, link>>,
             coord.pc = "joining" => server = "none"
      PROVE  FormIInv'
  <2>1. link' = [link EXCEPT ![p] = link[p]]
    BY <1>0, <1>3
  <2>2. QED BY <1>0, <1>3, <2>1, WorkerEnds
<1>4. CASE JoinFails(p) \/ HearEnd(p) \/ GiveUp(p) \/ NotRespawned(p)
  <2>1. Running(p) /\ UNCHANGED <<coord, seats, link>>
    BY <1>4 DEF JoinFails, HearEnd, GiveUp, NotRespawned, Running, Looping
  <2>2. \E why \in {"refused", "disconnected", "crashing", "unable"} : Left(p, why)
    BY <1>4 DEF JoinFails, HearEnd, GiveUp, NotRespawned
  <2>3. QED BY <1>1, <1>3, <2>1, <2>2, Named DEF Left
<1>5. CASE NotSpawned(p)
  <2> DEFINE l == [link[p] EXCEPT !.up = Append(@, "invalid")]
  <2>1. l \in LinkOf
    <3>1. Append(link[p].up, "invalid") \in Seq(Words)
      <4>1. link[p].up \in Seq(Words) /\ "invalid" \in Words
        BY <1>0, Named DEF LinkOf
      <4>2. QED BY <4>1, Answered
    <3>2. QED BY <1>0, <3>1 DEF LinkOf
  <2>2. l.down = link[p].down
    BY <1>0 DEF LinkOf
  <2>3. link' = [link EXCEPT ![p] = l] /\ UNCHANGED <<coord, seats>>
    BY <1>0, <1>5 DEF NotSpawned
  <2> HIDE DEF l
  <2>4. Running(p) /\ coord.pc # "joining" /\ Ended(p, "unable", "none")
    BY <1>2, <1>5 DEF NotSpawned, Left, Running
  <2>5. "unable" \in Ends
    BY Named
  <2>6. QED BY <1>1, <2>1, <2>2, <2>3, <2>4, <2>5, WorkerEnds
<1>6. CASE Silence(p)
  <2>1. Running(p) /\ UNCHANGED <<coord, seats, link>> /\ Ended(p, "silence", "none")
    BY <1>6 DEF Silence, Running, Looping, Left
  <2>2. proc[p].silent > 1
    <3>1. proc[p].silent > SilenceLimit /\ proc[p].silent \in Nat
      BY <1>0, <1>6 DEF Silence, WorkerOf
    <3>2. SilenceLimit \in Nat \ {0}
      BY ClusterAssumption DEF ClusterAssumption
    <3>3. QED BY <3>1, <3>2
  <2>3. proc[p].excuse # "none"
    <3>1. proc[p].silent > 0 /\ proc[p].silent # 1
      BY <2>2, <1>0 DEF WorkerOf
    <3>2. QED BY <1>0, <3>1 DEF Sound, BeatComes
  <2>4. link' = [link EXCEPT ![p] = link[p]] /\ "silence" \in Ends
    BY <1>0, <2>1, Named
  <2>5. QED BY <1>0, <1>1, <2>1, <2>3, <2>4, WorkerEnds
<1>7. CASE Signalled(p)
  BY <1>1, <1>2, <1>3, <1>7, Named DEF Signalled
<1>8. CASE Killed(p)
  BY <1>1, <1>2, <1>3, <1>8, Named DEF Killed
<1>9. QED BY <1>4, <1>5, <1>6, <1>7, <1>8

(* What else happens at one worker: it dials, its server comes up or dies, its link breaks. *)
LEMMA WorkerElse ==
    ASSUME FormIInv, NEW p \in Procs,
           Dial(p) \/ ServerListens(p) \/ ServerDies(p) \/ Cut(p) \/ Heal(p)
    PROVE  FormIInv'
<1>0. /\ proc[p] \in WorkerOf /\ link[p] \in LinkOf /\ Sound(p, proc[p], link[p])
      /\ proc \in [Procs -> WorkerOf] /\ link \in [Procs -> LinkOf]
  BY OfOne
<1>1. CASE Dial(p)
  <2> DEFINE w == [proc[p] EXCEPT !.pc = "dialing"]
  <2>1. proc[p].pc = "absent" /\ coord.pc = "joining" /\ UNCHANGED <<coord, seats, link>>
    BY <1>1 DEF Dial
  <2>2. w \in WorkerOf
    BY <1>0, Named DEF WorkerOf
  <2>3. /\ w.pc = "dialing" /\ w.server = proc[p].server /\ w.silent = proc[p].silent
        /\ w.excuse = proc[p].excuse /\ w.end = proc[p].end
    BY <1>0 DEF WorkerOf
  <2>4. proc' = [proc EXCEPT ![p] = w] /\ link' = [link EXCEPT ![p] = link[p]]
    BY <1>0, <1>1 DEF Dial
  <2> HIDE DEF w
  <2>5. Sound(p, w, link[p])
    BY <1>0, <2>1, <2>3, Named DEF Sound, Fresh, Unplanned, Planned, BeatComes
  <2>6. \A q \in Procs \ {p} : MachineOf[q] = MachineOf[p] => proc[q].pc \in {"absent", "ended"}
    BY <1>1 DEF Dial, Running
  <2>7. ~Greeted(p) /\ proc[p].pc # "ended"
    BY <2>1 DEF Greeted
  <2>8. QED BY <1>0, <2>1, <2>2, <2>4, <2>5, <2>6, <2>7, OneWorker
<1>2. CASE ServerListens(p) \/ ServerDies(p)
  <2>1. PICK server \in {"listening", "diedYoung", "diedOld"} :
            proc' = [proc EXCEPT ![p] = [proc[p] EXCEPT !.server = server]]
    BY <1>0, <1>2 DEF ServerListens, ServerDies
  <2> DEFINE w == [proc[p] EXCEPT !.server = server]
  <2>2. proc[p].server # "none" /\ UNCHANGED <<coord, seats, link>>
    BY <1>2 DEF ServerListens, ServerDies
  <2>3. w \in WorkerOf
    BY <1>0, Named DEF WorkerOf
  <2>4. /\ w.pc = proc[p].pc /\ w.server # "none" /\ w.silent = proc[p].silent
        /\ w.excuse = proc[p].excuse /\ w.end = proc[p].end
    BY <1>0 DEF WorkerOf
  <2>5. link' = [link EXCEPT ![p] = link[p]]
    BY <1>0, <2>2
  <2> HIDE DEF w
  <2>6. Sound(p, w, link[p])
    BY <1>0, <2>2, <2>4, Named DEF Sound, Fresh, Unplanned, Planned, BeatComes
  <2>7. proc[p].pc \notin {"absent", "dialing"}
    BY <1>0, <2>2, Named DEF Sound, Fresh
  <2>8. QED BY <1>0, <2>1, <2>2, <2>3, <2>4, <2>5, <2>6, <2>7, OneWorker DEF w
<1>3. CASE Cut(p) \/ Heal(p)
  <2>1. PICK cut \in BOOLEAN : link' = [link EXCEPT ![p] = [link[p] EXCEPT !.cut = cut]]
    BY <1>0, <1>3 DEF Cut, Heal
  <2> DEFINE l == [link[p] EXCEPT !.cut = cut]
  <2>2. l \in LinkOf /\ l.down = link[p].down /\ l.up = link[p].up
    BY <1>0 DEF LinkOf
  <2>3. proc' = [proc EXCEPT ![p] = proc[p]] /\ UNCHANGED <<coord, seats>>
    BY <1>0, <1>3 DEF Cut, Heal
  <2>4. link' = [link EXCEPT ![p] = l]
    BY <2>1
  <2> HIDE DEF l
  <2>5. Sound(p, proc[p], l)
    BY <1>0, <2>2 DEF Sound, Unplanned, Planned, BeatComes
  <2>6. Greeted(p) => proc[p].pc \notin {"absent", "dialing"}
    BY DEF Greeted
  <2>7. QED BY <1>0, <2>2, <2>3, <2>4, <2>5, <2>6, OneWorker
<1>4. QED BY <1>1, <1>2, <1>3

-----------------------------------------------------------------------------
(* Where the coordinator stands, from the invariant.                          *)
LEMMA OfCoord ==
    ASSUME FormIInv
    PROVE  /\ coord \in CoordOf /\ seats \in Seq(Procs) /\ Len(seats) \in Nat /\ Len(seats) <= Remote
           /\ coord.guest # None => coord.guest \in Procs
           /\ coord.seat \in 1..Remote /\ Remote \in Nat \ {0}
           /\ \A i \in DOMAIN seats : seats[i] \in Procs
           /\ DOMAIN seats = 1..Len(seats)
           /\ SeatedOnce /\ OneOfTwo /\ WorkersSound
           /\ proc \in [Procs -> WorkerOf] /\ link \in [Procs -> LinkOf]
<1>1. coord \in CoordOf /\ seats \in Seq(Procs) /\ Len(seats) <= Remote
  BY DEF FormIInv, FormTypeOK
<1>2. coord.guest \in Procs \cup {None} /\ coord.seat \in 1..Remote
  BY <1>1 DEF CoordOf
<1>3. Remote \in Nat \ {0}
  BY ClusterAssumption DEF ClusterAssumption
<1>4. Len(seats) \in Nat /\ DOMAIN seats = 1..Len(seats) /\ \A i \in DOMAIN seats : seats[i] \in Procs
  BY <1>1
<1>5. QED BY <1>1, <1>2, <1>3, <1>4 DEF FormIInv, FormTypeOK

(* A process that is cold stays so, as long as nobody vouches for it.         *)
LEMMA ColdKept ==
    ASSUME FormIInv,
           \A p \in Procs : proc'[p].pc = "ended" <=> proc[p].pc = "ended",
           \A p \in Procs : proc'[p].pc = "absent" <=> proc[p].pc = "absent",
           \A p \in Procs : Cold(p) => NotValid(link'[p].up) /\ ~Vouched(p)'
    PROVE  OneOfTwo'
<1>1. \A p \in Procs : Cold(p) => Cold(p)'
  BY DEF Cold, NotValid
<1>2. OneOfTwo
  BY OfCoord
<1>3. QED BY <1>1, <1>2 DEF OneOfTwo

(* The coordinator acts, no worker does, and nobody new is seated: what is to be shown is   *)
(* that it does not go back, that a beat is due when it starts to serve, and that it        *)
(* vouches for nobody who is cold.                                                          *)
LEMMA CoordMoves ==
    ASSUME FormIInv, coord' \in CoordOf, UNCHANGED <<proc, seats>>, link' \in [Procs -> LinkOf],
           \A p \in Procs : link'[p].down = link[p].down,
           \A p \in Procs : NotValid(link[p].up) => NotValid(link'[p].up),
           coord'.guest \in {None, coord.guest},
           coord'.pc = "joining" =>
               coord.pc = "joining" /\ \A p \in Procs : link'[p].up = link[p].up,
           coord'.guest # None => coord'.pc = "joining",
           coord'.pc = "serving" =>
               coord'.sinceBeat = 1 \/ (coord.pc = "serving" /\ coord'.sinceBeat = coord.sinceBeat),
           coord'.pc \in {"validating", "readying"} => Len(seats) = Remote,
           \A p \in Procs : Cold(p) => ~Vouched(p)'
    PROVE  FormIInv'
<1>1. FormTypeOK'
  BY OfCoord DEF FormTypeOK, CoordOf, WorkerOf, LinkOf
<1>2. WorkersSound'
  <2>1. ASSUME NEW p \in Procs
        PROVE  Sound(p, proc[p], link[p])'
    <3>1. Sound(p, proc[p], link[p])
      BY OfOne
    <3>2. Fresh(proc[p])'
      BY <3>1 DEF Sound, Fresh
    <3>3. coord'.pc = "joining" => Unplanned(proc[p], link'[p])
      BY <3>1 DEF Sound, Unplanned
    <3>4. Planned(proc[p], link'[p]) => p \in Seated
      BY <3>1 DEF Sound, Planned
    <3>5. BeatComes(proc[p], link[p])'
      BY <3>1 DEF Sound, BeatComes
    <3>6. QED BY <3>2, <3>3, <3>4, <3>5 DEF Sound, Unplanned, Planned, Seated
  <2>2. QED BY <2>1 DEF WorkersSound
<1>3. SeatedOnce'
  BY OfCoord DEF SeatedOnce, Seated, Greeted
<1>4. OneOfTwo'
  <2>1. \A p \in Procs : Cold(p) => NotValid(link'[p].up)
    BY DEF Cold
  <2>2. QED BY <2>1, ColdKept
<1>5. QED BY <1>1, <1>2, <1>3, <1>4 DEF FormIInv

(* It gives up, drains, hangs or goes on; or it turns a guest away.           *)
LEMMA CoordRests ==
    ASSUME FormIInv,
           \/ JoinExpires \/ PlanRefused \/ FormationFails \/ Drained \/ Crash
           \/ Drain \/ Hang \/ Resume \/ TurnAway
    PROVE  FormIInv'
<1>0. coord \in CoordOf /\ link \in [Procs -> LinkOf] /\ SeatedOnce
  BY OfCoord
<1>1. CASE JoinExpires \/ PlanRefused \/ FormationFails \/ Drained \/ Crash
  <2>1. coord' = Over /\ UNCHANGED <<proc, seats, link>>
    BY <1>1 DEF JoinExpires, PlanRefused, FormationFails, Drained, Crash, Stopped
  <2>2. Over.pc = "stopped" /\ Over.guest = None
    BY DEF Over, Start
  <2>3. Over \in CoordOf
    <3>1. Start \in CoordOf
      BY Named, OfCoord DEF Start, CoordOf
    <3>2. QED BY <3>1, Named DEF Over, CoordOf
  <2>4. \A p \in Procs : ~Vouched(p)'
    BY <2>1, <2>2 DEF Vouched, VouchedFor
  <2>5. QED BY <1>0, <2>1, <2>2, <2>3, <2>4, CoordMoves
<1>2. CASE Drain
  <2>1. coord' = [coord EXCEPT !.pc = "draining"] /\ UNCHANGED <<proc, seats, link>> /\ coord.pc = "serving"
    BY <1>2 DEF Drain, Coord
  <2>2. coord' \in CoordOf
    BY <1>0, <2>1, Named DEF CoordOf
  <2>3. coord'.pc = "draining" /\ coord'.guest = coord.guest /\ coord.guest = None
    BY <1>0, <2>1 DEF CoordOf, SeatedOnce
  <2>4. \A p \in Procs : Vouched(p)' => Vouched(p)
    BY <2>1, <2>3 DEF Vouched, VouchedFor
  <2>5. QED BY <1>0, <2>1, <2>2, <2>3, <2>4, CoordMoves DEF Cold
<1>3. CASE Hang \/ Resume
  <2>1. PICK hung \in BOOLEAN : coord' = [coord EXCEPT !.hung = hung]
    BY <1>3 DEF Hang, Resume
  <2>2. UNCHANGED <<proc, seats, link>>
    BY <1>3 DEF Hang, Resume
  <2>3. /\ coord' \in CoordOf /\ coord'.pc = coord.pc /\ coord'.guest = coord.guest
        /\ coord'.sinceBeat = coord.sinceBeat /\ coord'.seat = coord.seat
    BY <1>0, <2>1 DEF CoordOf
  <2>4. \A p \in Procs : Vouched(p)' => Vouched(p)
    BY <2>2, <2>3 DEF Vouched, VouchedFor
  <2>5. QED BY <1>0, <2>2, <2>3, <2>4, CoordMoves DEF Cold, SeatedOnce
<1>4. CASE TurnAway
  <2>1. /\ coord.pc = "joining" /\ coord.guest \in Procs /\ UNCHANGED <<proc, seats>>
        /\ coord' = [coord EXCEPT !.guest = None]
        /\ link' = [link EXCEPT ![coord.guest] = [@ EXCEPT !.shut = TRUE]]
    BY <1>0, <1>4, OfCoord DEF TurnAway, Coord
  <2>2. coord' \in CoordOf /\ coord'.pc = "joining" /\ coord'.guest = None
    BY <1>0, <2>1 DEF CoordOf
  <2>3. /\ link' \in [Procs -> LinkOf]
        /\ \A p \in Procs : link'[p].down = link[p].down /\ link'[p].up = link[p].up
    BY <1>0, <2>1 DEF LinkOf
  <2>4. \A p \in Procs : ~Vouched(p)'
    BY <2>2 DEF Vouched, VouchedFor
  <2>5. QED BY <2>1, <2>2, <2>3, <2>4, CoordMoves
<1>5. QED BY <1>1, <1>2, <1>3, <1>4

(* Whose answer it reads: the seat it waits for.                              *)
LEMMA OfCurrent ==
    ASSUME FormIInv, coord.pc \in {"validating", "readying"}
    PROVE  /\ Current \in Procs /\ coord.seat \in DOMAIN seats
           /\ Len(seats) = Remote /\ coord.guest = None
BY OfCoord DEF Current, SeatedOnce

(* An answer read is off the link, and no other was changed.                  *)
LEMMA OneRead ==
    ASSUME FormIInv, NEW p \in Procs, link[p].up # <<>>, link' = [link EXCEPT ![p].up = Tail(@)]
    PROVE  /\ link' \in [Procs -> LinkOf]
           /\ \A q \in Procs : link'[q].down = link[q].down
           /\ \A q \in Procs : NotValid(link[q].up) => NotValid(link'[q].up)
           /\ NotValid(link[p].up) => Head(link[p].up) # "valid"
<1> DEFINE up == link[p].up
<1>1. link \in [Procs -> LinkOf] /\ up \in Seq(Words) /\ up # <<>>
  <2>1. link \in [Procs -> LinkOf]
    BY OfCoord
  <2>2. QED BY <2>1 DEF LinkOf
<1>2. /\ Tail(up) \in Seq(Words)
      /\ Len(Tail(up)) = Len(up) - 1
      /\ \A k \in 1..Len(Tail(up)) : Tail(up)[k] = up[k + 1]
  BY <1>1, HeadTailProperties
<1>3. NotValid(up) => NotValid(Tail(up)) /\ Head(up) # "valid"
  <2>1. DOMAIN up = 1..Len(up) /\ DOMAIN Tail(up) = 1..Len(Tail(up)) /\ Len(up) \in Nat \ {0}
    BY <1>1, <1>2
  <2>2. \A k \in DOMAIN Tail(up) : k + 1 \in DOMAIN up
    BY <1>2, <2>1
  <2>3. Head(up) = up[1] /\ 1 \in DOMAIN up
    BY <1>1, <2>1
  <2>4. QED BY <1>2, <2>1, <2>2, <2>3 DEF NotValid
<1>4. /\ link'[p].up = Tail(up) /\ link'[p].down = link[p].down
      /\ \A q \in Procs \ {p} : link'[q] = link[q]
  BY <1>1 DEF LinkOf
<1>5. link' \in [Procs -> LinkOf]
  BY <1>1, <1>2 DEF LinkOf
<1>6. QED BY <1>3, <1>4, <1>5

(* It reads an answer to the plan; who is vouched for has said that its validation is over. *)
LEMMA CoordHears ==
    ASSUME FormIInv, HearValidation \/ HearReady
    PROVE  FormIInv'
<1>0. /\ coord \in CoordOf /\ coord.seat \in 1..Remote /\ Remote \in Nat \ {0}
      /\ coord.pc \in {"validating", "readying"} /\ UNCHANGED <<proc, seats>>
  BY OfCoord DEF HearValidation, HearReady, Coord
<1>1. Current \in Procs /\ coord.seat \in DOMAIN seats /\ Len(seats) = Remote /\ coord.guest = None
  BY <1>0, OfCurrent
<1>2. /\ link' \in [Procs -> LinkOf]
      /\ \A q \in Procs : link'[q].down = link[q].down
      /\ \A q \in Procs : NotValid(link[q].up) => NotValid(link'[q].up)
      /\ NotValid(link[Current].up) => Head(link[Current].up) # "valid"
  <2>1. link[Current].up # <<>> /\ link' = [link EXCEPT ![Current].up = Tail(@)]
    BY DEF HearValidation, HearReady, Heard
  <2> HIDE DEF Current
  <2>2. QED BY <1>1, <2>1, OneRead
<1>3. DOMAIN seats = 1..Remote
  BY <1>1, OfCoord
<1>m. ASSUME coord' \in CoordOf, coord'.guest = None, coord'.pc \notin {"joining"},
             coord'.pc = "serving" => coord'.sinceBeat = 1,
             \A p \in Procs : Cold(p) => ~Vouched(p)'
      PROVE  FormIInv'
  BY <1>0, <1>1, <1>2, <1>m, CoordMoves
<1>a. /\ Over \in CoordOf /\ Over.pc = "stopped" /\ Over.guest = None
  <2>1. Start \in CoordOf
    BY Named, OfCoord DEF Start, CoordOf
  <2>2. QED BY <2>1, Named DEF Over, CoordOf, Start
<1>b. ASSUME coord' = Over PROVE FormIInv'
  <2>1. \A p \in Procs : ~Vouched(p)'
    BY <1>a, <1>b DEF Vouched, VouchedFor
  <2>2. QED BY <1>a, <1>b, <1>m, <2>1
<1>c. ASSUME NEW pc \in {"readying", "serving"}
      PROVE  LET next == ToNextSeat(pc) IN
             /\ next \in CoordOf /\ next.guest = None
             /\ coord.seat < Remote => next.pc = coord.pc /\ next.seat = coord.seat + 1
             /\ coord.seat >= Remote => next.pc = pc
  <2>1. "readying" \in CoordStages /\ "serving" \in CoordStages
    BY Named
  <2>2. CASE coord.seat < Remote
    <3>1. ToNextSeat(pc) = [coord EXCEPT !.seat = coord.seat + 1, !.waited = 0]
      BY <2>2 DEF ToNextSeat
    <3>2. coord.seat + 1 \in 1..Remote
      BY <1>0, <2>2
    <3>3. ToNextSeat(pc) \in CoordOf
      <4>1. coord \in CoordOf
        BY <1>0
      <4>2. [coord EXCEPT !.seat = coord.seat + 1, !.waited = 0] \in CoordOf
        BY <3>2, <4>1 DEF CoordOf
      <4>3. QED BY <3>1, <4>2
    <3>4. /\ ToNextSeat(pc).guest = None /\ ToNextSeat(pc).pc = coord.pc
          /\ ToNextSeat(pc).seat = coord.seat + 1
      BY <1>0, <1>1, <3>1 DEF CoordOf
    <3>5. ~(coord.seat >= Remote)
      BY <1>0, <2>2
    <3>6. QED BY <3>3, <3>4, <3>5
  <2>3. CASE ~(coord.seat < Remote)
    <3>1. ToNextSeat(pc) = [coord EXCEPT !.pc = pc, !.seat = 1, !.waited = 0]
      BY <2>3 DEF ToNextSeat
    <3>2. pc \in CoordStages /\ 1 \in 1..Remote
      BY <1>0, <2>1
    <3>3. ToNextSeat(pc) \in CoordOf
      <4>1. coord \in CoordOf
        BY <1>0
      <4>2. [coord EXCEPT !.pc = pc, !.seat = 1, !.waited = 0] \in CoordOf
        BY <3>2, <4>1 DEF CoordOf
      <4>3. QED BY <3>1, <4>2
    <3>4. ToNextSeat(pc).guest = None /\ ToNextSeat(pc).pc = pc
      BY <1>0, <1>1, <3>1 DEF CoordOf
    <3>5. QED BY <2>3, <3>3, <3>4
  <2>4. QED BY <2>2, <2>3
<1>4. CASE HearValidation
  <2>0. coord.pc = "validating"
    BY <1>4 DEF HearValidation, Coord
  <2>1. CASE Head(link[Current].up) = "valid"
    <3>1. coord' = ToNextSeat("readying")
      BY <1>4, <2>1 DEF HearValidation
    <3>2. /\ coord' \in CoordOf /\ coord'.guest = None
          /\ coord.seat < Remote => coord'.pc = "validating" /\ coord'.seat = coord.seat + 1
          /\ coord.seat >= Remote => coord'.pc = "readying"
      BY <1>c, <2>0, <3>1
    <3>3. \A p \in Procs : Cold(p) => ~Vouched(p)'
      <4>1. ASSUME NEW p \in Procs, Cold(p), NEW i \in DOMAIN seats, seats[i] = p, VouchedFor(i)'
            PROVE  FALSE
        <5>1. p # Current
          BY <1>2, <2>1, <4>1 DEF Cold
        <5>2. i # coord.seat
          BY <4>1, <5>1 DEF Current
        <5>3. i < coord.seat
          BY <1>0, <1>3, <3>2, <4>1, <5>2 DEF VouchedFor
        <5>4. Vouched(p)
          BY <2>0, <4>1, <5>3 DEF Vouched, VouchedFor
        <5>5. QED BY <4>1, <5>4 DEF Cold
      <4>2. QED BY <1>0, <4>1 DEF Vouched
    <3>4. coord'.pc \notin {"joining", "serving"}
      BY <1>0, <3>2
    <3>5. QED BY <1>m, <3>2, <3>3, <3>4
  <2>2. CASE Head(link[Current].up) = "invalid"
    BY <1>4, <1>b, <2>2 DEF HearValidation
  <2>3. CASE Head(link[Current].up) \notin {"valid", "invalid"}
    <3>1. coord' = [coord EXCEPT !.waited = 0]
      BY <1>4, <2>3 DEF HearValidation
    <3>2. coord' \in CoordOf /\ coord'.guest = None /\ coord'.pc = "validating" /\ coord'.seat = coord.seat
      BY <1>0, <1>1, <2>0, <3>1 DEF CoordOf
    <3>3. \A p \in Procs : Vouched(p)' => Vouched(p)
      BY <1>0, <2>0, <3>2 DEF Vouched, VouchedFor
    <3>4. QED BY <1>m, <3>2, <3>3 DEF Cold
  <2>4. QED BY <2>1, <2>2, <2>3
<1>5. CASE HearReady
  <2>0. coord.pc = "readying"
    BY <1>5 DEF HearReady, Coord
  <2>1. CASE Head(link[Current].up) = "ready"
    <3>1. coord' = [ToNextSeat("serving") EXCEPT !.sinceBeat = 1]
      BY <1>5, <2>1 DEF HearReady
    <3>2. /\ coord' \in CoordOf /\ coord'.guest = None /\ coord'.sinceBeat = 1
          /\ coord'.pc \in {"readying", "serving"}
      <4>1. /\ ToNextSeat("serving") \in CoordOf /\ ToNextSeat("serving").guest = None
            /\ ToNextSeat("serving").pc \in {"readying", "serving"}
        BY <1>0, <1>c, <2>0
      <4>2. QED BY <3>1, <4>1 DEF CoordOf
    <3>3. \A p \in Procs : Vouched(p)' => Vouched(p)
      BY <1>0, <2>0 DEF Vouched, VouchedFor
    <3>4. QED BY <1>m, <3>2, <3>3 DEF Cold
  <2>2. CASE Head(link[Current].up) # "ready"
    BY <1>5, <1>b, <2>2 DEF HearReady
  <2>3. QED BY <2>1, <2>2
<1>6. QED BY <1>4, <1>5

(* Nobody is vouched for while machines are admitted.                         *)
LEMMA NoneVouched ==
    ASSUME coord'.pc \notin {"validating", "readying", "serving", "draining"}
    PROVE  \A p \in Procs : ~Vouched(p)'
BY DEF Vouched, VouchedFor

(* A machine is let in, or its process is taken in hand: it is no longer a stranger, and it  *)
(* is seated nowhere yet.                                                                     *)
LEMMA CoordAccepts ==
    ASSUME FormIInv, NEW p \in Procs, Accept(p)
    PROVE  FormIInv'
<1>0. /\ coord \in CoordOf /\ proc[p] \in WorkerOf /\ link \in [Procs -> LinkOf] /\ SeatedOnce
      /\ proc \in [Procs -> WorkerOf] /\ WorkersSound /\ Sound(p, proc[p], link[p])
      /\ coord.pc = "joining" /\ proc[p].pc = "dialing" /\ Len(seats) < Remote
      /\ UNCHANGED <<seats, link>>
      /\ \A i \in DOMAIN seats : seats[i] \in Procs
  BY OfCoord, OfOne DEF Accept, Coord
<1> DEFINE w == [proc[p] EXCEPT !.pc = "greeting"]
<1>1. /\ w \in WorkerOf /\ w.pc = "greeting" /\ w.server = proc[p].server
      /\ w.silent = proc[p].silent /\ w.excuse = proc[p].excuse /\ w.end = proc[p].end
  <2>1. proc[p] \in WorkerOf
    BY <1>0
  <2>2. QED BY <2>1, Named DEF WorkerOf
<1>2. proc' = [proc EXCEPT ![p] = w]
  BY <1>0 DEF Accept
<1> HIDE DEF w
<1>3. /\ proc'[p] = w /\ proc' \in [Procs -> WorkerOf]
      /\ \A q \in Procs \ {p} : proc'[q] = proc[q]
  BY <1>0, <1>1, <1>2
<1>4. /\ coord' \in CoordOf /\ coord'.pc = "joining" /\ coord'.guest = p
      /\ coord'.sinceBeat = coord.sinceBeat
  <2>1. coord \in CoordOf /\ coord.pc = "joining" /\ coord' = [coord EXCEPT !.guest = p, !.waited = 0]
    BY <1>0 DEF Accept
  <2>2. QED BY <2>1 DEF CoordOf
<1>5. FormTypeOK'
  BY <1>0, <1>3, <1>4, OfCoord DEF FormTypeOK, CoordOf, WorkerOf, LinkOf
<1>6. WorkersSound'
  <2>1. ASSUME NEW q \in Procs
        PROVE  Sound(q, proc[q], link[q])'
    <3>1. CASE q = p
      BY <1>0, <1>1, <1>3, <1>4, <3>1, Named DEF Sound, Fresh, Unplanned, Planned, BeatComes, Seated
    <3>2. CASE q # p
      <4>1. Sound(q, proc[q], link[q])
        BY OfOne
      <4>2. QED BY <1>0, <1>3, <1>4, <3>2, <4>1
                DEF Sound, Fresh, Unplanned, Planned, BeatComes, Seated
    <3>3. QED BY <3>1, <3>2
  <2>2. QED BY <2>1 DEF WorkersSound
<1>7. SeatedOnce'
  <2>1. p \notin Seated
    BY <1>0 DEF SeatedOnce, Greeted, Seated
  <2>2. \A q \in Procs : Greeted(q) => Greeted(q)'
    BY <1>1, <1>3 DEF Greeted
  <2>3. Greeted(p)'
    BY <1>1, <1>3 DEF Greeted
  <2>4. QED BY <1>0, <1>4, <2>1, <2>2, <2>3 DEF SeatedOnce, Seated
<1>8. OneOfTwo'
  <2>1. \A q \in Procs : /\ proc'[q].pc = "ended" <=> proc[q].pc = "ended"
    BY <1>0, <1>1, <1>3
  <2>2. \A q \in Procs : proc'[q].pc = "absent" <=> proc[q].pc = "absent"
    BY <1>0, <1>1, <1>3
  <2>3. \A q \in Procs : Cold(q) => NotValid(link'[q].up) /\ ~Vouched(q)'
    BY <1>0, <1>4, NoneVouched DEF Cold
  <2>4. QED BY <2>1, <2>2, <2>3, ColdKept
<1>9. QED BY <1>5, <1>6, <1>7, <1>8 DEF FormIInv

(* The machine in hand is given the next seat, which it does not hold yet.                  *)
LEMMA CoordAdmits ==
    ASSUME FormIInv, Admit
    PROVE  FormIInv'
<1> DEFINE p == coord.guest
<1>0. /\ coord \in CoordOf /\ link \in [Procs -> LinkOf] /\ SeatedOnce /\ UNCHANGED proc
      /\ proc \in [Procs -> WorkerOf] /\ seats \in Seq(Procs) /\ DOMAIN seats = 1..Len(seats)
      /\ Len(seats) \in Nat /\ \A i \in DOMAIN seats : seats[i] \in Procs
      /\ coord.pc = "joining" /\ p \in Procs
      /\ Len(seats) < Remote /\ Remote \in Nat /\ Greeted(p) /\ p \notin Seated
  BY OfCoord DEF Admit, Coord, SeatedOnce
<1>1. /\ coord' \in CoordOf /\ coord'.pc = "joining" /\ coord'.guest = None
  <2>1. coord \in CoordOf /\ coord.pc = "joining" /\ coord' = [coord EXCEPT !.guest = None]
    BY <1>0 DEF Admit
  <2>2. QED BY <2>1 DEF CoordOf
<1>2. /\ link' \in [Procs -> LinkOf]
      /\ link'[p].down = {"assign"} /\ link'[p].up = <<>>
      /\ \A q \in Procs \ {p} : link'[q] = link[q]
  <2>1. link' = [link EXCEPT ![p] = [link[p] EXCEPT !.up = <<>>, !.down = {"assign"}]]
    BY DEF Admit
  <2>2. link \in [Procs -> LinkOf] /\ p \in Procs /\ link[p] \in LinkOf
    BY <1>0
  <2> HIDE DEF p
  <2>3. <<>> \in Seq(Words) /\ {"assign"} \in SUBSET Orders
    BY Named
  <2>4. [link[p] EXCEPT !.up = <<>>, !.down = {"assign"}] \in LinkOf
    BY <2>2, <2>3 DEF LinkOf
  <2>5. QED BY <2>1, <2>2, <2>4 DEF LinkOf
<1>3. /\ seats' \in Seq(Procs) /\ Len(seats') = Len(seats) + 1
      /\ \A i \in 1..Len(seats) : seats'[i] = seats[i]
      /\ seats'[Len(seats) + 1] = p
      /\ DOMAIN seats' = 1..(Len(seats) + 1)
  <2>1. seats' = Append(seats, p) /\ seats \in Seq(Procs) /\ p \in Procs
    BY <1>0 DEF Admit
  <2> HIDE DEF p
  <2>2. QED BY <2>1, AppendProperties
<1> HIDE DEF p
<1>4. FormTypeOK'
  <2>1. CoordOf' = CoordOf /\ WorkerOf' = WorkerOf /\ LinkOf' = LinkOf
    BY DEF CoordOf, WorkerOf, LinkOf
  <2>2. Len(seats') <= Remote
    BY <1>0, <1>3
  <2>3. QED BY <1>0, <1>1, <1>2, <1>3, <2>1, <2>2 DEF FormTypeOK
<1>5. \A q \in Procs : q \in Seated' <=> q \in Seated \/ q = p
  BY <1>0, <1>3 DEF Seated
<1>6. WorkersSound'
  <2>1. ASSUME NEW q \in Procs
        PROVE  Sound(q, proc[q], link[q])'
    <3>1. Sound(q, proc[q], link[q])
      BY OfOne
    <3>2. CASE q = p
      BY <1>0, <1>1, <1>2, <1>5, <3>1, <3>2 DEF Sound, Fresh, Unplanned, Planned, BeatComes
    <3>3. CASE q # p
      BY <1>0, <1>1, <1>2, <1>5, <3>1, <3>3 DEF Sound, Fresh, Unplanned, Planned, BeatComes
    <3>4. QED BY <3>2, <3>3
  <2>2. QED BY <2>1 DEF WorkersSound
<1>7. SeatedOnce'
  <2>1. ASSUME NEW i \in DOMAIN seats', NEW j \in DOMAIN seats', seats'[i] = seats'[j]
        PROVE  i = j
    <3>1. \A k \in 1..Len(seats) : seats[k] # p
      BY <1>0 DEF Seated
    <3>2. QED BY <1>0, <1>3, <2>1, <3>1 DEF SeatedOnce
  <2>2. (\A i \in DOMAIN seats : Greeted(seats[i]))'
    <3>1. ASSUME NEW i \in DOMAIN seats'
          PROVE  proc[seats'[i]].pc \notin {"absent", "dialing"}
      <4>1. CASE i = Len(seats) + 1
        BY <1>0, <1>3, <4>1 DEF Greeted
      <4>2. CASE i \in 1..Len(seats)
        BY <1>0, <1>3, <4>2 DEF SeatedOnce, Greeted
      <4>3. QED BY <1>0, <1>3, <4>1, <4>2
    <3>2. QED BY <1>0, <3>1 DEF Greeted
  <2>3. (\A i, j \in DOMAIN seats : seats[i] = seats[j] => i = j)'
    BY <2>1
  <2>4. coord'.guest = None /\ coord'.pc \notin {"validating", "readying"}
    BY <1>1
  <2>5. QED BY <2>2, <2>3, <2>4 DEF SeatedOnce
<1>8. OneOfTwo'
  <2>1. \A q \in Procs : Cold(q) => NotValid(link'[q].up) /\ ~Vouched(q)'
    <3>1. NotValid(link'[p].up)
      BY <1>2 DEF NotValid
    <3>2. QED BY <1>1, <1>2, <3>1, NoneVouched DEF Cold
  <2>2. QED BY <1>0, <2>1, ColdKept
<1>9. QED BY <1>4, <1>6, <1>7, <1>8 DEF FormIInv

(* Everybody is seated: the plan goes to those, or all are released.          *)
LEMMA CoordPlans ==
    ASSUME FormIInv, PlanSent \/ PlanAlone
    PROVE  FormIInv'
<1>0. /\ coord \in CoordOf /\ link \in [Procs -> LinkOf] /\ SeatedOnce /\ UNCHANGED proc
      /\ proc \in [Procs -> WorkerOf] /\ seats \in Seq(Procs) /\ Len(seats) <= Remote
      /\ coord.pc = "joining" /\ Len(seats) = Remote /\ Remote \in Nat \ {0} /\ coord.guest = None
  BY OfCoord DEF PlanSent, PlanAlone, Coord, SeatedOnce
<1>1. CASE PlanSent
  <2>1. coord' \in CoordOf /\ coord'.pc = "validating" /\ coord'.guest = None /\ coord'.seat = 1
    <3>1. /\ coord \in CoordOf /\ coord.guest = None /\ 1 \in 1..Remote
          /\ coord' = [coord EXCEPT !.pc = "validating", !.seat = 1, !.waited = 0, !.joinWaited = 0]
      BY <1>0, <1>1 DEF PlanSent
    <3>2. QED BY <3>1, Named DEF CoordOf
  <2>2. /\ link' \in [Procs -> LinkOf]
        /\ \A p \in Procs : link'[p].up = link[p].up
        /\ \A p \in Seated : link'[p].down = link[p].down \cup {"plan"}
        /\ \A p \in Procs : p \notin Seated => link'[p].down = link[p].down
    <3>1. link' = [p \in Procs |-> IF p \in Seated THEN [link[p] EXCEPT !.down = @ \cup {"plan"}]
                                    ELSE link[p]]
      BY <1>1 DEF PlanSent
    <3>2. ASSUME NEW p \in Procs
          PROVE  /\ link[p] \in LinkOf
                 /\ [link[p] EXCEPT !.down = @ \cup {"plan"}] \in LinkOf
      BY <1>0, Named DEF LinkOf
    <3>3. link' \in [Procs -> LinkOf]
      BY <3>1, <3>2
    <3>4. Seated \subseteq Procs
      BY <1>0, OfCoord DEF Seated
    <3>5. QED BY <3>1, <3>2, <3>3, <3>4 DEF LinkOf
  <2>3. seats' = seats
    BY <1>1 DEF PlanSent
  <2>4. FormTypeOK'
    BY <1>0, <2>1, <2>2, <2>3 DEF FormTypeOK, CoordOf, WorkerOf, LinkOf
  <2>5. WorkersSound'
    <3>1. ASSUME NEW p \in Procs
          PROVE  Sound(p, proc[p], link[p])'
      <4>1. Sound(p, proc[p], link[p])
        BY OfOne
      <4>2. Fresh(proc[p]) /\ Unplanned(proc[p], link[p]) /\ BeatComes(proc[p], link[p])
        BY <1>0, <4>1 DEF Sound
      <4>3. Seated' = Seated
        BY <2>3 DEF Seated
      <4>5. BeatComes(proc[p], link[p])'
        BY <1>0, <4>2 DEF BeatComes, Unplanned
      <4>6. Planned(proc[p], link[p])' => p \in Seated
        BY <1>0, <2>2, <4>2 DEF Planned, Unplanned
      <4>7. QED BY <1>0, <2>1, <4>2, <4>3, <4>5, <4>6 DEF Sound, Fresh
    <3>2. QED BY <3>1 DEF WorkersSound
  <2>6. SeatedOnce'
    BY <1>0, <2>1, <2>3 DEF SeatedOnce, Greeted
  <2>7. OneOfTwo'
    <3>1. \A p \in Procs : ~Vouched(p)'
      <4>1. \A i \in DOMAIN seats : ~(i < 1)
        BY <1>0
      <4>2. QED BY <2>1, <2>3, <4>1 DEF Vouched, VouchedFor
    <3>2. \A p \in Procs : Cold(p) => NotValid(link'[p].up) /\ ~Vouched(p)'
      BY <2>2, <3>1 DEF Cold
    <3>3. QED BY <1>0, <3>2, ColdKept
  <2>8. QED BY <2>4, <2>5, <2>6, <2>7 DEF FormIInv
<1>2. CASE PlanAlone
  <2>1. coord' \in CoordOf /\ coord'.pc = "serving" /\ coord'.guest = None
    <3>1. Start \in CoordOf /\ coord' = [Start EXCEPT !.pc = "serving"] /\ Start.guest = None
      BY <1>2, Named, OfCoord DEF PlanAlone, Start, CoordOf
    <3>2. QED BY <3>1, Named DEF CoordOf
  <2>2. /\ link' \in [Procs -> LinkOf]
        /\ \A p \in Procs : link'[p].up = link[p].up /\ link'[p].down = link[p].down
    <3>1. link' = [p \in Procs |-> IF p \in Seated THEN [link[p] EXCEPT !.shut = TRUE] ELSE link[p]]
      BY <1>2 DEF PlanAlone
    <3>2. link \in [Procs -> LinkOf]
      BY <1>0
    <3>3. QED BY <3>1, <3>2 DEF LinkOf
  <2>3. seats' = <<>>
    BY <1>2 DEF PlanAlone
  <2>4. FormTypeOK'
    BY <1>0, <2>1, <2>2, <2>3 DEF FormTypeOK, CoordOf, WorkerOf, LinkOf
  <2>5. WorkersSound'
    <3>1. ASSUME NEW p \in Procs
          PROVE  Sound(p, proc[p], link[p])'
      <4>1. Sound(p, proc[p], link[p])
        BY OfOne
      <4>2. Fresh(proc[p]) /\ Unplanned(proc[p], link[p]) /\ BeatComes(proc[p], link[p])
        BY <1>0, <4>1 DEF Sound
      <4>3. ~Planned(proc[p], link[p])
        BY <4>2 DEF Planned, Unplanned
      <4>4. QED BY <1>0, <2>1, <2>2, <4>2, <4>3 DEF Sound, Fresh, Unplanned, Planned, BeatComes
    <3>2. QED BY <3>1 DEF WorkersSound
  <2>6. SeatedOnce'
    BY <2>1, <2>3 DEF SeatedOnce
  <2>7. OneOfTwo'
    <3>1. \A p \in Procs : ~Vouched(p)'
      BY <2>3 DEF Vouched
    <3>2. QED BY <1>0, <2>2, <3>1, ColdKept DEF Cold
  <2>8. QED BY <2>4, <2>5, <2>6, <2>7 DEF FormIInv
<1>3. QED BY <1>1, <1>2

(* A beat goes to every seated machine that runs, so it comes to all that have waited.      *)
LEMMA CoordBeats ==
    ASSUME FormIInv, Beat
    PROVE  FormIInv'
<1>0. /\ coord \in CoordOf /\ coord.pc = "serving" /\ SeatedOnce
      /\ proc \in [Procs -> WorkerOf] /\ link \in [Procs -> LinkOf] /\ UNCHANGED <<seats, proc>>
  BY OfCoord DEF Beat, Coord
<1>1. /\ coord' \in CoordOf /\ coord'.pc = "serving" /\ coord'.guest = coord.guest
  <2>1. coord \in CoordOf /\ coord.pc = "serving" /\ coord' = [coord EXCEPT !.sinceBeat = 0]
    BY <1>0 DEF Beat
  <2>2. QED BY <2>1 DEF CoordOf
<1>2. /\ link' \in [Procs -> LinkOf]
      /\ \A p \in Procs : link'[p].up = link[p].up
      /\ \A p \in Procs : p \in Seated /\ Running(p) => "beat" \in link'[p].down
      /\ \A p \in Procs : "plan" \in link'[p].down <=> "plan" \in link[p].down
  <2>1. link' = [p \in Procs |-> IF p \in Seated /\ Running(p)
                                 THEN [link[p] EXCEPT !.down = @ \cup {"beat"}] ELSE link[p]]
    BY DEF Beat
  <2>2. ASSUME NEW p \in Procs
        PROVE  /\ link[p] \in LinkOf
               /\ [link[p] EXCEPT !.down = @ \cup {"beat"}] \in LinkOf
    BY <1>0, Named DEF LinkOf
  <2>3. link' \in [Procs -> LinkOf]
    BY <2>1, <2>2
  <2>4. QED BY <2>1, <2>2, <2>3 DEF LinkOf
<1>3. FormTypeOK'
  <2>1. CoordOf' = CoordOf /\ WorkerOf' = WorkerOf /\ LinkOf' = LinkOf
    BY DEF CoordOf, WorkerOf, LinkOf
  <2>2. QED BY <1>0, <1>1, <1>2, <2>1, OfCoord DEF FormTypeOK
<1>4. WorkersSound'
  <2>1. ASSUME NEW p \in Procs
        PROVE  Sound(p, proc[p], link[p])'
    <3>1. Fresh(proc[p]) /\ BeatComes(proc[p], link[p]) /\ proc[p] \in WorkerOf
      BY OfOne DEF Sound
    <3>2. Planned(proc[p], link[p]) => p \in Seated
      BY OfOne DEF Sound
    <3>3. Seated' = Seated
      BY <1>0 DEF Seated
    <3>4. proc[p].silent > 0 => "beat" \in link'[p].down
      <4>1. CASE proc[p].silent > 0
        <5>1. proc[p].pc \in AtWork
          BY <3>1, <4>1 DEF Fresh
        <5>2. Running(p)
          BY <5>1 DEF Running, AtWork
        <5>3. p \in Seated
          BY <3>2, <4>1, <5>1 DEF Planned, AtWork
        <5>4. QED BY <1>2, <5>2, <5>3
      <4>2. QED BY <4>1
    <3>5. BeatComes(proc[p], link[p])'
      BY <1>0, <3>1, <3>4 DEF BeatComes
    <3>6. Planned(proc[p], link[p])' => p \in Seated'
      BY <1>0, <1>2, <3>2, <3>3 DEF Planned
    <3>7. QED BY <1>0, <1>1, <3>1, <3>5, <3>6 DEF Sound, Fresh
  <2>2. QED BY <2>1 DEF WorkersSound
<1>5. SeatedOnce'
  <2>1. Seated' = Seated
    BY <1>0 DEF Seated
  <2>2. QED BY <1>0, <1>1, <2>1 DEF SeatedOnce, Greeted
<1>6. OneOfTwo'
  <2>1. \A p \in Procs : Cold(p) => NotValid(link'[p].up) /\ ~Vouched(p)'
    BY <1>0, <1>1, <1>2 DEF Cold, NotValid, Vouched, VouchedFor
  <2>2. QED BY <1>0, <2>1, ColdKept
<1>7. QED BY <1>3, <1>4, <1>5, <1>6 DEF FormIInv

(* A unit of time: one who has waited for a beat already would have it to read, if nothing  *)
(* stood in its way, and then time would not pass.                                           *)
LEMMA TimePasses ==
    ASSUME FormIInv, Tick
    PROVE  FormIInv'
<1>0. /\ coord \in CoordOf /\ SeatedOnce /\ UNCHANGED <<seats, link>>
      /\ proc \in [Procs -> WorkerOf] /\ link \in [Procs -> LinkOf]
      /\ CoordWaits /\ \A p \in Procs : LoopWaits(p)
  BY OfCoord DEF Tick
<1>1. /\ coord' \in CoordOf /\ coord'.pc = coord.pc /\ coord'.guest = coord.guest
      /\ coord'.seat = coord.seat
      /\ coord.pc = "serving" => coord'.sinceBeat = 1
  <2> DEFINE wait == IF coord.pc \in {"validating", "readying"} \/ coord.guest # None
                     THEN UpTo(Longest, coord.waited) ELSE 0
             join == IF coord.pc = "joining" THEN UpTo(JoinWait, coord.joinWaited) ELSE coord.joinWaited
             beat == IF coord.pc = "serving" THEN 1 ELSE coord.sinceBeat
  <2>1. coord \in CoordOf /\ coord' = [coord EXCEPT !.waited = wait, !.joinWaited = join, !.sinceBeat = beat]
    BY <1>0 DEF Tick
  <2>2. coord.waited \in Nat /\ coord.joinWaited \in Nat /\ coord.sinceBeat \in 0..1
    BY <2>1 DEF CoordOf
  <2>3. wait \in Nat /\ join \in Nat /\ beat \in 0..1 /\ (coord.pc = "serving" => beat = 1)
    BY <2>2 DEF UpTo
  <2> HIDE DEF wait, join, beat
  <2>4. QED BY <2>1, <2>3 DEF CoordOf
<1> DEFINE Later(p) == [proc[p] EXCEPT !.silent = UpTo(SilenceLimit + 1, @), !.excuse = Excuse(p)]
<1>2. ASSUME NEW p \in Procs
      PROVE  /\ Later(p) \in WorkerOf /\ Later(p).pc = proc[p].pc
             /\ Later(p).server = proc[p].server /\ Later(p).end = proc[p].end
             /\ Later(p).silent = UpTo(SilenceLimit + 1, proc[p].silent)
             /\ Later(p).excuse = Excuse(p)
  <2>1. proc[p] \in WorkerOf
    BY <1>0
  <2>2. proc[p].silent \in Nat /\ proc[p].excuse \in Excuses
    BY <2>1 DEF WorkerOf
  <2>3. UpTo(SilenceLimit + 1, proc[p].silent) \in Nat
    BY <2>2 DEF UpTo
  <2>4. Excuse(p) \in Excuses
    BY <2>2 DEF Excuse, Excuses
  <2>5. QED BY <2>1, <2>3, <2>4 DEF WorkerOf
<1>3. /\ proc' \in [Procs -> WorkerOf]
      /\ \A p \in Procs : Looping(p) /\ proc[p].server # "none" => proc'[p] = Later(p)
      /\ \A p \in Procs : ~(Looping(p) /\ proc[p].server # "none") => proc'[p] = proc[p]
  <2>1. proc' = [p \in Procs |-> IF Looping(p) /\ proc[p].server # "none" THEN Later(p) ELSE proc[p]]
    BY DEF Tick
  <2> HIDE DEF Later
  <2>2. QED BY <1>0, <1>2, <2>1
<1>4. \A p \in Procs : proc'[p].pc = proc[p].pc /\ proc'[p].server = proc[p].server
                       /\ proc'[p].end = proc[p].end
  <2> HIDE DEF Later
  <2>1. QED BY <1>2, <1>3
<1>5. FormTypeOK'
  <2>1. CoordOf' = CoordOf /\ WorkerOf' = WorkerOf /\ LinkOf' = LinkOf
    BY DEF CoordOf, WorkerOf, LinkOf
  <2>2. QED BY <1>0, <1>1, <1>3, <2>1, OfCoord DEF FormTypeOK
<1>6. WorkersSound'
  <2>1. ASSUME NEW p \in Procs
        PROVE  Sound(p, proc[p], link[p])'
    <3>1. /\ Fresh(proc[p]) /\ BeatComes(proc[p], link[p]) /\ proc[p] \in WorkerOf
          /\ coord.pc = "joining" => Unplanned(proc[p], link[p])
          /\ Planned(proc[p], link[p]) => p \in Seated
      BY OfOne DEF Sound
    <3>2. Seated' = Seated
      BY <1>0 DEF Seated
    <3>3. CASE ~(Looping(p) /\ proc[p].server # "none")
      <4>1. proc'[p] = proc[p]
        BY <1>3, <3>3
      <4>2. BeatComes(proc[p], link[p])'
        <5>1. /\ coord'.pc = "serving" => coord'.sinceBeat = 1
              /\ link'[p] = link[p]
          BY <1>0, <1>1
        <5>2. QED BY <3>1, <4>1, <5>1 DEF BeatComes
      <4>3. QED BY <1>0, <1>1, <3>1, <3>2, <4>1, <4>2 DEF Sound, Fresh, Planned, Unplanned
    <3>4. CASE Looping(p) /\ proc[p].server # "none"
      <4>1. /\ proc'[p].pc = "looping" /\ proc'[p].server = proc[p].server
            /\ proc'[p].end = proc[p].end
        BY <1>4, <3>4 DEF Looping
      <4>2. proc'[p].silent = UpTo(SilenceLimit + 1, proc[p].silent) /\ proc'[p].excuse = Excuse(p)
        <5> HIDE DEF Later
        <5>1. QED BY <1>2, <1>3, <3>4
      <4>3. coord.pc # "joining" /\ p \in Seated
        BY <3>1, <3>4 DEF Unplanned, Planned, Looping
      <4>4. proc[p].end # "silence"
        BY <3>1, <3>4 DEF BeatComes, Looping
      <4>5. ASSUME Excuse(p) = "none"
            PROVE  proc'[p].silent = 1 /\ coord.pc = "serving"
        <5>1. /\ ~coord.hung /\ coord.pc # "stopped" /\ ~link[p].cut /\ proc[p].excuse # "gone"
              /\ coord.pc \notin {"validating", "readying", "draining"} /\ proc[p].excuse = "none"
          BY <4>5 DEF Excuse
        <5>2. coord.pc = "serving"
          BY <1>0, <4>3, <5>1 DEF CoordOf, CoordStages
        <5>3. ~(coord.sinceBeat = 1)
          BY <1>0, <5>1, <5>2 DEF CoordWaits
        <5>4. "beat" \notin link[p].down
          BY <1>0, <3>4, <5>1 DEF LoopWaits, Readable
        <5>5. ~(proc[p].silent > 0)
          BY <3>1, <5>1, <5>2, <5>3, <5>4 DEF BeatComes
        <5>6. proc[p].silent = 0
          BY <3>1, <5>5 DEF WorkerOf
        <5>7. 0 < SilenceLimit + 1
          BY ClusterAssumption
        <5>8. QED BY <4>2, <5>2, <5>6, <5>7 DEF UpTo
      <4>6. BeatComes(proc[p], link[p])'
        BY <1>1, <4>1, <4>2, <4>4, <4>5 DEF BeatComes
      <4>7. "looping" \in AtWork /\ "looping" \notin Before
        BY DEF AtWork, Before
      <4>8. QED BY <1>1, <3>2, <4>1, <4>3, <4>6, <4>7 DEF Sound, Fresh
    <3>5. QED BY <3>3, <3>4
  <2>2. QED BY <2>1 DEF WorkersSound
<1>7. SeatedOnce'
  <2>1. Seated' = Seated
    BY <1>0 DEF Seated
  <2>2. \A p \in Procs : proc'[p].pc = proc[p].pc
    BY <1>4
  <2>3. \A i \in DOMAIN seats : seats[i] \in Procs
    BY OfCoord
  <2>4. coord.guest # None => coord.guest \in Procs
    BY OfCoord
  <2>5. QED BY <1>0, <1>1, <2>1, <2>2, <2>3, <2>4 DEF SeatedOnce, Greeted
<1>8. OneOfTwo'
  <2>1. \A p \in Procs : Cold(p) => NotValid(link'[p].up) /\ ~Vouched(p)'
    BY <1>0, <1>1 DEF Cold, NotValid, Vouched, VouchedFor
  <2>2. QED BY <1>4, <2>1, ColdKept
<1>9. QED BY <1>5, <1>6, <1>7, <1>8 DEF FormIInv

(* Every step keeps the invariant.                                            *)
LEMMA FormStep ==
    ASSUME FormIInv, [Next]_vars
    PROVE  FormIInv'
<1>1. CASE UNCHANGED vars
  BY <1>1 DEF vars, FormIInv, FormTypeOK, CoordOf, WorkerOf, LinkOf, WorkersSound, Sound, Fresh,
     Unplanned,
              Planned, BeatComes, Seated, SeatedOnce, Greeted, OneOfTwo, Cold, NotValid, Vouched, VouchedFor
<1>2. CASE CoordStep
  <2>1. CASE \E p \in Procs : Accept(p)
    BY <2>1, CoordAccepts
  <2>2. CASE Admit
    BY <2>2, CoordAdmits
  <2>3. CASE PlanSent \/ PlanAlone
    BY <2>3, CoordPlans
  <2>4. CASE PlanRefused \/ JoinExpires \/ FormationFails
    BY <2>4, CoordRests
  <2>5. CASE HearValidation \/ HearReady
    BY <2>5, CoordHears
  <2>6. CASE Beat
    BY <2>6, CoordBeats
  <2>7. QED BY <1>2, <2>1, <2>2, <2>3, <2>4, <2>5, <2>6 DEF CoordStep
<1>3. CASE TurnAway \/ Drain \/ Drained \/ Crash \/ Hang \/ Resume
  BY <1>3, CoordRests
<1>4. CASE Tick
  BY <1>4, TimePasses
<1>5. ASSUME NEW p \in Procs,
             \/ Dial(p) \/ Report(p) \/ JoinFails(p) \/ Assigned(p)
             \/ Validated(p) \/ Invalid(p) \/ NotSpawned(p) \/ Respawn(p) \/ NotRespawned(p)
             \/ Loop(p) \/ Cut(p) \/ Heal(p)
             \/ ServerListens(p) \/ ServerDies(p) \/ Signalled(p) \/ Killed(p)
      PROVE  FormIInv'
  <2>1. CASE \/ Report(p) \/ Assigned(p) \/ TakePlan(p) \/ Validated(p) \/ Invalid(p) \/ Spawned(p)
             \/ HearBeat(p) \/ Reap(p) \/ Respawn(p) \/ Respawned(p) \/ Probe(p)
    BY <2>1, WorkerGoesOn
  <2>2. CASE \/ JoinFails(p) \/ NotSpawned(p) \/ HearEnd(p) \/ Silence(p) \/ GiveUp(p)
             \/ NotRespawned(p) \/ Signalled(p) \/ Killed(p)
    BY <2>2, WorkerLeaves
  <2>3. CASE Dial(p) \/ ServerListens(p) \/ ServerDies(p) \/ Cut(p) \/ Heal(p)
    BY <2>3, WorkerElse
  <2>4. QED BY <1>5, <2>1, <2>2, <2>3 DEF Loop
<1>6. QED BY <1>1, <1>2, <1>3, <1>4, <1>5 DEF Next

(* At the start nobody is known, and nothing is under way.                    *)
LEMMA FormStarts == Init => FormIInv
<1> SUFFICES ASSUME Init PROVE FormIInv
  OBVIOUS
<1>0. /\ coord = Start /\ seats = <<>> /\ proc = [p \in Procs |-> Absent]
      /\ link = [p \in Procs |-> Unused]
  BY DEF Init
<1>1. FormTypeOK
  <2>1. Start \in CoordOf
    <3>1. 1 \in 1..Remote
      BY ClusterAssumption
    <3>2. QED BY <3>1, Named DEF Start, CoordOf
  <2>2. Absent \in WorkerOf
    BY Named DEF Absent, WorkerOf
  <2>3. Unused \in LinkOf
    BY DEF Unused, LinkOf
  <2>4. Len(seats) = 0 /\ 0 <= Remote
    BY <1>0, ClusterAssumption
  <2>5. QED BY <1>0, <2>1, <2>2, <2>3, <2>4 DEF FormTypeOK
<1>2. WorkersSound
  <2>1. ASSUME NEW p \in Procs
        PROVE  Sound(p, proc[p], link[p])
    <3>1. proc[p] = Absent /\ link[p] = Unused
      BY <1>0
    <3>2. QED BY <3>1 DEF Sound, Fresh, Unplanned, Planned, BeatComes, Absent, Unused, AtWork
  <2>2. QED BY <2>1 DEF WorkersSound
<1>3. SeatedOnce
  BY <1>0 DEF SeatedOnce, Start
<1>4. OneOfTwo
  BY <1>0 DEF OneOfTwo, Absent
<1>5. QED BY <1>1, <1>2, <1>3, <1>4 DEF FormIInv

\* The invariant holds of every behaviour of the cluster.
THEOREM FormCorrect == Spec => []FormIInv
<1>1. FormIInv /\ [Next]_vars => FormIInv'
  BY FormStep
<1>2. QED BY <1>1, FormStarts, PTL DEF Spec

\* No machine is counted twice in a cluster that is formed: of two processes of one machine
\* the first ended before there was a plan, so it never vouched for its model, and a cluster
\* is formed only of processes that did (coord_wait_rpc_cache_ready of every seat).
THEOREM NoMachineCountedTwice == Spec => []NoMachineTwice
<1>1. ASSUME FormIInv PROVE NoMachineTwice
  <2> SUFFICES ASSUME coord.pc \in {"serving", "draining"}, NEW i \in DOMAIN seats, NEW j \in DOMAIN seats,
                      MachineOf[seats[i]] = MachineOf[seats[j]]
               PROVE  i = j
    BY DEF NoMachineTwice
  <2>1. /\ seats[i] \in Procs /\ seats[j] \in Procs /\ SeatedOnce /\ OneOfTwo
    BY <1>1, OfCoord
  <2>2. Vouched(seats[i]) /\ Vouched(seats[j])
    BY DEF Vouched, VouchedFor
  <2>3. proc[seats[i]].pc # "absent" /\ proc[seats[j]].pc # "absent"
    BY <2>1 DEF SeatedOnce, Greeted
  <2>4. seats[i] = seats[j]
    BY <2>1, <2>2, <2>3 DEF OneOfTwo, Cold
  <2>5. QED BY <2>1, <2>4 DEF SeatedOnce
<1>2. QED BY <1>1, FormCorrect, PTL

\* No worker leaves over the silence of a coordinator that is there and beats: the silence a
\* beating coordinator lets pass is never longer than the interval of its beats.
THEOREM NobodyLeavesABeatingCoordinator == Spec => []BeatersAreHeard
<1>1. FormIInv => BeatersAreHeard
  BY OfOne DEF Sound, BeatComes, BeatersAreHeard
<1>2. QED BY <1>1, FormCorrect, PTL
=============================================================================
