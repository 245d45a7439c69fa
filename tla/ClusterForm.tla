----------------------------- MODULE ClusterForm -----------------------------
(***************************************************************************)
(* A cluster of several machines: the coordinator that admits them one by  *)
(* one, plans their layers, waits for each to validate its model and start *)
(* its rpc-server, and then beats (src/src/coord/coord_main.c); and the    *)
(* workers that join, start that server once they have their plan, restart *)
(* it when it dies, and stop it when the coordinator is gone               *)
(* (src/src/worker/worker_main.c).                                         *)
(*                                                                         *)
(* Time passes in units of the heartbeat's interval (Tick), and only when  *)
(* everybody who is able to act at once has acted.  A process of a worker  *)
(* joins once; a machine may start another when that one has ended.        *)
(***************************************************************************)
EXTENDS Integers, Sequences, FiniteSets

CONSTANTS Procs,        \* processes of workers
          MachineOf,    \* the machine each runs on
          Remote,       \* n_remote: the machines the coordinator waits for
          None,         \* no process
          SilenceLimit, \* coord_silence_limit_ms (60 s)
          JoinWait,     \* join_wait_s (180 s)
          JoinStep,     \* IDLETOKEN_JOIN_STEP_TIMEOUT_MS (15 s)
          CacheWait,    \* IDLETOKEN_CACHE_SILENCE_TIMEOUT_MS (600 s)
          ReadyWait,    \* IDLETOKEN_RPC_READY_TIMEOUT_MS (120 s)
          QuickRestarts,\* 5
          MaxFaults     \* bound on hangs, cuts, kills and deaths

ASSUME ClusterAssumption ==
    /\ IsFiniteSet(Procs) /\ None \notin Procs
    /\ DOMAIN MachineOf = Procs
    /\ Remote \in Nat \ {0}
    /\ \A limit \in {SilenceLimit, JoinWait, JoinStep, CacheWait, ReadyWait} : limit \in Nat \ {0}
    /\ QuickRestarts \in Nat
    /\ MaxFaults \in Nat

VARIABLES coord,  \* the coordinator's process
          seats,  \* ws[]: the workers it admitted, in order
          proc,   \* per worker process: its supervisor and its rpc-server
          link,   \* per worker process: its connection
          faults  \* faults so far

vars == <<coord, seats, proc, link, faults>>

Absent == [pc |-> "absent", server |-> "none", ready |-> FALSE, silent |-> 0, quick |-> 0,
           excuse |-> "none", end |-> "none"]
Unused == [down |-> {}, up |-> <<>>, cut |-> FALSE, shut |-> FALSE]

Start == [pc |-> "joining", guest |-> None, seat |-> 1, waited |-> 0, joinWaited |-> 0,
          sinceBeat |-> 0, hung |-> FALSE]

Init ==
    /\ coord = Start
    /\ seats = <<>>
    /\ proc = [p \in Procs |-> Absent]
    /\ link = [p \in Procs |-> Unused]
    /\ faults = 0

Dead == {"diedYoung", "diedOld"}
Running(p) == proc[p].pc \notin {"absent", "ended"}
Seated == {seats[i] : i \in DOMAIN seats}

\* What a worker and the coordinator can read from their ends of a connection.
Closed(p) == link[p].shut \/ coord.pc = "stopped"
Readable(p) == ~link[p].cut /\ (link[p].down # {} \/ Closed(p))
Heard(p) == ~link[p].cut /\ link[p].up # <<>>
Lost(p) == ~link[p].cut /\ link[p].up = <<>> /\ proc[p].pc = "ended"

Fault == faults < MaxFaults /\ faults' = faults + 1

-----------------------------------------------------------------------------
(***************************************************************************)
(* The coordinator admits one machine at a time                            *)
(***************************************************************************)
Coord(pc) == ~coord.hung /\ coord.pc = pc
Over == [Start EXCEPT !.pc = "stopped"]
Stopped == coord' = Over

Dial(p) ==
    /\ coord.pc = "joining"
    /\ proc[p].pc = "absent"
    /\ \A q \in Procs : MachineOf[q] = MachineOf[p] => ~Running(q)
    /\ proc' = [proc EXCEPT ![p].pc = "dialing"]
    /\ UNCHANGED <<coord, seats, link, faults>>

\* The deadline is looked at around accept(), not during a join.
Accept(p) ==
    /\ Coord("joining")
    /\ coord.guest = None /\ Len(seats) < Remote /\ coord.joinWaited < JoinWait
    /\ proc[p].pc = "dialing"
    /\ coord' = [coord EXCEPT !.guest = p, !.waited = 0]
    /\ proc' = [proc EXCEPT ![p].pc = "greeting"]
    /\ UNCHANGED <<seats, link, faults>>

JoinExpires ==
    /\ Coord("joining")
    /\ coord.guest = None /\ Len(seats) < Remote /\ coord.joinWaited >= JoinWait
    /\ Stopped
    /\ UNCHANGED <<seats, proc, link, faults>>

\* The worker's side of the handshake: pairing, HELLO, RESOURCE_REPORT.
Report(p) ==
    /\ proc[p].pc = "greeting"
    /\ proc' = [proc EXCEPT ![p].pc = "reported"]
    /\ link' = [link EXCEPT ![p].up = <<"report">>]
    /\ UNCHANGED <<coord, seats, faults>>

\* RPC_ASSIGN with the wrapped credential; the next machine may come.
Admit ==
    /\ Coord("joining") /\ coord.guest # None
    /\ Heard(coord.guest)
    /\ seats' = Append(seats, coord.guest)
    /\ link' = [link EXCEPT ![coord.guest] = [@ EXCEPT !.up = <<>>, !.down = {"assign"}]]
    /\ coord' = [coord EXCEPT !.guest = None]
    /\ UNCHANGED <<proc, faults>>

\* Another engine, an overlay address, a handshake that fails, is cut short or is
\* not ended in time: that connection is closed, and the seat stays free.
TurnAway ==
    /\ Coord("joining") /\ coord.guest # None
    /\ link' = [link EXCEPT ![coord.guest].shut = TRUE]
    /\ coord' = [coord EXCEPT !.guest = None]
    /\ UNCHANGED <<seats, proc, faults>>

-----------------------------------------------------------------------------
(***************************************************************************)
(* Plan, validation, readiness                                             *)
(***************************************************************************)
PlanSent ==
    /\ Coord("joining") /\ Len(seats) = Remote
    /\ coord' = [coord EXCEPT !.pc = "validating", !.seat = 1, !.waited = 0, !.joinWaited = 0]
    /\ link' = [p \in Procs |-> IF p \in Seated THEN [link[p] EXCEPT !.down = @ \cup {"plan"}]
                                ELSE link[p]]
    /\ UNCHANGED <<seats, proc, faults>>

\* The model fits this machine alone: the others are released.
PlanAlone ==
    /\ Coord("joining") /\ Len(seats) = Remote
    /\ coord' = [Start EXCEPT !.pc = "serving"]
    /\ seats' = <<>>
    /\ link' = [p \in Procs |-> IF p \in Seated THEN [link[p] EXCEPT !.shut = TRUE] ELSE link[p]]
    /\ UNCHANGED <<proc, faults>>

\* A worker without direct loading, no plan that fits, or a plan not sent.
PlanRefused ==
    /\ Coord("joining") /\ Len(seats) = Remote
    /\ Stopped
    /\ UNCHANGED <<seats, proc, link, faults>>

\* Mutant: the coordinator waits as long as it takes.
PatienceUnbounded == FALSE
\* The receive timeout of the phase.
PatienceEnds ==
    coord.waited >= IF coord.pc = "validating" THEN CacheWait ELSE ReadyWait

Current == seats[coord.seat]
ToNextSeat(pc) ==
    IF coord.seat < Remote THEN [coord EXCEPT !.seat = @ + 1, !.waited = 0]
    ELSE [coord EXCEPT !.pc = pc, !.seat = 1, !.waited = 0]

\* coord_wait_rpc_cache_ready() of each seat in turn; what is no answer to the plan
\* is thrown away.
HearValidation ==
    /\ Coord("validating")
    /\ Heard(Current)
    /\ coord' = CASE Head(link[Current].up) = "valid" -> ToNextSeat("readying")
                  [] Head(link[Current].up) = "invalid" -> Over
                  [] OTHER -> [coord EXCEPT !.waited = 0]
    /\ link' = [link EXCEPT ![Current].up = Tail(@)]
    /\ UNCHANGED <<seats, proc, faults>>

\* coord_wait_rpc_ready() of each seat; then the engine is started over them all.
HearReady ==
    /\ Coord("readying")
    /\ Heard(Current)
    /\ coord' = IF Head(link[Current].up) = "ready"
                THEN [ToNextSeat("serving") EXCEPT !.sinceBeat = 1]
                ELSE Over
    /\ link' = [link EXCEPT ![Current].up = Tail(@)]
    /\ UNCHANGED <<seats, proc, faults>>

\* Mutant: a link that ended is passed over.
FormationFailsSkip ==
    /\ Coord("validating") \/ Coord("readying")
    /\ Lost(Current) \/ (~Heard(Current) /\ PatienceEnds)
    /\ IF Lost(Current) THEN coord' = ToNextSeat(IF coord.pc = "validating" THEN "readying" ELSE "serving")
       ELSE Stopped
    /\ UNCHANGED <<seats, proc, link, faults>>

FormationFails ==
    /\ Coord("validating") \/ Coord("readying")
    /\ Lost(Current) \/ (~Heard(Current) /\ PatienceEnds)
    /\ Stopped
    /\ UNCHANGED <<seats, proc, link, faults>>

-----------------------------------------------------------------------------
(***************************************************************************)
(* The live cluster                                                        *)
(***************************************************************************)
\* Mutant: only the first machine is beaten to.
BeatFirst ==
    /\ Coord("serving") /\ coord.sinceBeat >= 1
    /\ link' = [p \in Procs |-> IF seats # <<>> /\ p = seats[1] /\ Running(p)
                                THEN [link[p] EXCEPT !.down = @ \cup {"beat"}] ELSE link[p]]
    /\ coord' = [coord EXCEPT !.sinceBeat = 0]
    /\ UNCHANGED <<seats, proc, faults>>

\* llama_peers_heartbeat(), from the accept loop.
Beat ==
    /\ Coord("serving") /\ coord.sinceBeat >= 1
    /\ link' = [p \in Procs |-> IF p \in Seated /\ Running(p)
                                THEN [link[p] EXCEPT !.down = @ \cup {"beat"}] ELSE link[p]]
    /\ coord' = [coord EXCEPT !.sinceBeat = 0]
    /\ UNCHANGED <<seats, proc, faults>>

\* The accept loop is left; the requests under way are waited for.
Drain ==
    /\ Coord("serving")
    /\ coord' = [coord EXCEPT !.pc = "draining"]
    /\ UNCHANGED <<seats, proc, link, faults>>

Drained ==
    /\ Coord("draining")
    /\ Stopped
    /\ UNCHANGED <<seats, proc, link, faults>>

Crash ==
    /\ Fault
    /\ coord.pc # "stopped"
    /\ Stopped
    /\ UNCHANGED <<seats, proc, link>>

\* The process is stopped, or the machine sleeps, with its sockets open.
Hang ==
    /\ Fault
    /\ ~coord.hung /\ coord.pc # "stopped"
    /\ coord' = [coord EXCEPT !.hung = TRUE]
    /\ UNCHANGED <<seats, proc, link>>

Resume ==
    /\ coord.hung
    /\ coord' = [coord EXCEPT !.hung = FALSE]
    /\ UNCHANGED <<seats, proc, link, faults>>

Cut(p) ==
    /\ Fault
    /\ Running(p) /\ ~link[p].cut
    /\ link' = [link EXCEPT ![p].cut = TRUE]
    /\ UNCHANGED <<coord, seats, proc>>

Heal(p) ==
    /\ link[p].cut
    /\ link' = [link EXCEPT ![p].cut = FALSE]
    /\ UNCHANGED <<coord, seats, proc, faults>>

-----------------------------------------------------------------------------
(***************************************************************************)
(* The worker's process (run_rpc_supervisor)                               *)
(***************************************************************************)
Looping(p) == proc[p].pc = "looping"

\* The loop is left: the server is terminated, killed if need be, and reaped.
Ended(p, why, server) ==
    proc' = [proc EXCEPT ![p] = [Absent EXCEPT !.pc = "ended", !.server = server, !.end = why,
                                               !.excuse = proc[p].excuse]]
Left(p, why) == Ended(p, why, "none")

\* Turned away, no answer in time, or a credential that cannot be kept.
JoinFails(p) ==
    /\ proc[p].pc \in {"dialing", "greeting", "reported"}
    /\ Left(p, "refused")
    /\ UNCHANGED <<coord, seats, link, faults>>

Assigned(p) ==
    /\ proc[p].pc = "reported"
    /\ ~link[p].cut /\ "assign" \in link[p].down
    /\ proc' = [proc EXCEPT ![p].pc = "looping"]
    /\ link' = [link EXCEPT ![p].down = @ \ {"assign"}]
    /\ UNCHANGED <<coord, seats, faults>>

Traffic(p) == [proc[p] EXCEPT !.silent = 0, !.excuse = "none"]

TakePlan(p) ==
    /\ Looping(p)
    /\ ~link[p].cut /\ "plan" \in link[p].down
    /\ proc' = [proc EXCEPT ![p] = [Traffic(p) EXCEPT !.pc = "validating"]]
    /\ link' = [link EXCEPT ![p].down = @ \ {"plan"}]
    /\ UNCHANGED <<coord, seats, faults>>

\* fork(): the child runs before its pid is kept for the signal handler.
Validated(p) ==
    /\ proc[p].pc = "validating"
    /\ proc' = [proc EXCEPT ![p].pc = "spawning", ![p].server = "forked"]
    /\ UNCHANGED <<coord, seats, link, faults>>

Invalid(p) ==
    /\ proc[p].pc = "validating"
    /\ proc' = [proc EXCEPT ![p].pc = "looping"]
    /\ link' = [link EXCEPT ![p].up = Append(@, "invalid")]
    /\ UNCHANGED <<coord, seats, faults>>

\* The server cannot be started for the plan.
NotSpawned(p) ==
    /\ proc[p].pc = "validating"
    /\ Left(p, "unable")
    /\ link' = [link EXCEPT ![p].up = Append(@, "invalid")]
    /\ UNCHANGED <<coord, seats, faults>>

Recorded(p) == IF proc[p].server = "forked" THEN "starting" ELSE proc[p].server

Spawned(p) ==
    /\ proc[p].pc = "spawning"
    /\ proc' = [proc EXCEPT ![p] = [Traffic(p) EXCEPT !.pc = "looping", !.server = Recorded(p)]]
    /\ link' = [link EXCEPT ![p].up = Append(@, "valid")]
    /\ UNCHANGED <<coord, seats, faults>>

HearBeat(p) ==
    /\ Looping(p)
    /\ ~link[p].cut /\ link[p].down = {"beat"}
    /\ proc' = [proc EXCEPT ![p] = Traffic(p)]
    /\ link' = [link EXCEPT ![p].down = {}]
    /\ UNCHANGED <<coord, seats, faults>>

HearEnd(p) ==
    /\ Looping(p)
    /\ ~link[p].cut /\ link[p].down = {} /\ Closed(p)
    /\ Left(p, "disconnected")
    /\ UNCHANGED <<coord, seats, link, faults>>

\* Mutant: only a closed connection ends a worker.
SilenceIgnored(p) == FALSE /\ HearEnd(p)

Silence(p) ==
    /\ Looping(p) /\ ~Readable(p)
    /\ proc[p].ready /\ proc[p].silent > SilenceLimit
    /\ Left(p, "silence")
    /\ UNCHANGED <<coord, seats, link, faults>>

Quick(p) == IF proc[p].server = "diedOld" THEN 0 ELSE proc[p].quick

Reap(p) ==
    /\ Looping(p) /\ proc[p].server \in Dead
    /\ Quick(p) < QuickRestarts
    /\ proc' = [proc EXCEPT ![p].server = "waiting", ![p].quick = Quick(p) + 1]
    /\ UNCHANGED <<coord, seats, link, faults>>

GiveUp(p) ==
    /\ Looping(p) /\ proc[p].server \in Dead
    /\ Quick(p) >= QuickRestarts
    /\ Left(p, "crashing")
    /\ UNCHANGED <<coord, seats, link, faults>>

Respawn(p) ==
    /\ Looping(p) /\ proc[p].server = "waiting"
    /\ proc' = [proc EXCEPT ![p].pc = "respawning", ![p].server = "forked"]
    /\ UNCHANGED <<coord, seats, link, faults>>

NotRespawned(p) ==
    /\ Looping(p) /\ proc[p].server = "waiting"
    /\ Left(p, "unable")
    /\ UNCHANGED <<coord, seats, link, faults>>

Respawned(p) ==
    /\ proc[p].pc = "respawning"
    /\ proc' = [proc EXCEPT ![p].pc = "looping", ![p].server = Recorded(p)]
    /\ UNCHANGED <<coord, seats, link, faults>>

\* rpc_endpoint_up(); the coordinator is told the first time only.
Probe(p) ==
    /\ Looping(p) /\ proc[p].server = "listening"
    /\ proc' = [proc EXCEPT ![p].server = "up", ![p].ready = TRUE]
    /\ link' = [link EXCEPT ![p].up = IF proc[p].ready THEN @ ELSE Append(@, "ready")]
    /\ UNCHANGED <<coord, seats, faults>>

-----------------------------------------------------------------------------
\* The rpc-server, and the signals that end its worker.
ServerListens(p) ==
    /\ proc[p].server = "starting"
    /\ proc' = [proc EXCEPT ![p].server = "listening"]
    /\ UNCHANGED <<coord, seats, link, faults>>

\* One that died young may go on doing so: that is the same fault.
ServerDies(p) ==
    /\ Running(p)
    /\ \/ /\ proc[p].server \in {"forked", "starting", "listening", "up"}
          /\ IF proc[p].quick > 0 THEN UNCHANGED faults ELSE Fault
          /\ proc' = [proc EXCEPT ![p].server = "diedYoung"]
       \/ /\ proc[p].server = "up"
          /\ Fault
          /\ proc' = [proc EXCEPT ![p].server = "diedOld"]
    /\ UNCHANGED <<coord, seats, link>>

\* Mutant: the handler ends the worker alone.
SignalledAlone(p) ==
    /\ Fault
    /\ Running(p)
    /\ Ended(p, "signalled", proc[p].server)
    /\ UNCHANGED <<coord, seats, link>>

\* rpc_supervisor_on_signal() ends the server it knows the pid of.
Signalled(p) ==
    /\ Fault
    /\ Running(p)
    /\ Ended(p, "signalled", IF proc[p].server = "forked" THEN "forked" ELSE "none")
    /\ UNCHANGED <<coord, seats, link>>

\* Killed outright: on Linux the server dies with its parent.
Killed(p) ==
    /\ Fault
    /\ Running(p)
    /\ \E server \in {proc[p].server, "none"} : Ended(p, "killed", server)
    /\ UNCHANGED <<coord, seats, link>>

-----------------------------------------------------------------------------
(***************************************************************************)
(* Time                                                                    *)
(***************************************************************************)
CoordStep ==
    \/ \E p \in Procs : Accept(p)
    \/ Admit \/ PlanSent \/ PlanAlone \/ PlanRefused \/ JoinExpires
    \/ HearValidation \/ HearReady \/ FormationFails \/ Beat

Loop(p) ==
    \/ TakePlan(p) \/ Spawned(p) \/ HearBeat(p) \/ HearEnd(p) \/ Silence(p)
    \/ Reap(p) \/ GiveUp(p) \/ Respawned(p) \/ Probe(p)

\* Nobody has anything to do at once.
CoordWaits ==
    \/ coord.hung
    \/ coord.pc = "joining" /\ Len(seats) < Remote /\
          IF coord.guest = None
          THEN coord.joinWaited < JoinWait /\ \A p \in Procs : proc[p].pc # "dialing"
          ELSE ~Heard(coord.guest) /\ coord.waited < JoinStep
    \/ coord.pc \in {"validating", "readying"} /\ ~Heard(Current) /\ ~Lost(Current) /\ ~PatienceEnds
    \/ coord.pc = "serving" /\ coord.sinceBeat < 1
    \/ coord.pc \in {"draining", "stopped"}

LoopWaits(p) ==
    /\ proc[p].pc \notin {"spawning", "respawning"}
    /\ Looping(p) => /\ ~Readable(p)
                     /\ ~(proc[p].ready /\ proc[p].silent > SilenceLimit)
                     /\ proc[p].server \notin Dead \cup {"listening"}

\* No wait is longer, and none need be counted beyond it.
Longest == CHOOSE limit \in {JoinStep, CacheWait, ReadyWait} :
               \A other \in {JoinStep, CacheWait, ReadyWait} : other <= limit
UpTo(limit, n) == IF n < limit THEN n + 1 ELSE n

\* What a unit of silence may be put down to: a coordinator that cannot be heard,
\* or one that does not beat, though it is there.
Excuse(p) ==
    CASE coord.hung \/ coord.pc = "stopped" \/ link[p].cut \/ proc[p].excuse = "gone" -> "gone"
      [] coord.pc \in {"validating", "readying", "draining"} -> "busy"
      [] OTHER -> proc[p].excuse

Tick ==
    /\ CoordWaits
    /\ \A p \in Procs : LoopWaits(p)
    /\ coord' = [coord EXCEPT !.waited = IF coord.pc \in {"validating", "readying"} \/ coord.guest # None
                                         THEN UpTo(Longest, @) ELSE 0,
                              !.joinWaited = IF coord.pc = "joining" THEN UpTo(JoinWait, @) ELSE @,
                              !.sinceBeat = IF coord.pc = "serving" THEN 1 ELSE @]
    /\ proc' = [p \in Procs |->
                  IF Looping(p) /\ proc[p].server # "none"
                  THEN [proc[p] EXCEPT !.silent = UpTo(SilenceLimit + 1, @), !.excuse = Excuse(p)]
                  ELSE proc[p]]
    /\ UNCHANGED <<seats, link, faults>>

Next ==
    \/ CoordStep \/ TurnAway \/ Drain \/ Drained \/ Crash \/ Hang \/ Resume \/ Tick
    \/ \E p \in Procs :
          \/ Dial(p) \/ Report(p) \/ JoinFails(p) \/ Assigned(p)
          \/ Validated(p) \/ Invalid(p) \/ NotSpawned(p) \/ Respawn(p) \/ NotRespawned(p)
          \/ Loop(p) \/ Cut(p) \/ Heal(p)
          \/ ServerListens(p) \/ ServerDies(p) \/ Signalled(p) \/ Killed(p)

Spec == Init /\ [][Next]_vars

\* The coordinator's loop and each worker's run, every start of a server comes to
\* something, and time passes.
WorkerSteps(p) ==
    Report(p) \/ JoinFails(p) \/ Assigned(p) \/ Validated(p) \/ Respawn(p) \/ ServerListens(p) \/ Loop(p)
Fairness == WF_vars(CoordStep) /\ SF_vars(Tick) /\ \A p \in Procs : WF_vars(WorkerSteps(p))
FairSpec == Spec /\ Fairness /\ WF_vars(TurnAway)

-----------------------------------------------------------------------------
Servers == {"none", "forked", "starting", "listening", "up", "waiting"} \cup Dead

\* The type invariant: a coordinator admits no more workers than it waits for, and
\* a connection never holds more than the answers to one plan.
TypeOK ==
    /\ coord \in [pc : {"joining", "validating", "readying", "serving", "draining", "stopped"},
                  guest : Procs \cup {None}, seat : 1..Remote, waited : Nat, joinWaited : 0..JoinWait,
                  sinceBeat : 0..1, hung : BOOLEAN]
    /\ seats \in Seq(Procs) /\ Len(seats) <= Remote
    /\ proc \in [Procs -> [pc : {"absent", "dialing", "greeting", "reported", "looping", "validating",
                                 "spawning", "respawning", "ended"},
                           server : Servers, ready : BOOLEAN, silent : 0..SilenceLimit + 1,
                           quick : 0..QuickRestarts, excuse : {"none", "busy", "gone"},
                           end : {"none", "refused", "disconnected", "silence", "crashing", "unable",
                                  "signalled", "killed"}]]
    /\ link \in [Procs -> [down : SUBSET {"assign", "plan", "beat"},
                           up : Seq({"report", "valid", "invalid", "ready"}),
                           cut : BOOLEAN, shut : BOOLEAN]]
    /\ \A p \in Procs : Len(link[p].up) <= 2
    /\ faults \in 0..MaxFaults

\* No machine is counted twice in a cluster that is formed, though one that joined
\* may have ended and joined again before the others came.
NoMachineTwice ==
    coord.pc \in {"serving", "draining"} =>
        \A i, j \in DOMAIN seats : MachineOf[seats[i]] = MachineOf[seats[j]] => i = j

\* Once the cluster is live, no worker whose coordinator is there and beating
\* leaves over its silence.
BeatersAreHeard == \A p \in Procs : proc[p].end = "silence" => proc[p].excuse # "none"

\* "A SIGTERM'd worker must not orphan its child": a server outlives its worker only
\* if the worker was killed outright, or signalled between fork() and the line that
\* keeps the child's pid.
NoOrphan ==
    \A p \in Procs : proc[p].pc = "ended" /\ proc[p].server # "none" =>
        proc[p].end = "killed" \/ (proc[p].end = "signalled" /\ proc[p].server = "forked")

\* "A coordinator that hangs without closing the socket no longer leaves remote
\* compute ports open", nor one that is gone or cannot be reached.
AbandonedServersStop ==
    \A p \in Procs :
        <>[](coord.hung \/ coord.pc = "stopped" \/ link[p].cut)
            => <>[](Running(p) => proc[p].server \notin {"listening", "up"})

\* No compute port stays open for a cluster that is not there: neither behind a worker
\* that has ended nor behind one whose coordinator is gone.
ServersEnd == []NoOrphan /\ AbandonedServersStop

\* A coordinator that runs comes to serve or to refuse, whoever stays silent.
FormationEnds == <>[]~coord.hung => <>(coord.pc \in {"serving", "draining", "stopped"})

\* A cluster settles: it serves or is refused, and what it leaves closes its ports.
ClusterSettles == ServersEnd /\ FormationEnds

\* "The timeout cannot misfire against a real peer": a worker leaves over silence
\* only if the coordinator could not be heard.
SilenceMeansGone == \A p \in Procs : proc[p].end = "silence" => proc[p].excuse = "gone"
=============================================================================
