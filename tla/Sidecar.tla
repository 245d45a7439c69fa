------------------------------ MODULE Sidecar ------------------------------
(***************************************************************************)
(* The llama.cpp engine of a coordinator and the thread that supervises it *)
(* (src/src/coord/llama_sidecar.c), with the accept loop that refuses over *)
(* a fatal engine condition and the shutdown that follows it or a signal.  *)
(*                                                                         *)
(* The engine is another process: it loads, answers /health, logs that it  *)
(* must not serve, or dies at any moment.  The monitor reads the log       *)
(* without the mutex, then holds it from Top to the end of Probe.  A fatal *)
(* condition is named by the child that logged it; a spawn reuses the name *)
(* of a child long gone.  The 60 s that make an uptime stable and the      *)
(* backoff are events: see Stabilise and BackoffEnds.                      *)
(***************************************************************************)
EXTENDS Integers, FiniteSets

CONSTANTS MaxQuickRestarts, \* LLAMA_MAX_QUICK_RESTARTS (5)
          Children,         \* names of engine processes
          First,            \* the one the start spawned
          NoChild           \* pid 0

ASSUME SidecarAssumption ==
    /\ MaxQuickRestarts \in Nat
    /\ First \in Children
    /\ NoChild \notin Children

VARIABLES lc,     \* idletoken_llama
          engine, \* per child: the process itself
          logged, \* children that wrote a line the coordinator must refuse over
          stable, \* the current child has been READY for LLAMA_STABLE_UPTIME_MS
          mon,    \* the monitor thread
          main    \* the accept loop and the shutdown

sidecarVars == <<lc, engine, logged, stable, mon, main>>

Alive(c) == engine[c] \in {"loading", "healthy"}
InMonitorLock == mon.pc \in {"kill", "reap", "respawn", "probe"}

\* idletoken_llama_start() spawned the first child and started the monitor.
SidecarInit ==
    /\ lc = [state |-> "starting", pid |-> First, quick |-> 0, due |-> FALSE, fatal |-> NoChild, stop |-> FALSE]
    /\ engine = [c \in Children |-> IF c = First THEN "loading" ELSE "unborn"]
    /\ logged = {}
    /\ stable = FALSE
    /\ mon = [pc |-> "scan", of |-> NoChild, found |-> NoChild]
    /\ main = [pc |-> "serving", pid |-> NoChild]

-----------------------------------------------------------------------------
\* The engine process.
BecomeHealthy(c) ==
    /\ engine[c] = "loading"
    /\ engine' = [engine EXCEPT ![c] = "healthy"]
    /\ UNCHANGED <<lc, logged, stable, mon, main>>

LogFatal(c) ==
    /\ Alive(c)
    /\ logged' = logged \cup {c}
    /\ UNCHANGED <<lc, engine, stable, mon, main>>

Die(c) ==
    /\ Alive(c)
    /\ engine' = [engine EXCEPT ![c] = "zombie"]
    /\ UNCHANGED <<lc, logged, stable, mon, main>>

\* Time: a READY child outlives the stable uptime; a backoff runs out.
Stabilise ==
    /\ lc.state = "ready"
    /\ Alive(lc.pid)
    /\ ~stable
    /\ stable' = TRUE
    /\ UNCHANGED <<lc, engine, logged, mon, main>>

BackoffEnds ==
    /\ lc.state = "restarting"
    /\ ~lc.due
    /\ lc' = [lc EXCEPT !.due = TRUE]
    /\ UNCHANGED <<engine, logged, stable, mon, main>>

-----------------------------------------------------------------------------
(***************************************************************************)
(* llama_monitor()                                                         *)
(***************************************************************************)
\* llama_scan_log(): from the offset stamped when this child was spawned, so a
\* line of an earlier child is never read.
Scan ==
    /\ mon.pc = "scan"
    /\ mon' = IF lc.stop \/ lc.pid = NoChild \/ lc.fatal # NoChild
              THEN [pc |-> "top", of |-> NoChild, found |-> NoChild]
              ELSE [pc |-> "publish", of |-> lc.pid,
                    found |-> IF lc.pid \in logged THEN lc.pid ELSE NoChild]
    /\ UNCHANGED <<lc, engine, logged, stable, main>>

\* Published only if that child is still current.
Publish ==
    /\ mon.pc = "publish"
    /\ lc' = IF ~lc.stop /\ lc.pid = mon.of THEN [lc EXCEPT !.fatal = mon.found] ELSE lc
    /\ mon' = [mon EXCEPT !.pc = "top"]
    /\ UNCHANGED <<engine, logged, stable, main>>

MonGoto(pc) == mon' = [mon EXCEPT !.pc = pc]

Top ==
    /\ mon.pc = "top"
    /\ MonGoto(IF lc.stop THEN "returned"
               ELSE IF lc.fatal # NoChild /\ lc.state # "failed" THEN "kill" ELSE "reap")
    /\ UNCHANGED <<lc, engine, logged, stable, main>>

\* llama_kill_child(): SIGTERM, two seconds, SIGKILL; then the refusal latches.
KillFatal ==
    /\ mon.pc = "kill"
    /\ engine' = IF lc.pid = NoChild THEN engine ELSE [engine EXCEPT ![lc.pid] = "reaped"]
    /\ lc' = [lc EXCEPT !.pid = NoChild, !.state = "failed"]
    /\ MonGoto("scan")
    /\ UNCHANGED <<logged, stable, main>>

\* Mutant: any READY child forgives the crashes before it, stable or not.
ReapForgiving ==
    LET dead == lc.pid # NoChild /\ engine[lc.pid] = "zombie"
        quick == IF lc.state = "ready" THEN 0 ELSE lc.quick
    IN /\ mon.pc = "reap"
       /\ engine' = IF dead THEN [engine EXCEPT ![lc.pid] = "reaped"] ELSE engine
       /\ lc' = IF ~dead THEN lc
                ELSE IF quick >= MaxQuickRestarts
                     THEN [lc EXCEPT !.pid = NoChild, !.quick = quick, !.state = "failed"]
                     ELSE [lc EXCEPT !.pid = NoChild, !.quick = quick + 1,
                                     !.state = "restarting", !.due = FALSE]
       /\ MonGoto("respawn")
       /\ UNCHANGED <<logged, stable, main>>

\* A dead child: one more quick restart, or too many of them.
Reap ==
    LET dead == lc.pid # NoChild /\ engine[lc.pid] = "zombie"
        quick == IF lc.state = "ready" /\ stable THEN 0 ELSE lc.quick
    IN /\ mon.pc = "reap"
       /\ engine' = IF dead THEN [engine EXCEPT ![lc.pid] = "reaped"] ELSE engine
       /\ lc' = IF ~dead THEN lc
                ELSE IF quick >= MaxQuickRestarts
                     THEN [lc EXCEPT !.pid = NoChild, !.quick = quick, !.state = "failed"]
                     ELSE [lc EXCEPT !.pid = NoChild, !.quick = quick + 1,
                                     !.state = "restarting", !.due = FALSE]
       /\ MonGoto("respawn")
       /\ UNCHANGED <<logged, stable, main>>

\* fork() may fail; an exec that fails is a child that dies.
Respawn ==
    /\ mon.pc = "respawn"
    /\ IF lc.state = "restarting" /\ lc.due
       THEN \/ \E c \in Children :
                  /\ engine[c] \in {"unborn", "reaped"}
                  /\ engine' = [engine EXCEPT ![c] = "loading"]
                  /\ lc' = [lc EXCEPT !.pid = c, !.state = "starting"]
                  /\ logged' = logged \ {c}
                  /\ stable' = FALSE
            \/ /\ lc' = [lc EXCEPT !.state = "failed"]
               /\ UNCHANGED <<engine, logged, stable>>
       ELSE UNCHANGED <<lc, engine, logged, stable>>
    /\ MonGoto("probe")
    /\ UNCHANGED main

\* Mutant: a child that is alive is taken to be ready.
ProbePort ==
    /\ mon.pc = "probe"
    /\ lc' = IF lc.state = "starting" /\ lc.pid # NoChild /\ Alive(lc.pid)
             THEN [lc EXCEPT !.state = "ready"] ELSE lc
    /\ MonGoto("scan")
    /\ UNCHANGED <<engine, logged, stable, main>>

\* Only a STARTING child is ever asked.
Probe ==
    /\ mon.pc = "probe"
    /\ lc' = IF lc.state = "starting" /\ lc.pid # NoChild /\ engine[lc.pid] = "healthy"
             THEN [lc EXCEPT !.state = "ready"] ELSE lc
    /\ MonGoto("scan")
    /\ UNCHANGED <<engine, logged, stable, main>>

Monitor == Scan \/ Publish \/ Top \/ KillFatal \/ Reap \/ Respawn \/ Probe

-----------------------------------------------------------------------------
(***************************************************************************)
(* The accept loop and idletoken_llama_shutdown()                          *)
(***************************************************************************)
\* Mutant: the condition is only looked at while the engine is up.
RefuseWhileReady ==
    /\ main.pc = "serving"
    /\ ~InMonitorLock
    /\ lc.fatal # NoChild
    /\ lc.state = "ready"
    /\ main' = [main EXCEPT !.pc = "stopping"]
    /\ UNCHANGED <<lc, engine, logged, stable, mon>>

RefuseOverFatal ==
    /\ main.pc = "serving"
    /\ ~InMonitorLock
    /\ lc.fatal # NoChild
    /\ main' = [main EXCEPT !.pc = "stopping"]
    /\ UNCHANGED <<lc, engine, logged, stable, mon>>

Signal ==
    /\ main.pc = "serving"
    /\ main' = [main EXCEPT !.pc = "stopping"]
    /\ UNCHANGED <<lc, engine, logged, stable, mon>>

\* Mutant: the pid is read without the lock, in the middle of a respawn.
TellMonitorUnlocked ==
    /\ main.pc = "stopping"
    /\ lc' = [lc EXCEPT !.stop = TRUE]
    /\ main' = [pc |-> "joining", pid |-> lc.pid]
    /\ UNCHANGED <<engine, logged, stable, mon>>

\* stop and the pid to kill are written and read under one lock.
TellMonitor ==
    /\ main.pc = "stopping"
    /\ ~InMonitorLock
    /\ lc' = [lc EXCEPT !.stop = TRUE]
    /\ main' = [pc |-> "joining", pid |-> lc.pid]
    /\ UNCHANGED <<engine, logged, stable, mon>>

KillAtShutdown ==
    /\ main.pc = "joining"
    /\ mon.pc = "returned"
    /\ engine' = IF main.pid = NoChild THEN engine ELSE [engine EXCEPT ![main.pid] = "reaped"]
    /\ main' = [main EXCEPT !.pc = "exited"]
    /\ UNCHANGED <<lc, logged, stable, mon>>

MainStep == RefuseOverFatal \/ TellMonitor \/ KillAtShutdown

SidecarNext ==
    \/ \E c \in Children : BecomeHealthy(c) \/ LogFatal(c) \/ Die(c)
    \/ Stabilise
    \/ BackoffEnds
    \/ Monitor
    \/ MainStep
    \/ Signal

SidecarSpec == SidecarInit /\ [][SidecarNext]_sidecarVars

-----------------------------------------------------------------------------
\* The type invariant: quick_restarts never passes LLAMA_MAX_QUICK_RESTARTS.
SidecarTypeOK ==
    /\ lc \in [state : {"starting", "ready", "restarting", "failed"}, pid : Children \cup {NoChild},
               quick : 0..MaxQuickRestarts, due : BOOLEAN, fatal : Children \cup {NoChild}, stop : BOOLEAN]
    /\ engine \in [Children -> {"unborn", "loading", "healthy", "zombie", "reaped"}]
    /\ logged \subseteq Children
    /\ stable \in BOOLEAN
    /\ mon \in [pc : {"scan", "publish", "top", "kill", "reap", "respawn", "probe", "returned"},
                of : Children \cup {NoChild}, found : Children \cup {NoChild}]
    /\ main \in [pc : {"serving", "stopping", "joining", "exited"}, pid : Children \cup {NoChild}]

\* There is never an engine the supervisor has lost: a live one is the one it
\* holds, none is left when the state says failed, and none outlives the
\* coordinator, wherever in its iteration the monitor was told to stop.
NoOrphanEngine ==
    /\ \A c \in Children : engine[c] \in {"loading", "healthy", "zombie"} =>
          lc.pid = c /\ main.pc # "exited"
    /\ lc.state = "failed" => lc.pid = NoChild

\* READY, the state chat requests are let through by, is only ever said of a
\* child that itself answered /health since it was spawned.
ReadyAnswered == lc.state = "ready" => lc.pid # NoChild /\ engine[lc.pid] \in {"healthy", "zombie", "reaped"}

\* An engine is never lost, and READY is only said of one that answered.
EngineKnown == NoOrphanEngine /\ ReadyAnswered

\* A condition the engine reported is acted on: once published, the engine is
\* gone and the coordinator refuses, whatever the child does meanwhile.
FatalStopsEverything ==
    lc.fatal # NoChild ~> main.pc = "exited" /\ \A c \in Children : ~Alive(c)

\* Restarting does not go on for ever over a model that crashes: unless some
\* child becomes stable after it, a restart is followed by one that stays up or
\* by the failed state.
CrashLoopEnds == []<>(lc.state = "restarting") /\ []<>(lc.state = "starting") => []<>stable

\* "the state latches FAILED so nothing restarts it into the same wall": no
\* engine is spawned after one that logged a condition to refuse over.
NoRestartIntoTheWall ==
    [][\A c \in Children : ~Alive(c) /\ engine'[c] = "loading" => logged = {}]_sidecarVars
=============================================================================
