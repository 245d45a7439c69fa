-------------------------- MODULE AdmissionChannel --------------------------
(***************************************************************************)
(* Who may publish the admission channel key of this machine, and how the  *)
(* platform agent follows it (src/src/common/admission.c and               *)
(* src/src/tools/platform_agent.c).                                        *)
(*                                                                         *)
(* Coordinators start, race for the advisory lock beside the key file,     *)
(* publish, serve and die in any order; one of them holds the port the     *)
(* agent dials.  The agent reads the file for every attempt, mints under   *)
(* what it read, and retries a refused capability once.  A key is the      *)
(* number of the start that rolled it; 0 stands for no key and, in the     *)
(* file, for a file that is absent, empty or being rewritten.              *)
(***************************************************************************)
EXTENDS Integers, FiniteSets

CONSTANTS Coords,        \* coordinator processes of this machine
          NoCoord,       \* no process
          MaxCoordStarts      \* bound on coordinator starts

ASSUME ChannelAssumption ==
    /\ NoCoord \notin Coords
    /\ MaxCoordStarts \in Nat

VARIABLES co,     \* per coordinator: start-up progress, key, g_adm_channel_path
          lock,   \* holder of <channel>.lock
          file,   \* the published key
          port,   \* the coordinator that bound the port the agent dials
          coordStarts, \* starts so far
          ag,     \* the agent's current job
          lockable \* the .lock file can be opened on this machine

channelVars == <<co, lock, file, port, coordStarts, ag, lockable>>

Down == [pc |-> "down", key |-> 0, remembers |-> FALSE]
CoordStages == {"down", "armed", "publishing", "writing", "up"}
Coordinator == [pc : CoordStages, key : 0..MaxCoordStarts, remembers : BOOLEAN]
NoJob == [pc |-> "idle", ticket |-> 0, attempt |-> 0, by |-> 0, outcome |-> "none",
          remembers |-> FALSE, first |-> 0]

ChannelInit ==
    /\ co = [c \in Coords |-> Down]
    /\ lock = NoCoord
    /\ file = 0
    /\ port = NoCoord
    /\ coordStarts = 0
    /\ ag = NoJob
    /\ lockable \in BOOLEAN

-----------------------------------------------------------------------------
(***************************************************************************)
(* idletoken_admission_init()                                              *)
(***************************************************************************)
Arm(c) ==
    /\ co[c].pc = "down"
    /\ coordStarts < MaxCoordStarts
    /\ coordStarts' = coordStarts + 1
    /\ co' = [co EXCEPT ![c] = [Down EXCEPT !.pc = "armed", !.key = coordStarts']]
    /\ UNCHANGED <<lock, file, port, ag, lockable>>

\* adm_claim_channel(): 1 ours, 0 held by another process, -1 cannot be opened.
ClaimPublishing(c) == co' = [co EXCEPT ![c].pc = "publishing"]
\* Mutant: a coordinator that lost the claim publishes all the same.
ClaimIgnored(c) == ClaimPublishing(c)
ClaimLost(c) == co' = [co EXCEPT ![c].pc = "up"]

Claim(c) ==
    /\ co[c].pc = "armed"
    /\ \/ lockable /\ lock = NoCoord /\ lock' = c /\ ClaimPublishing(c)
       \/ lockable /\ lock # NoCoord /\ lock' = lock /\ ClaimLost(c)
       \/ ~lockable /\ lock' = lock /\ ClaimPublishing(c)
    /\ UNCHANGED <<file, port, coordStarts, ag, lockable>>

\* adm_write_private(): O_TRUNC empties the file before the key is written.
Truncate(c) ==
    /\ co[c].pc = "publishing"
    /\ file' = 0
    /\ co' = [co EXCEPT ![c].pc = "writing"]
    /\ UNCHANGED <<lock, port, coordStarts, ag, lockable>>

\* The path is remembered for later repair only if all of init() succeeded: the
\* local-origin marker, written first, may have failed.
PublishKey(c) ==
    /\ co[c].pc = "writing"
    /\ file' = co[c].key
    /\ \E markerWritten \in BOOLEAN :
          co' = [co EXCEPT ![c].pc = "up", ![c].remembers = markerWritten]
    /\ UNCHANGED <<lock, port, coordStarts, ag, lockable>>

\* The key file cannot be opened for writing: the start goes on unpublished.
PublishFails(c) ==
    /\ co[c].pc = "publishing"
    /\ co' = [co EXCEPT ![c].pc = "up"]
    /\ UNCHANGED <<lock, file, port, coordStarts, ag, lockable>>

Bind(c) ==
    /\ co[c].pc = "up"
    /\ port = NoCoord
    /\ port' = c
    /\ UNCHANGED <<co, lock, file, coordStarts, ag, lockable>>

\* A refusal, a crash, a kill: the OS drops the lock and the port; a request it
\* was answering breaks off.
CoordExit(c) ==
    /\ co[c].pc # "down"
    /\ co' = [co EXCEPT ![c] = Down]
    /\ lock' = IF lock = c THEN NoCoord ELSE lock
    /\ port' = IF port = c THEN NoCoord ELSE port
    /\ ag' = IF port = c /\ ag.pc \in {"refusing", "repairing", "answering"}
             THEN NoJob ELSE ag
    /\ UNCHANGED <<file, coordStarts, lockable>>

-----------------------------------------------------------------------------
(***************************************************************************)
(* http_post_json_platform(): refresh, mint, post, at most one more time.  *)
(***************************************************************************)
\* Mutant: the retry is minted under the key read for the first attempt.
ForwardLatched ==
    /\ ag.pc \in {"idle", "retry"}
    /\ ag' = IF ag.pc = "idle"
             THEN [NoJob EXCEPT !.pc = "posted", !.ticket = file]
             ELSE [ag EXCEPT !.pc = "posted", !.attempt = @ + 1]
    /\ UNCHANGED <<co, lock, file, port, coordStarts, lockable>>

Forward ==
    /\ ag.pc \in {"idle", "retry"}
    /\ ag' = IF ag.pc = "idle"
             THEN [NoJob EXCEPT !.pc = "posted", !.ticket = file]
             ELSE [ag EXCEPT !.pc = "posted", !.ticket = file, !.attempt = @ + 1]
    /\ UNCHANGED <<co, lock, file, port, coordStarts, lockable>>

Unreachable ==
    /\ ag.pc = "posted"
    /\ port = NoCoord
    /\ ag' = NoJob
    /\ UNCHANGED <<co, lock, file, port, coordStarts, lockable>>

\* No ticket (the legacy header alone) or one minted under this very key.
Serve(c) ==
    /\ ag.pc = "posted"
    /\ port = c
    /\ ag.ticket \in {0, co[c].key}
    /\ ag' = [NoJob EXCEPT !.outcome = "served"]
    /\ UNCHANGED <<co, lock, file, port, coordStarts, lockable>>

\* Mutant: the refusal goes out and nothing is repaired.
BadMacUnrepaired(c) ==
    /\ ag.pc = "posted"
    /\ port = c
    /\ ag.ticket \notin {0, co[c].key}
    /\ ag' = [ag EXCEPT !.pc = "answering"]
    /\ UNCHANGED <<co, lock, file, port, coordStarts, lockable>>

\* BAD_MAC; republish_if_drifted() runs before the 403 goes out, and only in a
\* process that remembered the path.
BadMac(c) ==
    /\ ag.pc = "posted"
    /\ port = c
    /\ ag.ticket \notin {0, co[c].key}
    /\ ag' = [ag EXCEPT !.pc = IF co[c].remembers /\ file # co[c].key THEN "refusing"
                                                                      ELSE "answering"]
    /\ UNCHANGED <<co, lock, file, port, coordStarts, lockable>>

RepairTruncate(c) ==
    /\ ag.pc = "refusing"
    /\ port = c
    /\ file' = 0
    /\ ag' = [ag EXCEPT !.pc = "repairing"]
    /\ UNCHANGED <<co, lock, port, coordStarts, lockable>>

RepairWrite(c) ==
    /\ ag.pc = "repairing"
    /\ port = c
    /\ file' = co[c].key
    /\ ag' = [ag EXCEPT !.pc = "answering"]
    /\ UNCHANGED <<co, lock, port, coordStarts, lockable>>

\* The 403 reaches the agent: one more attempt, or the refusal stands.
Refused(c) ==
    /\ ag.pc = "answering"
    /\ port = c
    /\ ag' = IF ag.attempt = 0
             THEN [ag EXCEPT !.pc = "retry", !.first = co[c].key]
             ELSE [NoJob EXCEPT !.outcome = "refused", !.by = co[c].key, !.first = ag.first,
                                !.remembers = co[c].remembers]
    /\ UNCHANGED <<co, lock, file, port, coordStarts, lockable>>

Startup(c) == Arm(c) \/ Claim(c) \/ Truncate(c) \/ PublishKey(c) \/ PublishFails(c) \/ Bind(c)
Handler(c) == Serve(c) \/ BadMac(c) \/ RepairTruncate(c) \/ RepairWrite(c) \/ Refused(c)

ChannelNext ==
    \/ \E c \in Coords : Startup(c) \/ CoordExit(c) \/ Handler(c)
    \/ Forward
    \/ Unreachable

ChannelSpec == ChannelInit /\ [][ChannelNext]_channelVars

-----------------------------------------------------------------------------
JobStages == {"idle", "posted", "refusing", "repairing", "answering", "retry"}
JobOutcomes == {"none", "served", "refused"}
AgentJob == [pc : JobStages, ticket : 0..MaxCoordStarts, attempt : 0..1, by : 0..MaxCoordStarts,
             outcome : JobOutcomes, remembers : BOOLEAN, first : 0..MaxCoordStarts]
\* Every variable has its type; a job has one retry.
ChannelTypeOK ==
    /\ co \in [Coords -> Coordinator]
    /\ lock \in Coords \cup {NoCoord}
    /\ file \in 0..MaxCoordStarts
    /\ port \in Coords \cup {NoCoord}
    /\ coordStarts \in 0..MaxCoordStarts
    /\ lockable \in BOOLEAN
    /\ ag \in AgentJob

\* While the coordinator that published under the lock lives, no other start,
\* whatever it goes on to do, overwrites its key (the outage of 2026-09-12 that
\* adm_claim_channel() exists to prevent).
PublicationStands ==
    lockable => \A c \in Coords : co[c].pc = "up" /\ co[c].remembers => file = co[c].key

\* One retry is enough: a job is refused twice only if the coordinator was
\* replaced between the attempts, or is one that never published.
RefusalMeansReplaced ==
    lockable /\ ag.outcome = "refused" => ag.first # ag.by \/ ~ag.remembers

\* Where the lock cannot be opened a publication may be overwritten; it is repaired: once one coordinator that
\* remembers its publication holds the agent's port for good, jobs stop being
\* refused (republish_if_drifted() and the agent's re-read).
RefusalsEnd ==
    \A c \in Coords :
        <>[](port = c /\ co[c].remembers) => <>[](ag.outcome # "refused")
=============================================================================
