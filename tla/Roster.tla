------------------------------- MODULE Roster -------------------------------
(***************************************************************************)
(* How the desktop clients of one LAN form a cluster before any engine     *)
(* runs (src/client/src-tauri/src/pairing.rs).  One machine, the host,     *)
(* creates a cluster under a code and answers roster requests, one at a    *)
(* time; the others, the guests, prove the code, are given a token, and    *)
(* poll.  Starting the cluster starts an engine on every member; leaving   *)
(* it, or its being closed, stops them.                                    *)
(*                                                                         *)
(* Every user command, every request at the host and every lock section of *)
(* a guest's thread or of the host's ready watcher is one step.  A thread  *)
(* serves one membership: the generation counter of the code is the flag   *)
(* `current` here, which every change of generation takes away for good.   *)
(* A thread looks at it when it takes the lock, not when it acts on what   *)
(* it found there.  Requests and replies may be lost.                      *)
(***************************************************************************)
EXTENDS Integers, FiniteSets

CONSTANTS Guests,       \* the machines that join; each is one device at one address
          Names,        \* host names
          NameOf,       \* the name each guest goes by; two may share one
          HostName,     \* the host's own
          Codes,        \* join codes
          Wants,        \* whether a guest is set to "prefer this machine as coordinator"
          SlotsOf,      \* bound: the threads of each machine that are alive at once
          MaxCommands,  \* bound: what the users press
          MaxFaults     \* bound: lost messages, failures and refused launches

ASSUME RosterAssumption ==
    /\ IsFiniteSet(Guests) /\ NameOf \in [Guests -> Names \ {HostName}] /\ HostName \in Names
    /\ Wants \in [Guests -> BOOLEAN]
    /\ MaxCommands \in Nat /\ MaxFaults \in Nat

VARIABLES host,         \* the host's membership (Inner of the creator)
          rows,         \* the roster: the member under each name
          closedRows,   \* members of clusters just closed, kept for their next poll
          nonces,       \* the guest threads that hold a nonce of this cluster
          watchers,     \* the host's ready watchers, one for each start
          guest,        \* each guest's membership (Inner of a joiner)
          threads,      \* each guest's roster threads
          engines,       \* the engine each machine supervises
          minted,       \* tokens minted so far: random numbers, never the same twice
          commands, faults    \* counted for the bounds

rosterVars == <<host, rows, closedRows, nonces, watchers, guest, threads, engines, minted,
                commands, faults>>
hostVars == <<host, rows, closedRows, nonces, watchers, minted>>
guestVars == <<guest, threads, minted>>

Host == "host"
Nobody == "nobody"
NoRow == [of |-> Nobody]
NoReply == [kind |-> "none"]
Ended == [pc |-> "ended"]
Stopped == [state |-> "stopped", role |-> Nobody]
Active == {"loading", "ready", "failed"}     \* its sidecar runs
Members == {n \in Names : rows[n] # NoRow}

OffHost == [mode |-> "off", phase |-> "idle", coord |-> Nobody,
            started |-> FALSE, code |-> Nobody, listening |-> FALSE]
OffGuest == [mode |-> "off", phase |-> "idle", coord |-> Nobody, started |-> FALSE, err |-> "none"]

RosterInit ==
    /\ host = OffHost
    /\ rows = [n \in Names |-> NoRow]
    /\ closedRows = {} /\ nonces = {}
    /\ watchers = [s \in SlotsOf[Host] |-> Ended]
    /\ guest = [g \in Guests |-> OffGuest]
    /\ threads = [g \in Guests |-> [s \in SlotsOf[g] |-> Ended]]
    /\ engines = [m \in Guests \cup {Host} |-> Stopped]
    /\ minted = 0 /\ commands = 0 /\ faults = 0

Pressed == commands < MaxCommands /\ commands' = commands + 1
Fault == faults < MaxFaults /\ faults' = faults + 1

-----------------------------------------------------------------------------
\* engine.rs as the roster uses it: a role that is active is not started again,
\* and stopping stops every role.
StartEngine(m, role) ==
    engines' = IF engines[m].state \in Active /\ engines[m].role = role THEN engines
               ELSE [engines EXCEPT ![m] = [state |-> "loading", role |-> role]]
StopEngine(m) == engines' = [engines EXCEPT ![m] = Stopped]

\* A coordinator loads across the engines of every member.
EngineLoads(m) ==
    /\ engines[m].state = "loading"
    /\ engines[m].role = "coordinator" =>
          \A n \in Members : rows[n].of # m => engines[rows[n].of].state \in Active
    /\ engines' = [engines EXCEPT ![m].state = "ready"]
    /\ UNCHANGED <<hostVars, guestVars, faults>>

\* The engine under the sidecar gives up for good, or the sidecar itself does.
EngineFails(m, how) ==
    /\ engines[m].state \in {"loading", "ready"}
    /\ Fault
    /\ engines' = [engines EXCEPT ![m].state = how]
    /\ UNCHANGED <<hostVars, guestVars>>

-----------------------------------------------------------------------------
\* The host's user.
Disowned(ts) == [s \in DOMAIN ts |-> IF ts[s] = Ended THEN Ended ELSE [ts[s] EXCEPT !.current = FALSE]]
NewGeneration == watchers' = Disowned(watchers)

Create(c) ==
    /\ host.mode \in {"off", "closing"}
    /\ host' = [OffHost EXCEPT !.mode = "creator", !.coord = HostName, !.code = c]
    /\ rows' = [n \in Names |-> NoRow]
    /\ nonces' = {}
    /\ NewGeneration
    /\ UNCHANGED <<closedRows, guestVars, engines, faults>>

\* The previous listener lets the port go, or ten tries were not enough.
BindRoster ==
    /\ host.mode = "creator" /\ ~host.listening
    /\ host' = [host EXCEPT !.listening = TRUE]
    /\ UNCHANGED <<rows, closedRows, nonces, watchers, guestVars, engines, faults>>
RosterPortBusy ==
    /\ host.mode = "creator" /\ ~host.listening
    /\ Fault
    /\ host' = [OffHost EXCEPT !.started = host.started]
    /\ rows' = [n \in Names |-> NoRow]
    /\ NewGeneration
    /\ UNCHANGED <<closedRows, nonces, guestVars, engines>>

ApproveCoordinator(n) ==
    /\ host.mode = "creator" /\ host.phase = "idle"
    /\ n \in Members /\ rows[n].online /\ rows[n].wants
    /\ host' = [host EXCEPT !.coord = n]
    /\ rows' = [rows EXCEPT ![n].wants = FALSE]
    /\ UNCHANGED <<closedRows, nonces, watchers, guestVars, engines, faults>>

FreeSlot(ts) == LET free == {s \in DOMAIN ts : ts[s] = Ended}
                IN  IF free = {} THEN {} ELSE {CHOOSE s \in free : TRUE}
RoleOf(name, coord) == IF coord = name THEN "coordinator" ELSE "worker"

\* Every member must be there; then the phase, the host's own engine, and a watcher.
\* The engine may be refused (no file, no binary), which only the log hears.
Start(solo, launched) ==
    /\ host.mode = "creator"
    /\ Members # {} \/ solo
    /\ \A n \in Members : rows[n].online
    /\ host' = [host EXCEPT !.phase = "starting", !.started = TRUE]
    /\ IF host.started \/ ~launched THEN UNCHANGED engines
       ELSE StartEngine(Host, RoleOf(HostName, host.coord))
    /\ IF launched THEN UNCHANGED faults ELSE Fault
    /\ \E s \in FreeSlot(watchers) :
          watchers' = [watchers EXCEPT ![s] = [pc |-> "look", current |-> TRUE]]
    /\ UNCHANGED <<rows, closedRows, nonces, guestVars>>

\* Leave is offered inside a cluster only (a closing one is shown as left).  With
\* members, the roster goes on answering a little longer, to tell them.
HostLeave ==
    /\ host.mode = "creator"
    /\ IF Members # {}
       THEN /\ closedRows' = closedRows \cup
                  {[name |-> n, of |-> rows[n].of, token |-> rows[n].token] : n \in Members}
            /\ host' = [OffHost EXCEPT !.mode = "closing", !.listening = host.listening]
            /\ UNCHANGED <<rows, watchers>>
       ELSE /\ host' = OffHost
            /\ rows' = [n \in Names |-> NoRow]
            /\ NewGeneration
            /\ UNCHANGED closedRows
    /\ nonces' = {}
    /\ StopEngine(Host)
    /\ UNCHANGED <<guestVars, faults>>

\* The time to tell them is longer than the interval of any member's poll: it is
\* over early only for a member that lost a message.
Waiting(r) == \E s \in SlotsOf[r.of] : LET t == threads[r.of][s] IN
    t # Ended /\ t.current /\ (t.token = r.token \/ (t.reply.kind = "ok" /\ t.reply.token = r.token))
GraceEnds ==
    /\ closedRows # {} \/ host.mode = "closing"
    /\ \A r \in closedRows : Waiting(r) => faults > 0
    /\ closedRows' = {}
    /\ IF host.mode = "closing"
       THEN /\ host' = OffHost
            /\ rows' = [n \in Names |-> NoRow]
            /\ nonces' = {}
            /\ NewGeneration
       ELSE UNCHANGED <<host, rows, nonces, watchers>>
    /\ UNCHANGED <<guestVars, engines, faults>>

\* A member that has not polled for three of its intervals: its thread is gone, or
\* its messages are being lost.
SweepOffline(n) ==
    /\ n \in Members /\ rows[n].online /\ host.listening
    /\ faults > 0 \/ ~ \E s \in SlotsOf[rows[n].of] : LET t == threads[rows[n].of][s] IN
                          t # Ended /\ t.current
    /\ rows' = [rows EXCEPT ![n].online = FALSE]
    /\ UNCHANGED <<host, closedRows, nonces, watchers, guestVars, engines, faults>>

-----------------------------------------------------------------------------
\* The ready watcher: look under the lock; ask the engine on this machine without
\* it; tell the roster what the engine said, whatever generation it is by then.
Watch(s, pc) == watchers' = [watchers EXCEPT ![s].pc = pc]
WatchEnds(s) == watchers' = [watchers EXCEPT ![s] = Ended]
OwnRole == RoleOf(HostName, host.coord)

WatcherLooks(s) ==
    /\ watchers[s] # Ended /\ watchers[s].pc = "look"
    /\ IF ~watchers[s].current \/ host.phase = "ready"
       THEN WatchEnds(s) /\ UNCHANGED host
       ELSE IF engines[Host].role # OwnRole \/ engines[Host].state \notin Active
            THEN WatchEnds(s) /\ host' = [host EXCEPT !.phase = "idle", !.started = FALSE]
            ELSE Watch(s, "ask") /\ UNCHANGED host
    /\ UNCHANGED <<rows, closedRows, nonces, guestVars, engines, faults>>

WatcherAsks(s) ==
    /\ watchers[s] # Ended /\ watchers[s].pc = "ask"
    /\ LET heard == host.mode = "creator" /\ host.phase \in {"starting", "ready"}
                    /\ engines[Host].role = "coordinator"
       IN  Watch(s, IF heard /\ engines[Host].state \in {"ready", "failed"}
                    THEN engines[Host].state ELSE "look")
    /\ UNCHANGED <<host, rows, closedRows, nonces, guestVars, engines, faults>>

TellReady(s) ==
    /\ watchers[s] # Ended /\ watchers[s].pc = "ready"
    /\ host' = [host EXCEPT !.phase = "ready"]
    /\ WatchEnds(s)
    /\ UNCHANGED <<rows, closedRows, nonces, guestVars, engines, faults>>

TellFailed(s) ==
    /\ watchers[s] # Ended /\ watchers[s].pc = "failed"
    /\ host' = [host EXCEPT !.phase = "idle", !.started = FALSE]
    /\ watchers' = [watchers EXCEPT ![s] = [pc |-> OwnRole, current |-> watchers[s].current]]
    /\ UNCHANGED <<rows, closedRows, nonces, guestVars, engines, faults>>
StopFailed(s) ==
    /\ watchers[s] # Ended /\ watchers[s].pc \in {"coordinator", "worker"}
    /\ IF engines[Host].role = watchers[s].pc THEN StopEngine(Host) ELSE UNCHANGED engines
    /\ WatchEnds(s)
    /\ UNCHANGED <<host, rows, closedRows, nonces, guestVars, faults>>

-----------------------------------------------------------------------------
\* What the host answers, under its lock.
Answering == host.listening /\ host.mode \in {"creator", "closing"}
RosterReply(token) == [kind |-> "ok", phase |-> host.phase, coord |-> host.coord, token |-> token]

Authorized(g, t) ==
    LET row == rows[NameOf[g]] IN row # NoRow /\ row.of = g /\ row.token = t.token
PollReply(g, t) ==
    CASE [name |-> NameOf[g], of |-> g, token |-> t.token] \in closedRows -> [kind |-> "closed"]
      [] ~Authorized(g, t) -> [kind |-> "unauthorized"]
      [] host.mode = "closing" -> [kind |-> "closed"]
      [] OTHER -> RosterReply(t.token)

\* Mutant: the name of a member that is offline is free.
ConflictOnline(g) ==
    LET row == rows[NameOf[g]] IN row # NoRow /\ row.of # g /\ row.online

\* A name belongs to the device that took it first.
Conflict(g) == rows[NameOf[g]] # NoRow /\ rows[NameOf[g]].of # g

\* One request of thread s of guest g: answered, answered in vain, or never heard.
\* Handled is what the host does with it, After what its reply makes of the thread.
Request(g, s, Handled, reply, After(_)) ==
    \/ /\ Answering /\ Handled
       /\ threads' = [threads EXCEPT ![g][s] = After(reply)]
       /\ UNCHANGED faults
    \/ /\ Answering /\ Handled /\ Fault
       /\ threads' = [threads EXCEPT ![g][s] = After(NoReply)]
    \/ /\ IF Answering THEN Fault ELSE UNCHANGED faults
       /\ threads' = [threads EXCEPT ![g][s] = After(NoReply)]
       /\ UNCHANGED hostVars

At(g, s, pc) == threads[g][s] # Ended /\ threads[g][s].pc = pc
Owned(g, s) == threads[g][s].current
GoesTo(g, s, pc) == threads' = [threads EXCEPT ![g][s].pc = pc]
Quit(g, s) == threads' = [threads EXCEPT ![g][s] = Ended]

-----------------------------------------------------------------------------
\* The guest's user, who is offered Join only outside a cluster.
Join(g, c) ==
    /\ guest[g].mode = "off"
    /\ guest' = [guest EXCEPT ![g] = [OffGuest EXCEPT !.mode = "joiner"]]
    /\ \E s \in FreeSlot(threads[g]) :
          threads' = [threads EXCEPT ![g] =
              [Disowned(@) EXCEPT ![s] =
                  [pc |-> "hello", current |-> TRUE, code |-> c, first |-> TRUE, joined |-> FALSE,
                   token |-> 0, lost |-> FALSE, reply |-> NoReply]]]
    /\ UNCHANGED <<hostVars, engines, faults>>

GuestLeave(g) ==
    /\ guest[g].mode = "joiner"
    /\ guest' = [guest EXCEPT ![g] = OffGuest]
    /\ threads' = [threads EXCEPT ![g] = Disowned(@)]
    /\ StopEngine(g)
    /\ UNCHANGED <<hostVars, faults>>

-----------------------------------------------------------------------------
\* The guest's thread.  A host that cannot prove the code is not this cluster's: a
\* first join gives up, a later one tries again after a sleep.
SaysHello(g, s) ==
    LET t == threads[g][s]
        ours == host.mode = "creator" /\ host.code = t.code
        reply == [kind |-> IF ours THEN "hello" ELSE "refused"]
        After(r) == [t EXCEPT !.pc = IF r.kind = "hello" THEN "join"
                                     ELSE IF t.first THEN "give up" ELSE "hello"]
    IN  /\ At(g, s, "hello")
        /\ IF ~Owned(g, s) THEN Quit(g, s) /\ UNCHANGED <<hostVars, faults>>
           ELSE Request(g, s, /\ nonces' = IF ours THEN nonces \cup {<<g, s>>} ELSE nonces
                              /\ UNCHANGED <<host, rows, closedRows, watchers, minted>>,
                        reply, After)
        /\ UNCHANGED <<guest, engines>>

\* An accepted join always mints a token; the name keeps its row, and its device.
AsksToJoin(g, s) ==
    LET t == threads[g][s]
        admitted == host.mode = "creator" /\ <<g, s>> \in nonces /\ ~Conflict(g)
        row == [of |-> g, token |-> minted + 1, online |-> TRUE, wants |-> Wants[g]]
        reply == IF admitted THEN RosterReply(minted + 1) ELSE [kind |-> "refused"]
        After(r) == IF t.first /\ r.kind # "ok" THEN [t EXCEPT !.pc = "give up"]
                    ELSE [t EXCEPT !.pc = "reply", !.reply = r]
    IN  /\ At(g, s, "join")
        /\ Request(g, s, /\ nonces' = IF host.mode = "creator" THEN nonces \ {<<g, s>>} ELSE nonces
                         /\ rows' = IF admitted THEN [rows EXCEPT ![NameOf[g]] = row] ELSE rows
                         /\ minted' = IF admitted THEN minted + 1 ELSE minted
                         /\ UNCHANGED <<host, closedRows, watchers>>,
                   reply, After)
        /\ UNCHANGED <<guest, engines>>

GivesUp(g, s) ==
    /\ At(g, s, "give up")
    /\ guest' = IF Owned(g, s)
                THEN [guest EXCEPT ![g].mode = "off", ![g].phase = "idle", ![g].err = "refused"]
                ELSE guest
    /\ Quit(g, s)
    /\ UNCHANGED <<hostVars, engines, faults>>

Polls(g, s) ==
    LET t == threads[g][s]
        row == NameOf[g]
        reply == PollReply(g, t)
        After(r) == [t EXCEPT !.reply = r, !.pc = "reply"]
    IN  /\ At(g, s, "poll")
        /\ IF ~Owned(g, s) THEN Quit(g, s) /\ UNCHANGED <<hostVars, faults>>
           ELSE Request(g, s, /\ rows' = IF reply.kind = "ok" THEN [rows EXCEPT ![row].online = TRUE]
                                         ELSE rows
                              /\ UNCHANGED <<host, closedRows, nonces, watchers, minted>>,
                        reply, After)
        /\ UNCHANGED <<guest, engines>>

Next1(t) == IF t.joined THEN "poll" ELSE "hello"
Heard(g, s, kind) == At(g, s, "reply") /\ threads[g][s].reply.kind = kind

HearsNothing(g, s) ==
    /\ Heard(g, s, "none")
    /\ GoesTo(g, s, Next1(threads[g][s]))
    /\ UNCHANGED <<hostVars, guest, engines, faults>>

\* No answer for three intervals: the member is told, and the polling goes on.
LostTimer(g, s) ==
    /\ Heard(g, s, "none") /\ ~threads[g][s].lost
    /\ IF Owned(g, s)
       THEN /\ guest' = [guest EXCEPT ![g].err = "lost"]
            /\ threads' = [threads EXCEPT ![g][s].lost = TRUE, ![g][s].pc = Next1(threads[g][s])]
       ELSE Quit(g, s) /\ UNCHANGED guest
    /\ UNCHANGED <<hostVars, engines, faults>>

\* Mutant: the membership ends and its engine is left running.
HearsClosedOnly(g, s) ==
    /\ Heard(g, s, "closed")
    /\ guest' = IF Owned(g, s) THEN [guest EXCEPT ![g] = OffGuest] ELSE guest
    /\ Quit(g, s)
    /\ UNCHANGED <<hostVars, engines, faults>>

HearsClosed(g, s) ==
    /\ Heard(g, s, "closed")
    /\ IF Owned(g, s)
       THEN /\ guest' = [guest EXCEPT ![g] = OffGuest]
            /\ threads' = [threads EXCEPT ![g] =
                   [Disowned(@) EXCEPT ![s].pc = "release", ![s].reply = NoReply]]
       ELSE Quit(g, s) /\ UNCHANGED guest
    /\ UNCHANGED <<hostVars, engines, faults>>

\* Mutant: the member goes on polling with the token that is no longer known.
HearsUnauthorizedAgain(g, s) ==
    /\ Heard(g, s, "unauthorized")
    /\ threads' = [threads EXCEPT ![g][s].pc = "poll", ![g][s].reply = NoReply]
    /\ UNCHANGED <<hostVars, guest, engines, faults>>

HearsUnauthorized(g, s) ==
    /\ Heard(g, s, "unauthorized")
    /\ threads' = [threads EXCEPT ![g][s].joined = FALSE, ![g][s].pc = "hello",
                                  ![g][s].reply = NoReply]
    /\ UNCHANGED <<hostVars, guest, engines, faults>>

\* A re-join that is refused ends the membership; the engine is left as it is.
HearsRefused(g, s) ==
    /\ Heard(g, s, "refused")
    /\ guest' = IF Owned(g, s)
                THEN [guest EXCEPT ![g].mode = "off", ![g].phase = "idle", ![g].err = "refused"]
                ELSE guest
    /\ Quit(g, s)
    /\ UNCHANGED <<hostVars, engines, faults>>

\* apply_roster.  What the first reply asks for besides the roster is not acted on.
HearsRoster(g, s) ==
    LET t == threads[g][s]
        m == guest[g]
        starts == t.reply.phase = "starting" /\ m.phase = "idle" /\ ~m.started
        stops == t.reply.phase = "idle" /\ m.started
        back == t.lost /\ m.err = "lost"
    IN  /\ Heard(g, s, "ok")
        /\ IF ~Owned(g, s) THEN Quit(g, s) /\ UNCHANGED guest
           ELSE /\ guest' = [guest EXCEPT ![g] =
                       [m EXCEPT !.phase = IF @ # "ready" \/ t.reply.phase = "idle"
                                           THEN t.reply.phase ELSE @,
                                 !.started = @ /\ ~stops, !.coord = t.reply.coord,
                                 !.err = IF back THEN "none" ELSE @]]
                /\ threads' = [threads EXCEPT ![g][s] =
                       [t EXCEPT !.first = FALSE, !.joined = TRUE, !.lost = FALSE,
                                 !.token = t.reply.token, !.reply = NoReply,
                                 !.pc = IF t.first THEN "poll" ELSE IF stops THEN "stop"
                                        ELSE IF starts THEN "start" ELSE "poll"]]
        /\ UNCHANGED <<hostVars, engines, faults>>

\* Leaving through the reply ends the thread, a torn-down formation does not.
StopsOwn(g, s) ==
    /\ At(g, s, "stop") \/ At(g, s, "release")
    /\ StopEngine(g)
    /\ IF At(g, s, "stop") THEN GoesTo(g, s, "poll") ELSE Quit(g, s)
    /\ UNCHANGED <<hostVars, guest, faults>>

\* Mutant: the launch is not noted on the membership.
MaterializesUnnoted(g, s) ==
    /\ At(g, s, "start")
    /\ GoesTo(g, s, IF guest[g].started THEN "poll" ELSE RoleOf(NameOf[g], guest[g].coord))
    /\ UNCHANGED <<hostVars, guest, engines, faults>>

\* materialize_engine: the flag and the role under the lock, then the launch.
Materializes(g, s) ==
    /\ At(g, s, "start")
    /\ IF guest[g].started THEN GoesTo(g, s, "poll") /\ UNCHANGED guest
       ELSE /\ guest' = [guest EXCEPT ![g].started = TRUE]
            /\ GoesTo(g, s, RoleOf(NameOf[g], guest[g].coord))
    /\ UNCHANGED <<hostVars, engines, faults>>
Launches(g, s, launched) ==
    /\ At(g, s, "coordinator") \/ At(g, s, "worker")
    /\ IF launched THEN StartEngine(g, threads[g][s].pc) /\ UNCHANGED faults
       ELSE Fault /\ UNCHANGED engines
    /\ GoesTo(g, s, "poll")
    /\ UNCHANGED <<hostVars, guest>>

-----------------------------------------------------------------------------
Users ==
    /\ Pressed
    /\ \/ \E c \in Codes : Create(c)
       \/ \E solo, launched \in BOOLEAN : Start(solo, launched)
       \/ \E n \in Names : ApproveCoordinator(n)
       \/ HostLeave
       \/ \E g \in Guests : GuestLeave(g) \/ \E c \in Codes : Join(g, c)
Unasked(Action) == Action /\ UNCHANGED commands
HostStep == BindRoster \/ RosterPortBusy \/ GraceEnds \/ \E n \in Names : SweepOffline(n)
WatcherStep(s) ==
    WatcherLooks(s) \/ WatcherAsks(s) \/ TellReady(s) \/ TellFailed(s) \/ StopFailed(s)
ThreadStep(g, s) ==
    \/ SaysHello(g, s) \/ AsksToJoin(g, s) \/ GivesUp(g, s) \/ Polls(g, s)
    \/ HearsNothing(g, s) \/ LostTimer(g, s) \/ HearsClosed(g, s) \/ HearsUnauthorized(g, s)
    \/ HearsRefused(g, s) \/ HearsRoster(g, s) \/ StopsOwn(g, s)
    \/ Materializes(g, s) \/ \E launched \in BOOLEAN : Launches(g, s, launched)
EngineStep(m) == EngineLoads(m) \/ \E how \in {"failed", "crashed"} : EngineFails(m, how)

RosterNext ==
    \/ Users
    \/ Unasked(HostStep)
    \/ \E s \in SlotsOf[Host] : Unasked(WatcherStep(s))
    \/ \E g \in Guests : \E s \in SlotsOf[g] : Unasked(ThreadStep(g, s))
    \/ \E m \in Guests \cup {Host} : Unasked(EngineStep(m))

\* The threads and the engines run; nothing is assumed of the users, and no fault is
\* owed.  A timer that is armed again and again by silence goes off.
RosterFairness ==
    /\ WF_rosterVars(Unasked(BindRoster)) /\ WF_rosterVars(Unasked(GraceEnds))
    /\ \A n \in Names : WF_rosterVars(Unasked(SweepOffline(n)))
    /\ \A s \in SlotsOf[Host] : WF_rosterVars(Unasked(WatcherStep(s)))
    /\ \A g \in Guests : \A s \in SlotsOf[g] :
          WF_rosterVars(Unasked(ThreadStep(g, s))) /\ SF_rosterVars(Unasked(LostTimer(g, s)))
    /\ \A m \in Guests \cup {Host} : WF_rosterVars(Unasked(EngineLoads(m)))

RosterSpec == RosterInit /\ [][RosterNext]_rosterVars /\ RosterFairness

-----------------------------------------------------------------------------
\* A row is a member's, under a token that was minted.
RosterTyped ==
    /\ host \in [mode : {"off", "creator", "closing"}, phase : {"idle", "starting", "ready"},
                 coord : Names \cup {Nobody}, started : BOOLEAN, code : Codes \cup {Nobody},
                 listening : BOOLEAN]
    /\ minted \in Nat
    /\ rows \in [Names -> [of : Guests, token : 1..minted, online : BOOLEAN, wants : BOOLEAN]
                          \cup {NoRow}]
    /\ engines \in [Guests \cup {Host} -> [state : Active \cup {"stopped", "crashed"},
                                           role : {"coordinator", "worker", Nobody}]]
    /\ faults \in 0..MaxFaults

\* A live token names one member: what a poll presents is its own row's or nobody's.
TokensAreOwn ==
    \A n, m \in Members : rows[n].token = rows[m].token => n = m

\* While a cluster lasts, a name in its roster stays with the machine that took it:
\* no request of another machine displaces it, whoever holds the code (join_identity).
RowKeepsItsMachine ==
    [][\A n \in Names :
          rows[n] # NoRow /\ rows'[n] # NoRow /\ host.code = host'.code
          => rows'[n].of = rows[n].of]_rosterVars

MemberThread(g) == {s \in SlotsOf[g] : LET t == threads[g][s] IN t # Ended /\ t.current /\ ~t.first}
MemberOf(g, mode, phases) ==
    /\ host.mode = mode /\ host.listening /\ host.phase \in phases
    /\ \E s \in MemberThread(g) : threads[g][s].code = host.code
Seated(g) ==
    LET row == rows[NameOf[g]] IN
    row # NoRow /\ row.of = g /\ row.online /\ \E s \in MemberThread(g) : threads[g][s].token = row.token

\* A machine that goes on polling a cluster of its code is a member there, online,
\* again and again: a lost reply, a new token, a sweep or a new cluster under the old
\* code does not shut it out.
MembersSettle ==
    \A g \in Guests : <>[]MemberOf(g, "creator", {"idle", "starting", "ready"}) => []<>Seated(g)

\* No membership of g ends while its thread is about to join or to launch, and none by
\* a refusal: what such a thread still does belongs to nobody.
NeatEndings(g) ==
    /\ guest[g].err # "refused"
    /\ \A s \in SlotsOf[g] : LET t == threads[g][s] IN
          t # Ended /\ t.pc \in {"join", "start", "coordinator", "worker"} => t.current

\* When the cluster is idle for good, no member goes on running an engine for it.
IdleRunsNothing ==
    \A g \in Guests :
        []NeatEndings(g) /\ <>[]MemberOf(g, "creator", {"idle"})
        => <>[](engines[g].state \notin Active)

\* When the host is gone for good, having told its members and nothing being lost,
\* no machine stays a member of it, or goes on running an engine for it.
ClosedLetsGo ==
    \A g \in Guests :
        [](NeatEndings(g) /\ faults = 0 /\ (closedRows # {} => host.mode # "off"))
        /\ <>[](host.mode = "off")
        => []<>(MemberThread(g) = {} /\ engines[g].state \notin Active)

\* A member's engine follows its cluster: down when the cluster is idle, gone with it.
EnginesFollow == IdleRunsNothing /\ ClosedLetsGo

\* A roster settles: whoever goes on polling is in it, and the engines follow it.
RosterSettles == MembersSettle /\ EnginesFollow
=============================================================================
