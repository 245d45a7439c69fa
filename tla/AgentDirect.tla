---------------------------- MODULE AgentDirect ----------------------------
(***************************************************************************)
(* The platform agent where it can be reached from outside                 *)
(* (src/src/tools/platform_agent.c, main(), handle_conn(), handle_infer(), *)
(* process_sealed()): what it refuses before it listens, the accept loop   *)
(* with its heartbeats and its reports of cached prefixes, one thread a    *)
(* connection as long as there is room, and one sealed job a connection.   *)
(*                                                                         *)
(* The relay loop is AgentDelivery's, registration and identity are        *)
(* AgentListing's, the ticket a job is posted with is AdmissionChannel's.  *)
(* A session is named by the connection that brought it, and a connection  *)
(* is used once.                                                           *)
(***************************************************************************)
EXTENDS Integers, FiniteSets

CONSTANTS Conns,    \* connections that consumers may open
          Inflight, \* AGENT_MAX_INFLIGHT (16)
          Failures, \* statuses beside 200 that a coordinator answers with
          Nobody    \* no connection

ASSUME DirectAssumption ==
    IsFiniteSet(Conns) /\ Inflight \in Nat /\ Failures \subseteq 400..599 /\ Nobody \notin Conns

VARIABLES agent,    \* the main thread: where it is, its exit code, whom it serves itself, what it
                    \* reports, how it was told to run, and its key file
          conns,    \* the connections
          inflight, \* g_inflight
          prefix    \* g_prefix: the session served last, whether it is new, and what the platform was told

directVars == <<agent, conns, inflight, prefix>>
Stages == {"arguments", "key", "socket", "engine", "register", "listen",
           "loop", "report", "posting", "accept", "placing", "inline", "relay", "exited"}
Kinds == {"other", "job", "stream"}
KeyFiles == {"not given", "absent", "short", "whole", "unreadable"}
\* What the coordinator said of a job: NotAsked, Silence (no answer that can be read), or a status.
NotAsked == 0
Silence == 1
Idle == [pc |-> "away", kind |-> "other", long |-> FALSE, by |-> "none", gone |-> FALSE,
         head |-> FALSE, said |-> NotAsked, whole |-> FALSE, status |-> 0]

DirectInit ==
    /\ agent \in [pc : {"arguments"}, code : {0}, serves : {Nobody}, folded : {Nobody},
                  relay : BOOLEAN, listed : BOOLEAN, reports : BOOLEAN, key : KeyFiles]
    /\ agent.relay => agent.listed
    /\ conns = [c \in Conns |-> Idle]
    /\ inflight = 0
    /\ prefix = [live |-> Nobody, dirty |-> FALSE, told |-> Nobody]

-----------------------------------------------------------------------------
\* What comes before the first connection.  The coordinator's socket is waited for as long as it
\* takes, TCP is no substitute; an engine is waited for as long as AGENT_READY_WAIT_MAX_SECS.
Goes(pc) == agent' = [agent EXCEPT !.pc = pc]
Exits(exit) == agent' = [agent EXCEPT !.pc = "exited", !.code = exit]
Unserved == UNCHANGED <<conns, inflight, prefix>>

\* A helper, a self-test, a question about the version or a command line that makes no sense.
ReadCommandLine == agent.pc = "arguments" /\ ((\E exit \in 0..3 : Exits(exit)) \/ Goes("key")) /\ Unserved
\* load_or_make_key(): a file that is not a whole key is refused, never replaced; where there is
\* none a key is made and saved, and one that could not be saved whole is not served.
LoadKey ==
    /\ agent.pc = "key"
    /\ CASE agent.key = "whole" -> Goes("socket")
         [] agent.key = "short" -> Exits(1)
         [] agent.key = "unreadable" -> Exits(1)
         [] agent.key = "not given" -> Goes("socket") \/ Exits(1)
         [] agent.key = "absent" ->
              \/ agent' = [agent EXCEPT !.pc = "socket", !.key = "whole"]
              \/ \E left \in {"absent", "short"} : agent' = [agent EXCEPT !.pc = "exited", !.code = 1, !.key = left]
    /\ Unserved
\* A socket is waited for as long as it takes; an address that is none ends the agent.
AwaitSocket == agent.pc = "socket" /\ (Exits(2) \/ Goes(IF agent.listed THEN "engine" ELSE "listen")) /\ Unserved
\* No engine in time, one that is too small, or one that does not say what it serves is not listed.
AwaitEngine == agent.pc = "engine" /\ (Exits(4) \/ Goes("register")) /\ Unserved
\* A platform that refuses for good ends the agent; any other failure looks at the engine again.
Register ==
    /\ agent.pc = "register"
    /\ Exits(3) \/ Goes("engine") \/ Goes(IF agent.relay THEN "relay" ELSE "listen")
    /\ Unserved
Listen == agent.pc = "listen" /\ (Exits(1) \/ Goes("loop")) /\ Unserved

-----------------------------------------------------------------------------
\* One round of the loop: a heartbeat if one is due and an engine is there (AgentListing), a
\* report if a session is new, and at most one connection.
Beat == agent.pc = "loop" /\ Goes("report") /\ Unserved
Report ==
    /\ agent.pc = "report"
    /\ IF ~agent.listed \/ ~prefix.dirty THEN Goes("accept") /\ UNCHANGED prefix
       ELSE IF agent.reports
       THEN agent' = [agent EXCEPT !.pc = "posting", !.folded = prefix.live] /\ UNCHANGED prefix
       ELSE Goes("accept") /\ prefix' = [prefix EXCEPT !.dirty = FALSE]
    /\ UNCHANGED <<conns, inflight>>
\* The lock is not held while the report is on its way: what was served in the meantime is taken
\* to be reported too, though it was not.
Reported ==
    /\ agent.pc = "posting"
    /\ agent' = [agent EXCEPT !.pc = "accept", !.folded = Nobody]
    /\ \/ prefix' = [prefix EXCEPT !.dirty = FALSE, !.told = agent.folded]
       \/ UNCHANGED prefix
    /\ UNCHANGED <<conns, inflight>>
Nothing == agent.pc = "accept" /\ (Goes("loop") \/ Exits(0)) /\ Unserved

\* A place is taken for the connection if there is one.  Where there is none, and where a thread
\* cannot be had for the place, which is then given back, the main thread serves it itself.
ByThread(c) == [conns EXCEPT ![c].pc = "reading", ![c].by = "thread"]
ByMain(c) == [conns EXCEPT ![c].pc = "reading", ![c].by = "main"]
Serves(c) == agent' = [agent EXCEPT !.pc = "inline", !.serves = c]
Accept(c) ==
    /\ agent.pc = "accept" /\ conns[c].pc = "dialed"
    /\ IF inflight < Inflight
       THEN inflight' = inflight + 1 /\ conns' = [conns EXCEPT ![c].pc = "accepted"] /\ Goes("placing")
       ELSE conns' = ByMain(c) /\ Serves(c) /\ UNCHANGED inflight
    /\ UNCHANGED prefix
\* Mutant: a thread that could not be started keeps its place.
PlaceForgetful(c) ==
    /\ agent.pc = "placing" /\ conns[c].pc = "accepted"
    /\ \/ conns' = ByThread(c) /\ Goes("loop")
       \/ conns' = ByMain(c) /\ Serves(c)
    /\ UNCHANGED <<inflight, prefix>>
Place(c) ==
    /\ agent.pc = "placing" /\ conns[c].pc = "accepted"
    /\ \/ conns' = ByThread(c) /\ Goes("loop") /\ UNCHANGED inflight
       \/ conns' = ByMain(c) /\ Serves(c) /\ inflight' = inflight - 1
    /\ UNCHANGED prefix

-----------------------------------------------------------------------------
\* external: a consumer connects, and may leave; what it leaves before is noticed when the
\* coordinator is waited for.
Dial(c) ==
    /\ conns[c].pc = "away" /\ agent.pc # "exited"
    /\ conns' = [conns EXCEPT ![c].pc = "dialed"]
    /\ UNCHANGED <<agent, inflight, prefix>>
Leave(c) ==
    /\ conns[c].pc = "asked" /\ ~conns[c].gone
    /\ conns' = [conns EXCEPT ![c].gone = TRUE]
    /\ UNCHANGED <<agent, inflight, prefix>>

\* A process that has ended takes its threads along.
Alive(c) == agent.pc # "exited" /\ conns[c].by # "none"
Tell(c, status) == conns' = [conns EXCEPT ![c].pc = "answered", ![c].status = status]

\* handle_conn(): bad framing, an empty job, the health question and any other path are answered
\* at once; a job may be long enough to leave whole blocks of a prefix.
ReadRequest(c) ==
    /\ Alive(c) /\ conns[c].pc = "reading"
    /\ \/ \E status \in {400, 413, 200, 404} : Tell(c, status)
       \/ \E kind \in {"job", "stream"}, long \in BOOLEAN :
             conns' = [conns EXCEPT ![c].pc = "opening", ![c].kind = kind, ![c].long = long]
    /\ UNCHANGED <<agent, inflight, prefix>>
\* process_sealed(): an envelope that does not open, does not inflate or holds no request is the
\* consumer's fault, and memory is ours; then the coordinator is asked.
OpenEnvelope(c) ==
    /\ Alive(c) /\ conns[c].pc = "opening"
    /\ \/ Tell(c, 400) \/ Tell(c, 500)
       \/ conns' = [conns EXCEPT ![c].pc = "asked"]
    /\ UNCHANGED <<agent, inflight, prefix>>
\* The head of a stream goes out with its first frame.
FirstFrame(c) ==
    /\ Alive(c) /\ conns[c].pc = "asked" /\ conns[c].kind = "stream" /\ ~conns[c].head
    /\ conns' = [conns EXCEPT ![c].head = TRUE]
    /\ UNCHANGED <<agent, inflight, prefix>>

\* The session that was served is what the coordinator has cached.
Commit(c) == prefix' = IF conns[c].long THEN [prefix EXCEPT !.live = c, !.dirty = TRUE] ELSE prefix
\* What the consumer is told where the coordinator gave no whole answer: what it says of the one
\* request, 429 among it, and 503 are passed on as they are.
Passed == 400..499 \cup {503}
Blame(c, said) ==
    CASE said = Silence /\ conns[c].gone -> 499
      [] said \in Passed -> said
      [] OTHER -> 502
\* An error is no answer any more when the head of a stream is out: the stream just ends.
Refuse(c, said) ==
    conns' = [conns EXCEPT ![c].pc = "answered", ![c].said = said,
                           ![c].status = IF conns[c].head THEN 200 ELSE Blame(c, said)]
CoordinatorFails(c) ==
    /\ Alive(c) /\ conns[c].pc = "asked"
    /\ \E said \in Failures \cup {Silence} :
          /\ conns[c].head => said = Silence
          /\ Refuse(c, said)
    /\ UNCHANGED <<agent, inflight, prefix>>
\* Mutant: a stream that was cut is a session too.
StreamEndsAnyway(c) ==
    /\ Alive(c) /\ conns[c].pc = "asked" /\ conns[c].kind = "stream"
    /\ \/ Refuse(c, 200)
       \/ conns' = [conns EXCEPT ![c].pc = "answered", ![c].said = 200, ![c].whole = TRUE, ![c].head = TRUE, ![c].status = 200]
    /\ Commit(c)
    /\ UNCHANGED <<agent, inflight>>
\* A stream is whole when its end came and every frame was sealed.
StreamEnds(c) ==
    /\ Alive(c) /\ conns[c].pc = "asked" /\ conns[c].kind = "stream"
    /\ \/ Refuse(c, 200) /\ UNCHANGED prefix
       \/ /\ conns' = [conns EXCEPT ![c].pc = "answered", ![c].said = 200, ![c].whole = TRUE, ![c].head = TRUE, ![c].status = 200]
          /\ Commit(c)
    /\ UNCHANGED <<agent, inflight>>
\* An answer without text and without tool calls is none; one that cannot be built or sealed is ours.
AnswerComes(c) ==
    /\ Alive(c) /\ conns[c].pc = "asked" /\ conns[c].kind = "job"
    /\ \/ Refuse(c, 200)
       \/ conns' = [conns EXCEPT ![c].pc = "sealing", ![c].said = 200, ![c].whole = TRUE]
    /\ UNCHANGED <<agent, inflight, prefix>>
\* The session counts once the reply is sealed, though the frame around it may still fail.
SealReply(c) ==
    /\ Alive(c) /\ conns[c].pc = "sealing"
    /\ \/ Tell(c, 500) /\ UNCHANGED prefix
       \/ Tell(c, 200) /\ Commit(c)
       \/ Tell(c, 500) /\ Commit(c)
    /\ UNCHANGED <<agent, inflight>>

\* The connection is closed: a thread gives its place back, the main thread goes on.
\* Mutant: whoever served it gives a place back.
ReturnTwice(c) ==
    /\ Alive(c) /\ conns[c].pc = "answered"
    /\ conns' = [conns EXCEPT ![c].pc = "closed"]
    /\ inflight' = inflight - 1
    /\ agent' = IF conns[c].by = "main" THEN [agent EXCEPT !.pc = "loop", !.serves = Nobody] ELSE agent
    /\ UNCHANGED prefix
Return(c) ==
    /\ Alive(c) /\ conns[c].pc = "answered"
    /\ conns' = [conns EXCEPT ![c].pc = "closed"]
    /\ IF conns[c].by = "main"
       THEN agent' = [agent EXCEPT !.pc = "loop", !.serves = Nobody] /\ UNCHANGED inflight
       ELSE inflight' = inflight - 1 /\ UNCHANGED agent
    /\ UNCHANGED prefix

StartStep == ReadCommandLine \/ LoadKey \/ AwaitSocket \/ AwaitEngine \/ Register \/ Listen
LoopStep == Beat \/ Report \/ Reported \/ Nothing
ConnStep(c) ==
    \/ Accept(c) \/ Place(c) \/ ReadRequest(c) \/ OpenEnvelope(c) \/ FirstFrame(c) \/ CoordinatorFails(c)
    \/ StreamEnds(c) \/ AnswerComes(c) \/ SealReply(c) \/ Return(c)
DirectNext == StartStep \/ LoopStep \/ \E c \in Conns : Dial(c) \/ Leave(c) \/ ConnStep(c)
DirectSpec == DirectInit /\ [][DirectNext]_directVars

-----------------------------------------------------------------------------
Places == {"away", "dialed", "accepted", "reading", "opening", "asked", "sealing", "answered", "closed"}
Hands == {"none", "thread", "main"}
Statuses == 0..599
Conn == [pc : Places, kind : Kinds, long : BOOLEAN, by : Hands, gone : BOOLEAN,
         head : BOOLEAN, said : Statuses, whole : BOOLEAN, status : Statuses]
Agent == [pc : Stages, code : 0..4, serves : Conns \cup {Nobody}, folded : Conns \cup {Nobody},
          relay : BOOLEAN, listed : BOOLEAN, reports : BOOLEAN, key : KeyFiles]
\* The type invariant.
DirectTypeOK ==
    /\ agent \in Agent
    /\ conns \in [Conns -> Conn]
    /\ inflight \in Nat
    /\ prefix \in [live : Conns \cup {Nobody}, dirty : BOOLEAN, told : Conns \cup {Nobody}]

Threads == {c \in Conns : conns[c].by = "thread" /\ conns[c].pc # "closed"}
\* g_inflight counts the threads there are, and the one about to be started, never more than
\* there is room for, whatever could not be started: "The agent must not stack a third rejection
\* semantics on top", so a place lost would sooner or later put every job on the accept thread.
PlacesAreThreads ==
    /\ inflight = Cardinality(Threads) + (IF agent.pc = "placing" THEN 1 ELSE 0)
    /\ inflight <= Inflight
\* The main thread serves one connection at a time, and none while it is in its loop.
MainServesOne ==
    \A c \in Conns :
        conns[c].by = "main" /\ conns[c].pc # "closed" <=> agent.serves = c
\* What is reported as cached is a session the coordinator served to its end; an error, an
\* empty answer or a stream that was cut never becomes one.
ReportedIsServed ==
    \A c \in {prefix.live, agent.folded, prefix.told} \ {Nobody} : conns[c].whole /\ conns[c].said = 200
\* "Busy" is not "broken": what the coordinator says of one request, or that it is loading,
\* reaches the consumer as it was said, and is never lost behind a stream that had begun.
BusyIsNotBroken == \A c \in Conns : conns[c].said \in Passed => conns[c].status = conns[c].said
\* A connection that is closed was answered.
ClosedIsAnswered == \A c \in Conns : conns[c].pc = "closed" => conns[c].status # 0
\* Whoever is listed, and whoever listens, has a key that the next start will find again, unless
\* it was told to keep none.
Started == {"engine", "register", "listen", "loop", "report", "posting", "accept", "placing", "inline", "relay"}
KeyIsKept == agent.pc \in Started => agent.key \in {"whole", "not given"}
\* What the agent does with the connections it takes.
JobsAreServed ==
    /\ PlacesAreThreads /\ MainServesOne /\ ReportedIsServed
    /\ BusyIsNotBroken /\ ClosedIsAnswered /\ KeyIsKept
=============================================================================
