----------------------------- MODULE IntakePool -----------------------------
(***************************************************************************)
(* How a connection to a llama.cpp coordinator reaches a thread, and how   *)
(* the process stops (src/src/coord/coord_main.c): the accept loop parks a *)
(* connection until its headers are complete, then hands it to the request *)
(* pool or, for a bodyless dashboard read, to the control pool; workers    *)
(* take connections in order; a stop signal ends the intake, and the pools *)
(* drain before the process goes.                                          *)
(*                                                                         *)
(* The engine behind a chat may take for ever; a client may stop sending   *)
(* anywhere.  A deadline is an action that may fire at any time and, time  *)
(* passing, does fire in the end.                                          *)
(***************************************************************************)
EXTENDS Integers, Sequences, FiniteSets

CONSTANTS Chats,          \* connections that carry a request with a body
          Reads,          \* connections that carry a dashboard read
          Workers,        \* LLAMA_POOL_MAX_THREADS (16)
          ControlWorkers  \* LLAMA_CONTROL_THREADS (4)

ASSUME IntakeAssumption ==
    /\ IsFiniteSet(Chats \cup Reads)
    /\ Chats \cap Reads = {}
    /\ Workers \in Nat \ {0}
    /\ ControlWorkers \in Nat \ {0}

Conns == Chats \cup Reads
Pools == {"llpool", "llcontrol"}

VARIABLES conn,   \* per connection: where it is in the coordinator
          sent,   \* how much of its request has arrived
          gone,   \* clients that closed their end
          queue,  \* per pool: connections pushed and not yet taken
          intake, \* the accept loop runs
          stop,   \* pool->stop, set under the pool's lock
          live,   \* per pool: worker threads that have not returned
          exited  \* the process is past its joins

vars == <<conn, sent, gone, queue, intake, stop, live, exited>>

Taken(p) == {c \in Conns : conn[c] \in {<<p, "upload">>, <<p, "engine">>}}
Size(p) == IF p = "llpool" THEN Workers ELSE ControlWorkers

Init ==
    /\ conn = [c \in Conns |-> <<"out", "none">>]
    /\ sent = [c \in Conns |-> "nothing"]
    /\ gone = {}
    /\ queue = [p \in Pools |-> <<>>]
    /\ intake = TRUE
    /\ stop = FALSE
    /\ live = [p \in Pools |-> Size(p)]
    /\ exited = FALSE

-----------------------------------------------------------------------------
\* The client connects, sends, stalls, or closes: whenever it likes.
Send(c) ==
    /\ conn[c][1] \notin {"out", "closed"}
    /\ c \notin gone
    /\ \/ sent[c] = "nothing" /\ sent' = [sent EXCEPT ![c] = "headers"]
       \/ c \in Chats /\ sent[c] = "headers" /\ sent' = [sent EXCEPT ![c] = "all"]
    /\ UNCHANGED <<conn, gone, queue, intake, stop, live, exited>>

HangUp(c) ==
    /\ conn[c][1] \notin {"out", "closed"}
    /\ c \notin gone
    /\ gone' = gone \cup {c}
    /\ UNCHANGED <<conn, sent, queue, intake, stop, live, exited>>

-----------------------------------------------------------------------------
\* The accept loop: one connection joins header_waiting.
Accept(c) ==
    /\ intake
    /\ conn[c] = <<"out", "none">>
    /\ conn' = [conn EXCEPT ![c] = <<"header", "none">>]
    /\ UNCHANGED <<sent, gone, queue, intake, stop, live, exited>>

Close(c, how) == conn' = [conn EXCEPT ![c] = <<"closed", how>>]

\* Mutant: one pool for everything.
PoolShared(c) == "llpool"

\* llama_control_read(): a complete bodyless GET of a dashboard path.
PoolFor(c) == IF c \in Reads THEN "llcontrol" ELSE "llpool"

\* llama_intake_drain(), on each of the loop's ticks.
Push(c) ==
    /\ intake
    /\ conn[c][1] = "header"
    /\ sent[c] \in {"headers", "all"}
    /\ conn' = [conn EXCEPT ![c] = <<"pushed", "none">>]
    /\ queue' = [queue EXCEPT ![PoolFor(c)] = Append(@, c)]
    /\ UNCHANGED <<sent, gone, intake, stop, live, exited>>

\* Mutant: only a closed socket ends the wait for the headers.
HeaderUnbounded(c) ==
    /\ intake
    /\ conn[c][1] = "header"
    /\ sent[c] = "nothing"
    /\ c \in gone
    /\ Close(c, "left")
    /\ UNCHANGED <<sent, gone, queue, intake, stop, live, exited>>

HeaderLost(c) ==
    /\ intake
    /\ conn[c][1] = "header"
    /\ sent[c] = "nothing"
    /\ \/ c \in gone /\ Close(c, "left")
       \/ Close(c, "408")
    /\ UNCHANGED <<sent, gone, queue, intake, stop, live, exited>>

-----------------------------------------------------------------------------
(* llama_pool_worker()                                                      *)
\* A thread is free once it has closed the connection it took before.
Take(p) ==
    /\ queue[p] # <<>>
    /\ Cardinality(Taken(p)) < live[p]
    /\ conn' = [conn EXCEPT ![Head(queue[p])] = <<p, "upload">>]
    /\ queue' = [queue EXCEPT ![p] = Tail(@)]
    /\ UNCHANGED <<sent, gone, intake, stop, live, exited>>

\* The rest of the request, or LLAMA_HEADER_WAIT_MS without any of it.
Upload(c) ==
    /\ conn[c][2] = "upload"
    /\ \/ c \in Reads /\ Close(c, "answered")
       \/ c \in Chats /\ sent[c] = "headers" /\ Close(c, "timeout")
       \/ sent[c] = "all" /\ conn' = [conn EXCEPT ![c] = <<conn[c][1], "engine">>]
    /\ UNCHANGED <<sent, gone, queue, intake, stop, live, exited>>

EngineEnds(c) ==
    /\ conn[c][2] = "engine"
    /\ Close(c, "answered")
    /\ UNCHANGED <<sent, gone, queue, intake, stop, live, exited>>

Abandoned(c) == c \in gone /\ EngineEnds(c)

\* Mutant: the stop flag alone ends the thread.
ReturnAtOnce(p) ==
    /\ stop
    /\ Cardinality(Taken(p)) < live[p]
    /\ live' = [live EXCEPT ![p] = @ - 1]
    /\ UNCHANGED <<conn, sent, gone, queue, intake, stop, exited>>

\* Woken with nothing to take and the stop flag up: the thread returns.
Return(p) ==
    /\ stop
    /\ queue[p] = <<>>
    /\ Cardinality(Taken(p)) < live[p]
    /\ live' = [live EXCEPT ![p] = @ - 1]
    /\ UNCHANGED <<conn, sent, gone, queue, intake, stop, exited>>

-----------------------------------------------------------------------------
\* A signal, a fatal engine condition, or a failing accept ends the loop.
StopIntake ==
    /\ intake
    /\ intake' = FALSE
    /\ UNCHANGED <<conn, sent, gone, queue, stop, live, exited>>

StopPools ==
    /\ ~intake
    /\ ~stop
    /\ stop' = TRUE
    /\ conn' = [c \in Conns |-> IF conn[c][1] = "header" THEN <<"closed", "dropped">> ELSE conn[c]]
    /\ UNCHANGED <<sent, gone, queue, intake, live, exited>>

\* Every worker joined; what is left in a queue is closed unanswered.
Exit ==
    /\ stop
    /\ ~exited
    /\ \A p \in Pools : live[p] = 0
    /\ exited' = TRUE
    /\ conn' = [c \in Conns |-> IF conn[c][1] = "pushed" THEN <<"closed", "dropped">> ELSE conn[c]]
    /\ queue' = [p \in Pools |-> <<>>]
    /\ UNCHANGED <<sent, gone, intake, stop, live>>

Loop(c) == Push(c) \/ HeaderLost(c)
Worker(c) == Upload(c) \/ Abandoned(c)
Stopping == StopPools \/ Exit \/ \E p \in Pools : Return(p)

Next ==
    \/ \E c \in Conns : Send(c) \/ HangUp(c) \/ Accept(c) \/ Loop(c) \/ Worker(c) \/ EngineEnds(c)
    \/ \E p \in Pools : Take(p)
    \/ StopIntake
    \/ Stopping

Spec == Init /\ [][Next]_vars

\* Threads run and deadlines pass; no client, and no engine, owes anything.
IntakeFairness ==
    /\ \A c \in Conns : WF_vars(Loop(c)) /\ WF_vars(Worker(c))
    /\ \A p \in Pools : WF_vars(Take(p))
    /\ WF_vars(Stopping)

-----------------------------------------------------------------------------
\* The type invariant: a connection is pushed once (llama_pool_push), so a queue is
\* never longer than the connections there are.
TypeOK ==
    /\ conn \in [Conns -> {"out", "header", "pushed"} \X {"none"}
                          \cup Pools \X {"upload", "engine"}
                          \cup {"closed"} \X {"left", "408", "timeout", "answered", "dropped"}]
    /\ sent \in [Conns -> {"nothing", "headers", "all"}]
    /\ gone \subseteq Conns
    /\ queue \in [Pools -> Seq(Conns)]
    /\ \A p \in Pools : Len(queue[p]) <= Cardinality(Conns)
    /\ intake \in BOOLEAN
    /\ stop \in BOOLEAN
    /\ \A p \in Pools : live[p] \in 0..Size(p)
    /\ exited \in BOOLEAN

\* A worker returns only when there is nothing left to take, so when the last one
\* has, every connection that was handed to the pool was served, even those
\* taken after the stop; none is left for Exit to close unanswered, and the
\* sidecar is not torn down under a thread that still serves.
HandedOverIsServed ==
    \A p \in Pools : live[p] = 0 => queue[p] = <<>> /\ Taken(p) = {}

\* Dashboard reads are answered while every chat worker waits on an engine that
\* never answers: "queued chat requests must not consume the workers that
\* answer health/stats".
ReadsAreAnswered ==
    \A c \in Reads : conn[c][1] = "pushed" ~> conn[c] = <<"closed", "answered">>

\* No connection is held for ever, whatever its client does or fails to do, and
\* a coordinator that was told to stop does stop, provided the engine ends.
EveryConnectionCloses ==
    (\A c \in Conns : WF_vars(EngineEnds(c))) =>
        /\ \A c \in Conns : conn[c][1] = "header" ~> conn[c][1] = "closed"
        /\ ~intake ~> exited
=============================================================================
