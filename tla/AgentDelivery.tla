--------------------------- MODULE AgentDelivery ---------------------------
(***************************************************************************)
(* One delivery of a job to a relay agent (src/src/tools/platform_agent.c):*)
(* the receipt is confirmed, a watch thread keeps confirming it under the  *)
(* lease the platform advertises, the main thread infers, uploads sealed   *)
(* frames in batches, and uploads the result; then the watch is joined.    *)
(*                                                                         *)
(* The platform is external: it is modelled from what the agent asks of it *)
(* and how it reads the answers.  A request that was sent may be handled   *)
(* at any later time and any number of times; the answer may be late or    *)
(* lost.  Envelopes are left out: a frame is its sequence number.          *)
(***************************************************************************)
EXTENDS Integers, Sequences, FiniteSets

CONSTANTS Lease,     \* provider_lease_ms
          Deadlines, \* the delivery deadlines a job may come with
          BatchMax,  \* frames of one upload (128)
          MaxFrames, \* bound on the frames of one answer
          MaxNow     \* bound on the clock

ASSUME DeliveryAssumption ==
    /\ Lease \in Nat \ {0}
    /\ Deadlines \subseteq Nat \ {0}
    /\ BatchMax \in Nat \ {0}
    /\ MaxFrames \in Nat
    /\ MaxNow \in Nat

VARIABLES now,    \* idletoken_platform_now_ms()
          job,    \* what the poll returned
          plat,   \* external: the platform's view of the delivery
          sent,   \* every request sent so far
          main,   \* the relay thread
          stream, \* agent_stream: sealed frames on their way
          watch   \* relay_watch and the thread that runs relay_watch_loop()

vars == <<now, job, plat, sent, main, stream, watch>>

\* Answers: 2xx with "ok" and the lease it advertises (0: none, -1: malformed), a
\* definitive refusal, any other failure, or nothing in time.
Reply(code) == [code |-> code, lease |-> 0]
Ok == {[code |-> "ok", lease |-> l] : l \in {Lease, 0, -1}}
Failed == {Reply("gone"), Reply("error")}
Replies == Ok \cup Failed \cup {Reply("none")}
Awaiting == Reply("awaiting")

AckRequest == [kind |-> "ack", offset |-> 0, frames |-> <<>>, answer |-> "none"]
FramesRequest == [kind |-> "frames", offset |-> stream.offset, frames |-> stream.batch, answer |-> "none"]
ResultRequest == [kind |-> "result", offset |-> stream.seq, frames |-> <<>>, answer |-> main.answer]

\* What a thread that waits for an answer has asked.
MainRequest == CASE main.pc = "confirming" -> AckRequest
                 [] main.pc = "frames" -> FramesRequest
                 [] main.pc = "result" -> ResultRequest

Init ==
    /\ now = 0
    /\ job \in [expires : Deadlines, stream : BOOLEAN]
    /\ plat = [state |-> "offered", lease |-> 0, frames |-> <<>>, answer |-> "none", total |-> 0]
    /\ sent = {}
    /\ main = [pc |-> "received", started |-> 0, answer |-> "none", reply |-> Awaiting]
    /\ stream = [seq |-> 0, offset |-> 0, batch |-> <<>>, last |-> FALSE]
    /\ watch = [pc |-> "none", started |-> 0, read |-> 0, reply |-> Awaiting,
                lease |-> 0, cancelled |-> FALSE, stopped |-> FALSE]

-----------------------------------------------------------------------------
(***************************************************************************)
(* The platform and the network between                                    *)
(***************************************************************************)
Tick ==
    /\ now < MaxNow
    /\ now' = now + 1
    /\ UNCHANGED <<job, plat, sent, main, stream, watch>>

\* The consumer leaves, or the job expires.
Withdraw ==
    /\ plat.state \in {"offered", "acked"}
    /\ plat' = [plat EXCEPT !.state = "withdrawn", !.lease = 0]
    /\ UNCHANGED <<now, job, sent, main, stream, watch>>

\* Not confirmed, or not for a whole lease: the job goes to another provider.
Redispatch ==
    /\ \/ plat.state = "offered"
       \/ plat.state = "acked" /\ now >= plat.lease
    /\ plat' = [plat EXCEPT !.state = "elsewhere", !.lease = 0]
    /\ UNCHANGED <<now, job, sent, main, stream, watch>>

\* Confirmations stop one lease before the bound on the clock, so each can lapse.
Confirm(reply) ==
    /\ plat.state \in {"offered", "acked"}
    /\ now + Lease <= MaxNow
    /\ plat' = [plat EXCEPT !.state = "acked", !.lease = now + Lease]
    /\ reply \in Ok

\* A batch is stored at its offset; one already stored is acknowledged again.
Store(q, reply) ==
    /\ plat.state = "acked"
    /\ q.offset <= Len(plat.frames)
    /\ plat' = IF q.offset + Len(q.frames) <= Len(plat.frames) THEN plat
               ELSE [plat EXCEPT !.frames = SubSeq(@, 1, q.offset) \o q.frames]
    /\ reply \in Ok

\* The first result consumes the receipt.
Consume(q, reply) ==
    /\ plat.state = "acked"
    /\ plat' = [plat EXCEPT !.state = "answered", !.lease = 0, !.answer = q.answer, !.total = q.offset]
    /\ reply \in Ok

Handle(q, reply) ==
    \/ q.kind = "ack" /\ Confirm(reply)
    \/ q.kind = "frames" /\ Store(q, reply)
    \/ q.kind = "result" /\ Consume(q, reply)
    \/ reply \in Failed /\ UNCHANGED plat

MainWaits == main.pc \in {"confirming", "frames", "result"} /\ main.reply = Awaiting
WatchWaits == watch.pc = "confirming" /\ watch.reply = Awaiting

ServeMain ==
    /\ MainWaits
    /\ \E reply \in Replies : Handle(MainRequest, reply) /\ main' = [main EXCEPT !.reply = reply]
    /\ UNCHANGED <<now, job, sent, stream, watch>>

ServeWatch ==
    /\ WatchWaits
    /\ \E reply \in Replies : Handle(AckRequest, reply) /\ watch' = [watch EXCEPT !.reply = reply]
    /\ UNCHANGED <<now, job, sent, main, stream>>

\* Handled, but nobody waits for the answer any more, or it is lost.
ServeLate ==
    /\ \E q \in sent, reply \in Replies : Handle(q, reply)
    /\ plat' # plat
    /\ UNCHANGED <<now, job, sent, main, stream, watch>>

-----------------------------------------------------------------------------
\* Mutant: only the job's own deadline ends an unreachable provider's work.
WatchCancelledUnleased == watch.cancelled \/ now >= job.expires

\* watch_cancelled()
WatchCancelled ==
    \/ watch.cancelled
    \/ now >= job.expires
    \/ watch.lease > 0 /\ now >= watch.lease

\* g_request_cancelled: set while a watch runs.
Cancelled == watch.pc # "none" /\ WatchCancelled

(***************************************************************************)
(* relay_acknowledge() and the start of the watch                          *)
(***************************************************************************)
MainGoto(pc) == main' = [main EXCEPT !.pc = pc, !.started = 0, !.reply = Awaiting]
Answer(how) == main' = [main EXCEPT !.pc = "posting", !.answer = how, !.started = 0, !.reply = Awaiting]
MainSends(pc, q) ==
    /\ main' = [main EXCEPT !.pc = pc, !.started = IF q = AckRequest THEN now ELSE 0]
    /\ sent' = sent \cup {q}

Acknowledge ==
    /\ main.pc = "received"
    /\ IF now < job.expires THEN MainSends("confirming", AckRequest)
       ELSE MainGoto("idle") /\ UNCHANGED sent
    /\ UNCHANGED <<now, job, plat, stream, watch>>

\* The whole round trip is charged to the lease; the deadline bounds it.
LeaseFrom(start) == IF start + Lease > job.expires THEN job.expires ELSE start + Lease

\* A confirmation whose lease is malformed or already over is not worked on.
Acknowledged ==
    LET lease == IF main.reply.lease = 0 THEN 0 ELSE LeaseFrom(main.started)
        usable == main.reply.lease >= 0 /\ (lease = 0 \/ lease > now)
    IN /\ main.pc = "confirming"
       /\ main.reply # Awaiting
       /\ CASE main.reply.code = "ok" /\ usable ->
                 \/ MainGoto("inferring") /\ watch' = [watch EXCEPT !.pc = "test", !.lease = lease]
                 \/ Answer("error") /\ UNCHANGED watch
            [] main.reply.code = "gone" \/ (main.reply.code = "ok" /\ ~usable) ->
                 MainGoto("idle") /\ UNCHANGED watch
            [] OTHER -> MainGoto("received") /\ UNCHANGED watch
       /\ UNCHANGED <<now, job, plat, sent, stream>>

(***************************************************************************)
(* process_sealed(): the engine's answer, whole or as a stream             *)
(***************************************************************************)
WholeAnswer ==
    /\ main.pc = "inferring"
    /\ ~job.stream
    /\ Answer("sealed")
    /\ UNCHANGED <<now, job, plat, sent, stream, watch>>

\* agent_stream_line(): a delta is sealed and batched; a full batch goes first.
Delta ==
    /\ main.pc = "inferring"
    /\ job.stream
    /\ stream.seq < MaxFrames
    /\ Len(stream.batch) < BatchMax
    /\ stream' = [stream EXCEPT !.seq = @ + 1, !.batch = Append(@, stream.seq)]
    /\ UNCHANGED <<now, job, plat, sent, main, watch>>

\* It is full, or 100 ms passed since the last one.
BatchDue ==
    /\ main.pc = "inferring"
    /\ stream.batch # <<>>
    /\ MainGoto("flushing")
    /\ UNCHANGED <<now, job, plat, sent, stream, watch>>

\* Mutant: the terminal frame is sealed over frames that were not uploaded.
StreamDoneUnflushed ==
    /\ main.pc = "inferring"
    /\ job.stream
    /\ Answer("stream")
    /\ UNCHANGED <<now, job, plat, sent, stream, watch>>

\* [DONE], after the usage line: what is left is uploaded, then the end is sealed.
StreamDone ==
    /\ main.pc = "inferring"
    /\ job.stream
    /\ IF stream.batch = <<>> THEN Answer("stream") /\ UNCHANGED stream
       ELSE MainGoto("flushing") /\ stream' = [stream EXCEPT !.last = TRUE]
    /\ UNCHANGED <<now, job, plat, sent, watch>>

\* The coordinator refuses, fails, or ends its stream without complete usage.
EngineFails ==
    /\ main.pc = "inferring"
    /\ Answer("error")
    /\ UNCHANGED <<now, job, plat, sent, stream, watch>>

\* The transfer's cancellation callback, or its deadline.
InferenceCut == (Cancelled \/ now >= job.expires) /\ EngineFails

(***************************************************************************)
(* agent_stream_flush()                                                    *)
(***************************************************************************)
Flush ==
    /\ main.pc = "flushing"
    /\ IF now < job.expires /\ ~Cancelled THEN MainSends("frames", FramesRequest)
       ELSE Answer("error") /\ UNCHANGED sent
    /\ UNCHANGED <<now, job, plat, stream, watch>>

\* Mutant: the batch is kept after it was accepted.
FlushedKept ==
    /\ main.pc = "frames"
    /\ main.reply \in Ok
    /\ stream' = [stream EXCEPT !.offset = @ + Len(stream.batch)]
    /\ IF stream.last THEN Answer("stream") ELSE MainGoto("inferring")
    /\ UNCHANGED <<now, job, plat, sent, watch>>

\* The end was sealed; the coordinator's response may still break off.
Flushed ==
    /\ main.pc = "frames"
    /\ main.reply \in Ok
    /\ stream' = [stream EXCEPT !.offset = @ + Len(stream.batch), !.batch = <<>>]
    /\ IF stream.last THEN Answer("stream") \/ Answer("error") ELSE MainGoto("inferring")
    /\ UNCHANGED <<now, job, plat, sent, watch>>

NotFlushed ==
    /\ main.pc = "frames"
    /\ main.reply \notin Ok \cup {Awaiting}
    /\ IF main.reply.code = "gone" THEN Answer("error") ELSE MainGoto("flushing")
    /\ UNCHANGED <<now, job, plat, sent, stream, watch>>

(***************************************************************************)
(* relay_post_result(), and the end of the watch                           *)
(***************************************************************************)
StopWatch == MainGoto("joining") /\ watch' = [watch EXCEPT !.stopped = TRUE]

PostResult ==
    /\ main.pc = "posting"
    /\ IF Cancelled \/ now >= job.expires THEN StopWatch /\ UNCHANGED sent
       ELSE MainSends("result", ResultRequest) /\ UNCHANGED watch
    /\ UNCHANGED <<now, job, plat, stream>>

Posted ==
    /\ main.pc = "result"
    /\ main.reply # Awaiting
    /\ IF main.reply.code \in {"ok", "gone"} THEN StopWatch
       ELSE MainGoto("posting") /\ UNCHANGED watch
    /\ UNCHANGED <<now, job, plat, sent, stream>>

JoinWatch ==
    /\ main.pc = "joining"
    /\ watch.pc \in {"none", "returned"}
    /\ MainGoto("idle")
    /\ UNCHANGED <<now, job, plat, sent, stream, watch>>

MainTimesOut ==
    /\ MainWaits
    /\ main' = [main EXCEPT !.reply = Reply("none")]
    /\ UNCHANGED <<now, job, plat, sent, stream, watch>>

MainStep ==
    \/ Acknowledge \/ Acknowledged \/ InferenceCut \/ Flush \/ Flushed \/ NotFlushed
    \/ PostResult \/ Posted \/ JoinWatch \/ MainTimesOut
Engine == WholeAnswer \/ Delta \/ BatchDue \/ StreamDone \/ EngineFails

-----------------------------------------------------------------------------
(***************************************************************************)
(* relay_watch_loop()                                                      *)
(***************************************************************************)
WatchTest ==
    /\ watch.pc = "test"
    /\ IF watch.stopped \/ WatchCancelled
       THEN watch' = [watch EXCEPT !.pc = "returned"] /\ UNCHANGED sent
       ELSE /\ watch' = [watch EXCEPT !.pc = "confirming", !.started = now]
            /\ sent' = sent \cup {AckRequest}
    /\ UNCHANGED <<now, job, plat, main, stream>>

\* What the watch keeps from one confirmation to the next.
WatchAgain(cancelled, lease) ==
    watch' = [watch EXCEPT !.pc = "test", !.started = 0, !.read = 0, !.reply = Awaiting,
                           !.cancelled = @ \/ cancelled, !.lease = lease]

\* Only a definitive refusal cancels; the clock is read before the mutex.
WatchAnswered ==
    /\ watch.pc = "confirming"
    /\ watch.reply # Awaiting
    /\ IF watch.reply.code = "ok" THEN watch' = [watch EXCEPT !.pc = "extend", !.read = now]
       ELSE WatchAgain(watch.reply.code = "gone", watch.lease)
    /\ UNCHANGED <<now, job, plat, sent, main, stream>>

Malformed == watch.reply.lease < 0
Lapsed == watch.lease > 0 /\ watch.read >= watch.lease

\* Mutant: a late answer buys a whole lease from its arrival.
ExtendFromArrival ==
    /\ watch.pc = "extend"
    /\ IF Malformed \/ Lapsed THEN WatchAgain(TRUE, watch.lease)
       ELSE WatchAgain(FALSE, IF watch.reply.lease > 0 THEN watch.read + Lease ELSE watch.lease)
    /\ UNCHANGED <<now, job, plat, sent, main, stream>>

\* A lapsed lease is not renewed, and an answer without one takes none away.
Extend ==
    /\ watch.pc = "extend"
    /\ IF Malformed \/ Lapsed THEN WatchAgain(TRUE, watch.lease)
       ELSE IF watch.reply.lease = 0 THEN WatchAgain(FALSE, watch.lease)
       ELSE WatchAgain(watch.started + Lease <= watch.read, watch.started + Lease)
    /\ UNCHANGED <<now, job, plat, sent, main, stream>>

\* In three seconds, or at once when the main thread stops the watch.
WatchTimesOut ==
    /\ WatchWaits
    /\ watch' = [watch EXCEPT !.reply = Reply("none")]
    /\ UNCHANGED <<now, job, plat, sent, main, stream>>

WatchStep == WatchTest \/ WatchAnswered \/ Extend \/ WatchTimesOut

Next ==
    \/ Tick \/ Withdraw \/ Redispatch \/ ServeMain \/ ServeWatch \/ ServeLate
    \/ MainStep \/ Engine \/ WatchStep

Spec == Init /\ [][Next]_vars
\* Both threads run, every exchange ends in the time it was given, and time passes;
\* neither the platform nor the engine owes an answer.
FairSpec == Spec /\ WF_vars(Tick) /\ WF_vars(MainStep) /\ WF_vars(WatchStep)

-----------------------------------------------------------------------------
Working == main.pc \in {"inferring", "flushing", "frames", "posting", "result"}

Outcome == {"none", "sealed", "stream", "error"}
Request == [kind : {"ack", "frames", "result"}, offset : Nat, frames : Seq(Nat), answer : Outcome]
PlatformView == [state : {"offered", "acked", "answered", "withdrawn", "elsewhere"}, lease : Nat,
                 frames : Seq(Nat), answer : Outcome, total : Nat]
MainPc == {"received", "confirming", "inferring", "flushing", "frames", "posting", "result",
           "joining", "idle"}
RelayThread == [pc : MainPc, started : 0..MaxNow, answer : Outcome,
                reply : Replies \cup {Awaiting}]
Stream == [seq : Nat, offset : Nat, batch : Seq(Nat), last : BOOLEAN]
Watch == [pc : {"none", "test", "confirming", "extend", "returned"}, started : 0..MaxNow,
          read : 0..MaxNow, reply : Replies \cup {Awaiting}, lease : Nat,
          cancelled : BOOLEAN, stopped : BOOLEAN]

\* The type invariant; a batch is never longer than an upload may be.
TypeOK ==
    /\ now \in 0..MaxNow
    /\ job \in [expires : Deadlines, stream : BOOLEAN]
    /\ plat \in PlatformView
    /\ sent \subseteq Request
    /\ main \in RelayThread
    /\ stream \in Stream
    /\ Len(stream.batch) <= BatchMax
    /\ watch \in Watch

\* While the agent takes itself to hold the job under a lease, the platform has
\* confirmed it and has not given it to anybody else, however late the answers
\* came: "a delayed response must not create fresh execution time".
NoSecondProvider ==
    Working /\ watch.pc # "none" /\ watch.lease > 0 /\ ~Cancelled =>
        plat.state \notin {"offered", "elsewhere"}

\* Frames reach the platform in order, none twice and none left out, though each
\* upload may be handled several times and its answer lost.
FramesInOrder == \A i \in DOMAIN plat.frames : plat.frames[i] = i - 1

\* A stream the platform took as finished has every frame before its end.
FinishedIsComplete == plat.answer = "stream" => Len(plat.frames) = plat.total

\* A stream arrives as the engine said it: its frames in order, and all of them before
\* its end, whatever upload was repeated, lost or answered late.
StreamArrivesWhole == FramesInOrder /\ FinishedIsComplete

\* A job that was withdrawn or given away is left in the end, though neither the
\* engine nor the platform ever answers again and the job's own deadline is far.
LostJobIsLeft ==
    plat.state \in {"withdrawn", "elsewhere"} /\ watch.lease > 0 ~> main.pc = "idle"

-----------------------------------------------------------------------------
(***************************************************************************)
(* The inductive invariant the proofs use.                                 *)
(***************************************************************************)
\* The platform granted the job for as long as until d, at some time: d is within
\* its present lease, or over if the job has gone to another provider.
Covered(d) ==
    /\ plat.state # "offered"
    /\ plat.state = "acked" => d <= plat.lease
    /\ plat.state = "elsewhere" => d <= now

\* Every lease the agent holds, or is about to take from an answer, is covered: it
\* is counted from before the request that the platform granted it for.
MainCovered ==
    /\ main.started <= now
    /\ main.pc \notin {"confirming", "frames", "result"} => main.reply = Awaiting
    /\ main.pc = "confirming" /\ main.reply.code = "ok" => Covered(main.started + Lease)
WatchCovered ==
    /\ watch.started <= now
    /\ watch.pc \notin {"confirming", "extend"} => watch.reply = Awaiting
    /\ watch.pc = "extend" => watch.reply.code = "ok"
    /\ watch.reply.code = "ok" => Covered(watch.started + Lease)
    /\ watch.lease > 0 => Covered(watch.lease)
LeaseInv ==
    /\ plat.lease <= now + Lease
    /\ MainCovered
    /\ WatchCovered
    /\ main.pc \in {"received", "confirming"} => watch.pc = "none"
=============================================================================
