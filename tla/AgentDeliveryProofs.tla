------------------------ MODULE AgentDeliveryProofs ------------------------
(***************************************************************************)
(* Proofs about AgentDelivery: the agent never takes itself to hold a job  *)
(* that the platform has not confirmed or has given to somebody else; and  *)
(* about the HTTP exchanges beside it: PlatformCall, the call each of its  *)
(* messages is sent by, and HttpRead, how a coordinator reads a request.   *)
(***************************************************************************)
EXTENDS AgentDelivery, PlatformCall, HttpRead, SequenceTheorems, FiniteSetTheorems, WellFoundedInduction, TLAPS

\* What the relay thread sends is a request.
LEMMA RequestsTyped ==
    ASSUME stream \in Stream, main \in RelayThread
    PROVE  AckRequest \in Request /\ FramesRequest \in Request /\ ResultRequest \in Request
BY DEF Stream, RelayThread, Request, Outcome, AckRequest, FramesRequest, ResultRequest

\* The platform's view stays one, whatever is asked of it.
LEMMA HandleTyped ==
    ASSUME DeliveryAssumption, plat \in PlatformView, now \in Nat, NEW q \in Request, NEW reply, Handle(q, reply)
    PROVE  plat' \in PlatformView
<1>1. CASE Confirm(reply)
  <2>1. now + Lease \in Nat
    BY DEF DeliveryAssumption
  <2>2. QED BY <1>1, <2>1 DEF Confirm, PlatformView
<1>2. CASE Store(q, reply)
  <2>1. SubSeq(plat.frames, 1, q.offset) \in Seq(Nat)
    <3>1. plat.frames \in Seq(Nat) /\ q.offset \in Nat /\ q.offset <= Len(plat.frames)
      BY <1>2 DEF Store, PlatformView, Request
    <3>2. \A i \in 1..q.offset : plat.frames[i] \in Nat
      BY <3>1
    <3>3. QED BY <3>1, <3>2, SubSeqProperties
  <2>2. SubSeq(plat.frames, 1, q.offset) \o q.frames \in Seq(Nat)
    BY <2>1, ConcatProperties DEF Request
  <2>3. QED BY <1>2, <2>2 DEF Store, PlatformView
<1>3. CASE Consume(q, reply)
  BY <1>3 DEF Consume, PlatformView, Request
<1>4. CASE plat' = plat
  BY <1>4
<1>5. QED BY <1>1, <1>2, <1>3, <1>4 DEF Handle

\* A thread keeps its type whichever answer it gets.
LEMMA ReplyTyped ==
    /\ \A m \in RelayThread, reply \in Replies : [m EXCEPT !.reply = reply] \in RelayThread
    /\ \A w \in Watch, reply \in Replies : [w EXCEPT !.reply = reply] \in Watch
BY DEF RelayThread, Watch

\* So does the relay thread when it moves on, answers, or sends.
LEMMA MainTyped ==
    ASSUME DeliveryAssumption, main \in RelayThread, now \in 0..MaxNow
    PROVE  /\ \A pc \in MainPc : MainGoto(pc) => main' \in RelayThread
           /\ \A how \in Outcome : Answer(how) => main' \in RelayThread
           /\ \A pc \in MainPc, q \in Request : MainSends(pc, q) /\ sent \subseteq Request =>
                 main' \in RelayThread /\ sent' \subseteq Request
<1>0. 0 \in 0..MaxNow /\ Awaiting \in Replies \cup {Awaiting}
  BY DEF DeliveryAssumption
<1>1. ASSUME NEW pc \in MainPc, MainGoto(pc)
      PROVE  main' \in RelayThread
  BY <1>0, <1>1 DEF MainGoto, RelayThread
<1>2. ASSUME NEW how \in Outcome, Answer(how)
      PROVE  main' \in RelayThread
  <2>1. "posting" \in MainPc
    BY DEF MainPc
  <2>2. QED BY <1>0, <1>2, <2>1 DEF Answer, RelayThread
<1>3. ASSUME NEW pc \in MainPc, NEW q \in Request, MainSends(pc, q), sent \subseteq Request
      PROVE  main' \in RelayThread /\ sent' \subseteq Request
  <2>1. (IF q = AckRequest THEN now ELSE 0) \in 0..MaxNow
    BY <1>0
  <2>2. QED BY <1>3, <2>1 DEF MainSends, RelayThread
<1>4. QED BY <1>1, <1>2, <1>3

-----------------------------------------------------------------------------
\* Every reachable state is well typed, for every lease, deadline and bound.
THEOREM TypeCorrect == Spec => []TypeOK
<1> USE DeliveryAssumption DEF DeliveryAssumption
<1>1. Init => TypeOK
  <2> SUFFICES ASSUME Init PROVE TypeOK
    OBVIOUS
  <2>1. plat \in PlatformView /\ stream \in Stream /\ Len(stream.batch) <= BatchMax
    BY DEF Init, PlatformView, Stream, Outcome
  <2>2. main \in RelayThread /\ watch \in Watch
    <3>1. 0 \in 0..MaxNow /\ 0 \in Nat /\ Awaiting \in Replies \cup {Awaiting}
      OBVIOUS
    <3>2. "received" \in MainPc /\ "none" \in Outcome
      BY DEF MainPc, Outcome
    <3>3. QED BY <3>1, <3>2 DEF Init, RelayThread, Watch
  <2>3. QED BY <2>1, <2>2 DEF Init, TypeOK
<1>2. TypeOK /\ [Next]_vars => TypeOK'
  <2> SUFFICES ASSUME TypeOK, [Next]_vars PROVE TypeOK'
    OBVIOUS
  <2> USE DEF TypeOK
  <2>0. AckRequest \in Request /\ FramesRequest \in Request /\ ResultRequest \in Request
    BY RequestsTyped
  <2>1. CASE Tick
    BY <2>1 DEF Tick
  <2>2. CASE Withdraw
    BY <2>2 DEF Withdraw, PlatformView
  <2>3. CASE Redispatch
    BY <2>3 DEF Redispatch, PlatformView
  <2>4. CASE ServeMain
    <3>1. MainRequest \in Request
      BY <2>0, <2>4 DEF ServeMain, MainWaits, MainRequest
    <3>2. PICK reply \in Replies : Handle(MainRequest, reply) /\ main' = [main EXCEPT !.reply = reply]
      BY <2>4 DEF ServeMain
    <3>3. plat' \in PlatformView
      BY <3>1, <3>2, HandleTyped
    <3>4. main' \in RelayThread
      BY <3>2, ReplyTyped
    <3>5. QED BY <2>4, <3>3, <3>4 DEF ServeMain
  <2>5. CASE ServeWatch
    <3>1. PICK reply \in Replies : Handle(AckRequest, reply) /\ watch' = [watch EXCEPT !.reply = reply]
      BY <2>5 DEF ServeWatch
    <3>2. plat' \in PlatformView
      BY <2>0, <3>1, HandleTyped
    <3>3. watch' \in Watch
      BY <3>1, ReplyTyped
    <3>4. QED BY <2>5, <3>2, <3>3 DEF ServeWatch
  <2>6. CASE ServeLate
    <3>1. PICK q \in sent, reply \in Replies : Handle(q, reply)
      BY <2>6 DEF ServeLate
    <3>2. plat' \in PlatformView
      BY <3>1, HandleTyped
    <3>3. QED BY <2>6, <3>2 DEF ServeLate
  <2>7. CASE MainStep
    <3> DEFINE Typed == main' \in RelayThread
    <3>0. /\ \A pc \in MainPc : MainGoto(pc) => Typed
          /\ \A how \in Outcome : Answer(how) => Typed
          /\ \A pc \in MainPc, q \in Request : MainSends(pc, q) => Typed /\ sent' \subseteq Request
      BY MainTyped
    <3>w. StopWatch => Typed /\ watch' \in Watch
      BY <3>0 DEF StopWatch, Watch, MainPc
    <3>1. CASE Acknowledge
      BY <2>0, <3>0, <3>1 DEF Acknowledge, MainPc
    <3>2. CASE Acknowledged
      <4>1. Typed
        BY <3>0, <3>2 DEF Acknowledged, MainPc, Outcome
      <4>2. LeaseFrom(main.started) \in Nat
        <5>1. main.started \in Nat
          BY DEF RelayThread
        <5>2. job.expires \in Nat
          OBVIOUS
        <5>3. QED BY <5>1, <5>2 DEF LeaseFrom
      <4>3. watch' = watch \/ \E lease \in Nat : watch' = [watch EXCEPT !.pc = "test", !.lease = lease]
        BY <3>2, <4>2 DEF Acknowledged
      <4>4. watch' \in Watch
        BY <4>3 DEF Watch
      <4>5. QED BY <3>2, <4>1, <4>4 DEF Acknowledged
    <3>3. CASE InferenceCut
      BY <3>0, <3>3 DEF InferenceCut, EngineFails, Outcome
    <3>4. CASE Flush
      BY <2>0, <3>0, <3>4 DEF Flush, MainPc, Outcome
    <3>5. CASE Flushed
      <4>1. Typed
        BY <3>0, <3>5 DEF Flushed, MainPc, Outcome
      <4>2. stream.offset + Len(stream.batch) \in Nat /\ <<>> \in Seq(Nat) /\ Len(<<>>) = 0
        BY DEF Stream
      <4>4. stream' \in Stream
        BY <3>5, <4>2 DEF Flushed, Stream
      <4>5. stream'.batch = <<>>
        BY <3>5 DEF Flushed, Stream
      <4>6. QED BY <3>5, <4>1, <4>2, <4>4, <4>5 DEF Flushed
    <3>6. CASE NotFlushed
      BY <3>0, <3>6 DEF NotFlushed, MainPc, Outcome
    <3>7. CASE PostResult
      BY <2>0, <3>0, <3>w, <3>7 DEF PostResult, MainPc
    <3>8. CASE Posted
      BY <3>0, <3>w, <3>8 DEF Posted, MainPc
    <3>9. CASE JoinWatch
      BY <3>0, <3>9 DEF JoinWatch, MainPc
    <3>10. CASE MainTimesOut
      BY <3>10, ReplyTyped DEF MainTimesOut, Replies
    <3>11. QED BY <2>7, <3>1, <3>2, <3>3, <3>4, <3>5, <3>6, <3>7, <3>8, <3>9, <3>10 DEF MainStep
  <2>8. CASE Engine
    <3>0. /\ \A pc \in MainPc : MainGoto(pc) => main' \in RelayThread
          /\ \A how \in Outcome : Answer(how) => main' \in RelayThread
      BY MainTyped
    <3>1. CASE WholeAnswer
      BY <3>0, <3>1 DEF WholeAnswer, Outcome
    <3>2. CASE Delta
      <4>1. stream.batch \in Seq(Nat) /\ stream.seq \in Nat
        BY DEF Stream
      <4>2. /\ Append(stream.batch, stream.seq) \in Seq(Nat)
            /\ Len(Append(stream.batch, stream.seq)) = Len(stream.batch) + 1
        BY <4>1
      <4> DEFINE longer == Append(stream.batch, stream.seq)
                 next == stream.seq + 1
      <4>n. next \in Nat /\ stream' = [stream EXCEPT !.seq = next, !.batch = longer]
        BY <3>2, <4>1 DEF Delta
      <4>3. stream' \in Stream /\ stream'.batch = longer
        <5> HIDE DEF longer, next
        <5>1. QED BY <4>2, <4>n DEF longer, Stream
      <4>4. Len(stream'.batch) <= BatchMax
        BY <3>2, <4>1, <4>2, <4>3 DEF Delta
      <4>5. QED BY <3>2, <4>3, <4>4 DEF Delta
    <3>3. CASE BatchDue
      BY <3>0, <3>3 DEF BatchDue, MainPc
    <3>4. CASE StreamDone
      <4>1. main' \in RelayThread
        BY <3>0, <3>4 DEF StreamDone, MainPc, Outcome
      <4>2. stream' \in Stream /\ Len(stream'.batch) <= BatchMax
        BY <3>4 DEF StreamDone, Stream
      <4>3. QED BY <3>4, <4>1, <4>2 DEF StreamDone
    <3>5. CASE EngineFails
      BY <3>0, <3>5 DEF EngineFails, Outcome
    <3>6. QED BY <2>8, <3>1, <3>2, <3>3, <3>4, <3>5 DEF Engine
  <2>9. CASE WatchStep
    <3>1. CASE WatchTest
      BY <2>0, <3>1 DEF WatchTest, Watch
    <3>2. ASSUME NEW cancelled \in BOOLEAN, NEW lease \in Nat, WatchAgain(cancelled, lease)
          PROVE  watch' \in Watch
      <4> DEFINE c == watch.cancelled \/ cancelled
      <4>1. c \in BOOLEAN /\ 0 \in 0..MaxNow /\ Awaiting \in Replies \cup {Awaiting}
        OBVIOUS
      <4>2. watch' = [watch EXCEPT !.pc = "test", !.started = 0, !.read = 0, !.reply = Awaiting,
                                   !.cancelled = c, !.lease = lease]
        BY <3>2 DEF WatchAgain
      <4> HIDE DEF c
      <4>3. QED BY <4>1, <4>2 DEF Watch
    <3>3. CASE WatchAnswered
      <4>1. watch.lease \in Nat
        BY DEF Watch
      <4>2. watch' \in Watch
        BY <3>2, <3>3, <4>1 DEF WatchAnswered, Watch
      <4>3. QED BY <3>3, <4>2 DEF WatchAnswered
    <3>4. CASE Extend
      <4>1. watch.lease \in Nat /\ watch.started + Lease \in Nat
        BY DEF Watch
      <4>2. watch' \in Watch
        <5>1. CASE WatchAgain(TRUE, watch.lease) \/ WatchAgain(FALSE, watch.lease)
          BY <3>2, <4>1, <5>1
        <5>2. CASE WatchAgain(watch.started + Lease <= watch.read, watch.started + Lease)
          <6> DEFINE over == watch.started + Lease <= watch.read
          <6>1. over \in BOOLEAN /\ WatchAgain(over, watch.started + Lease)
            BY <5>2
          <6> HIDE DEF over
          <6>2. QED BY <3>2, <4>1, <6>1
        <5>3. QED BY <3>4, <5>1, <5>2 DEF Extend
      <4>3. QED BY <3>4, <4>2 DEF Extend
    <3>5. CASE WatchTimesOut
      BY <3>5, ReplyTyped DEF WatchTimesOut, Replies
    <3>6. QED BY <2>9, <3>1, <3>3, <3>4, <3>5 DEF WatchStep
  <2>10. CASE UNCHANGED vars
    BY <2>10 DEF vars
  <2>11. QED BY <2>1, <2>2, <2>3, <2>4, <2>5, <2>6, <2>7, <2>8, <2>9, <2>10 DEF Next
<1>3. QED BY <1>1, <1>2, PTL DEF Spec

-----------------------------------------------------------------------------
\* What the platform granted stays granted, or is over when the job moves on.
LEMMA GrantsKept ==
    ASSUME TypeOK, LeaseInv, Tick \/ Withdraw \/ Redispatch
    PROVE  plat'.lease <= now' + Lease /\ \A d \in Nat : Covered(d) => Covered(d)'
<1> USE DeliveryAssumption DEF DeliveryAssumption
<1>1. now \in Nat /\ Lease \in Nat /\ plat.lease \in Nat /\ plat.lease <= now + Lease /\ plat \in PlatformView
  BY DEF TypeOK, LeaseInv, PlatformView
<1>2. CASE Tick
  BY <1>1, <1>2 DEF Tick, Covered
<1>3. CASE Withdraw
  BY <1>1, <1>3 DEF Withdraw, Covered, PlatformView
<1>4. CASE Redispatch
  BY <1>1, <1>4 DEF Redispatch, Covered, PlatformView
<1>5. QED BY <1>2, <1>3, <1>4

\* A request handled takes no grant away, and a confirmed receipt is a whole lease.
LEMMA HandleCovers ==
    ASSUME TypeOK, LeaseInv, NEW q, NEW reply, Handle(q, reply), now' = now
    PROVE  /\ plat'.lease <= now + Lease
           /\ \A d \in Nat : Covered(d) => Covered(d)'
           /\ q.kind = "ack" /\ reply.code = "ok" => \A d \in Nat : d <= now + Lease => Covered(d)'
<1> USE DeliveryAssumption DEF DeliveryAssumption
<1>1. now \in Nat /\ Lease \in Nat /\ plat \in PlatformView /\ plat.lease <= now + Lease
  BY DEF TypeOK, LeaseInv
<1>2. CASE q.kind = "ack" /\ Confirm(reply)
  <2>1. plat'.state = "acked" /\ plat'.lease = now + Lease
    BY <1>1, <1>2 DEF Confirm, PlatformView
  <2>2. \A d \in Nat : Covered(d) => d <= now + Lease
    BY <1>1, <1>2 DEF Confirm, Covered, PlatformView
  <2>3. \A d \in Nat : d <= now + Lease => Covered(d)'
    BY <2>1 DEF Covered
  <2>4. QED BY <1>1, <2>1, <2>2, <2>3
<1>3. CASE q.kind = "frames" /\ Store(q, reply)
  <2>1. plat'.state = plat.state /\ plat'.lease = plat.lease
    BY <1>1, <1>3 DEF Store, PlatformView
  <2>2. QED BY <1>1, <1>3, <2>1 DEF Covered
<1>4. CASE q.kind = "result" /\ Consume(q, reply)
  <2>1. plat'.state = "answered" /\ plat'.lease = 0
    BY <1>1, <1>4 DEF Consume, PlatformView
  <2>2. QED BY <1>1, <1>4, <2>1 DEF Covered
<1>5. CASE reply \in Failed /\ plat' = plat
  BY <1>1, <1>5 DEF Failed, Reply, Covered
<1>6. QED BY <1>2, <1>3, <1>4, <1>5 DEF Handle

\* A thread that has no answer yet is about to take no lease.
LEMMA NoAnswerYet ==
    ASSUME TypeOK, LeaseInv, now' = now
    PROVE  /\ \A pc \in MainPc : MainGoto(pc) => MainCovered'
           /\ \A how \in Outcome : Answer(how) => MainCovered'
           /\ \A pc \in MainPc, q \in Request :
                 MainSends(pc, q) /\ main.pc \notin {"confirming", "frames", "result"} => MainCovered'
           /\ \A cancelled \in BOOLEAN, lease \in Nat :
                 WatchAgain(cancelled, lease) =>
                     /\ watch'.pc = "test" /\ watch'.reply = Awaiting
                     /\ watch'.started = 0 /\ watch'.lease = lease
<1>1. now \in Nat /\ main \in RelayThread /\ watch \in Watch /\ Awaiting.code # "ok"
  BY DeliveryAssumption DEF TypeOK, DeliveryAssumption, Awaiting, Reply
<1>2. main'.reply = Awaiting /\ main'.started \in {0, now} => MainCovered'
  <2>1. Awaiting' = Awaiting
    BY DEF Awaiting, Reply
  <2>2. QED BY <1>1, <2>1 DEF MainCovered
<1>3. ASSUME NEW pc \in MainPc, MainGoto(pc) PROVE MainCovered'
  BY <1>1, <1>2, <1>3 DEF MainGoto, RelayThread
<1>4. ASSUME NEW how \in Outcome, Answer(how) PROVE MainCovered'
  BY <1>1, <1>2, <1>4 DEF Answer, RelayThread
<1>5. ASSUME NEW pc \in MainPc, NEW q \in Request, MainSends(pc, q),
             main.pc \notin {"confirming", "frames", "result"}
      PROVE  MainCovered'
  <2>1. PICK started \in {0, now} : main' = [main EXCEPT !.pc = pc, !.started = started]
    BY <1>5 DEF MainSends
  <2>2. main.reply = Awaiting
    BY <1>5 DEF LeaseInv, MainCovered
  <2>3. QED BY <1>1, <1>2, <2>1, <2>2 DEF RelayThread
<1>6. ASSUME NEW cancelled \in BOOLEAN, NEW lease \in Nat, WatchAgain(cancelled, lease)
      PROVE  /\ watch'.pc = "test" /\ watch'.reply = Awaiting
             /\ watch'.started = 0 /\ watch'.lease = lease
  BY <1>1, <1>6 DEF WatchAgain, Watch
<1>7. QED BY <1>3, <1>4, <1>5, <1>6

\* The agent's leases stay within what the platform granted.
THEOREM LeasesCovered == Spec => []LeaseInv
<1> USE DeliveryAssumption DEF DeliveryAssumption
<1>1. Init => LeaseInv
  BY DEF Init, LeaseInv, MainCovered, WatchCovered, Awaiting, Reply
<1>2. TypeOK /\ LeaseInv /\ [Next]_vars => LeaseInv'
  <2> SUFFICES ASSUME TypeOK, LeaseInv, [Next]_vars PROVE LeaseInv'
    OBVIOUS
  <2>e. job.expires \in Nat
    BY DEF TypeOK
  <2>a. now \in Nat /\ main \in RelayThread /\ watch \in Watch /\ job.expires \in Nat
    BY <2>e DEF TypeOK
  <2>b. main.started \in Nat /\ watch.started \in Nat /\ watch.lease \in Nat
    BY <2>a DEF RelayThread, Watch
  <2>c. Awaiting.code # "ok" /\ Awaiting' = Awaiting
    BY DEF Awaiting, Reply
  <2>0. /\ now \in Nat /\ main.started \in Nat /\ watch.started \in Nat /\ watch.lease \in Nat
        /\ main \in RelayThread /\ watch \in Watch /\ job.expires \in Nat
        /\ Awaiting.code # "ok" /\ Awaiting' = Awaiting
        /\ plat.lease <= now + Lease /\ MainCovered /\ WatchCovered
    BY <2>a, <2>b, <2>c DEF LeaseInv
  <2>w. (main.pc \in {"received", "confirming"} => watch.pc = "none")'
    <3>1. main'.pc \in {"received", "confirming"} =>
             main.pc \in {"received", "confirming"} /\ (watch'.pc = watch.pc \/ watch.pc # "none")
      <4>1. CASE main' = main /\ watch' = watch
        BY <4>1
      <4>2. CASE ServeMain \/ MainTimesOut
        BY <2>0, <4>2 DEF ServeMain, MainTimesOut, RelayThread
      <4>3. CASE ServeWatch \/ WatchStep
        BY <2>0, <4>3 DEF ServeWatch, WatchStep, WatchTest, WatchAnswered, WatchAgain, Extend,
                          WatchTimesOut, WatchWaits, Watch
      <4>4. CASE MainStep \/ Engine
        <5>1. /\ \A pc : MainGoto(pc) => main'.pc = pc
              /\ \A how : Answer(how) => main'.pc = "posting"
              /\ \A pc, q : MainSends(pc, q) => main'.pc = pc
              /\ StopWatch => main'.pc = "joining"
              /\ MainTimesOut => main'.pc = main.pc
          BY <2>0 DEF MainGoto, Answer, MainSends, StopWatch, MainTimesOut, RelayThread
        <5>2. CASE Acknowledge \/ Flush \/ PostResult \/ Posted \/ JoinWatch
          BY <5>1, <5>2 DEF Acknowledge, Flush, PostResult, Posted, JoinWatch
        <5>3. CASE Acknowledged \/ InferenceCut \/ Flushed \/ NotFlushed \/ MainTimesOut
          BY <5>1, <5>3 DEF Acknowledged, InferenceCut, EngineFails, Flushed, NotFlushed, MainTimesOut
        <5>4. CASE Engine
          BY <5>1, <5>4 DEF Engine, WholeAnswer, Delta, BatchDue, StreamDone, EngineFails
        <5>5. QED BY <4>4, <5>2, <5>3, <5>4 DEF MainStep
      <4>5. QED BY <4>1, <4>2, <4>3, <4>4 DEF Next, vars, Tick, Withdraw, Redispatch, ServeLate
    <3>2. QED BY <3>1 DEF LeaseInv
  <2>k. ASSUME now' \in Nat, now <= now', \A d \in Nat : Covered(d) => Covered(d)'
        PROVE  /\ main' = main => MainCovered'
               /\ watch' = watch => WatchCovered'
    <3>1. main.started + Lease \in Nat /\ watch.started + Lease \in Nat
      BY <2>0
    <3>2. main' = main => MainCovered'
      BY <2>0, <2>k, <3>1 DEF MainCovered, Covered
    <3>3. watch' = watch => WatchCovered'
      BY <2>0, <2>k, <3>1 DEF WatchCovered, Covered
    <3>4. QED BY <3>2, <3>3
  <2>s. ASSUME now' = now, plat' = plat
        PROVE  /\ plat'.lease <= now' + Lease
               /\ \A d \in Nat : Covered(d) => Covered(d)'
               /\ main' = main => MainCovered'
               /\ watch' = watch => WatchCovered'
    <3>1. \A d \in Nat : Covered(d) => Covered(d)'
      BY <2>s DEF Covered
    <3>2. QED BY <2>0, <2>k, <2>s, <3>1
  <2>1. CASE Tick \/ Withdraw \/ Redispatch
    <3>1. main' = main /\ watch' = watch /\ now' \in Nat /\ now <= now'
      BY <2>0, <2>1 DEF Tick, Withdraw, Redispatch
    <3>2. plat'.lease <= now' + Lease /\ \A d \in Nat : Covered(d) => Covered(d)'
      BY <2>1, GrantsKept
    <3>3. QED BY <2>w, <2>k, <3>1, <3>2 DEF LeaseInv
  <2>2. CASE ServeMain
    <3>1. PICK reply \in Replies : Handle(MainRequest, reply) /\ main' = [main EXCEPT !.reply = reply]
      BY <2>2 DEF ServeMain
    <3>2. now' = now /\ watch' = watch
      BY <2>2 DEF ServeMain
    <3>3. main'.pc = main.pc /\ main'.started = main.started /\ main'.reply = reply
      BY <2>0, <3>1 DEF RelayThread
    <3>4. /\ plat'.lease <= now + Lease
          /\ \A d \in Nat : Covered(d) => Covered(d)'
          /\ MainRequest.kind = "ack" /\ reply.code = "ok" =>
                \A d \in Nat : d <= now + Lease => Covered(d)'
      BY <3>1, <3>2, HandleCovers
    <3>5. main.pc = "confirming" => MainRequest.kind = "ack"
      BY DEF MainRequest, AckRequest
    <3>6. main.pc \in {"confirming", "frames", "result"}
      BY <2>2 DEF ServeMain, MainWaits
    <3>7. main.started + Lease \in Nat /\ main.started + Lease <= now + Lease
      BY <2>0 DEF MainCovered
    <3>8. MainCovered'
      BY <2>0, <3>2, <3>3, <3>4, <3>5, <3>6, <3>7 DEF MainCovered, Covered
    <3>9. WatchCovered'
      BY <2>0, <2>k, <3>2, <3>4
    <3>10. QED BY <2>w, <3>2, <3>4, <3>8, <3>9 DEF LeaseInv
  <2>3. CASE ServeWatch
    <3>1. PICK reply \in Replies : Handle(AckRequest, reply) /\ watch' = [watch EXCEPT !.reply = reply]
      BY <2>3 DEF ServeWatch
    <3>2. now' = now /\ main' = main
      BY <2>3 DEF ServeWatch
    <3>3. /\ watch'.pc = watch.pc /\ watch'.started = watch.started /\ watch'.lease = watch.lease
          /\ watch'.reply = reply /\ watch.pc = "confirming"
      BY <2>0, <2>3, <3>1 DEF Watch, ServeWatch, WatchWaits
    <3>4. /\ plat'.lease <= now + Lease
          /\ \A d \in Nat : Covered(d) => Covered(d)'
          /\ reply.code = "ok" => \A d \in Nat : d <= now + Lease => Covered(d)'
      BY <3>1, <3>2, HandleCovers DEF AckRequest
    <3>5. watch.started + Lease \in Nat /\ watch.started + Lease <= now + Lease
      BY <2>0 DEF WatchCovered
    <3>6. WatchCovered'
      BY <2>0, <3>2, <3>3, <3>4, <3>5 DEF WatchCovered, Covered
    <3>7. MainCovered'
      BY <2>0, <2>k, <3>2, <3>4
    <3>8. QED BY <2>w, <3>2, <3>4, <3>6, <3>7 DEF LeaseInv
  <2>4. CASE ServeLate
    <3>1. PICK q \in sent, reply \in Replies : Handle(q, reply)
      BY <2>4 DEF ServeLate
    <3>2. now' = now /\ main' = main /\ watch' = watch
      BY <2>4 DEF ServeLate
    <3>3. plat'.lease <= now + Lease /\ \A d \in Nat : Covered(d) => Covered(d)'
      BY <3>1, <3>2, HandleCovers
    <3>4. QED BY <2>w, <2>0, <2>k, <3>2, <3>3 DEF LeaseInv
  <2>5. CASE MainStep
    <3>0. now' = now /\ plat' = plat
      BY <2>5 DEF MainStep, Acknowledge, Acknowledged, InferenceCut, EngineFails, Flush, Flushed,
                  NotFlushed, PostResult, Posted, JoinWatch, MainTimesOut
    <3>1. /\ \A pc \in MainPc : MainGoto(pc) => MainCovered'
          /\ \A how \in Outcome : Answer(how) => MainCovered'
          /\ \A pc \in MainPc, q \in Request :
                MainSends(pc, q) /\ main.pc \notin {"confirming", "frames", "result"} => MainCovered'
      BY <3>0, NoAnswerYet
    <3>2. AckRequest \in Request /\ FramesRequest \in Request /\ ResultRequest \in Request
      BY RequestsTyped DEF TypeOK
    <3>3. MainCovered'
      <4>1. CASE Acknowledge \/ Flush \/ PostResult
        BY <3>1, <3>2, <4>1 DEF Acknowledge, Flush, PostResult, StopWatch, MainPc, Outcome
      <4>2. CASE Acknowledged
        BY <3>1, <4>2 DEF Acknowledged, MainPc, Outcome
      <4>3. CASE InferenceCut \/ Flushed \/ NotFlushed
        BY <3>1, <4>3 DEF InferenceCut, EngineFails, Flushed, NotFlushed, MainPc, Outcome
      <4>4. CASE Posted \/ JoinWatch
        BY <3>1, <4>4 DEF Posted, JoinWatch, StopWatch, MainPc
      <4>5. CASE MainTimesOut
        <5>1. /\ main'.pc = main.pc /\ main'.started = main.started /\ main'.reply.code = "none"
              /\ main.pc \in {"confirming", "frames", "result"}
          BY <2>0, <4>5 DEF MainTimesOut, MainWaits, RelayThread, Reply
        <5>2. QED BY <2>0, <3>0, <5>1 DEF MainCovered
      <4>6. QED BY <2>5, <4>1, <4>2, <4>3, <4>4, <4>5 DEF MainStep
    <3>4. WatchCovered'
      <4>1. ASSUME StopWatch PROVE WatchCovered'
        <5>1. /\ watch'.pc = watch.pc /\ watch'.started = watch.started
              /\ watch'.reply = watch.reply /\ watch'.lease = watch.lease
          BY <2>0, <4>1 DEF StopWatch, Watch
        <5>2. QED BY <2>0, <3>0, <5>1 DEF WatchCovered, Covered
      <4>2. CASE Acknowledged /\ watch' # watch
        <5>1. PICK lease \in {0, LeaseFrom(main.started)} :
                 /\ watch' = [watch EXCEPT !.pc = "test", !.lease = lease]
                 /\ main.pc = "confirming" /\ main.reply.code = "ok"
          BY <4>2 DEF Acknowledged
        <5>2. lease \in Nat /\ lease <= main.started + Lease
          BY <2>0, <5>1 DEF LeaseFrom
        <5>3. Covered(main.started + Lease)
          BY <2>0, <5>1 DEF MainCovered
        <5>4. /\ watch'.pc = "test" /\ watch'.started = watch.started
              /\ watch'.reply = watch.reply /\ watch'.lease = lease
          BY <2>0, <5>1 DEF Watch
        <5>5. PICK d \in Nat : d = main.started + Lease
          BY <2>0
        <5>6. Covered(d)
          BY <5>3, <5>5
        <5>7. Covered(lease)
          BY <2>0, <5>2, <5>5, <5>6 DEF Covered, TypeOK, PlatformView
        <5>8. watch.reply = Awaiting
          BY <2>0, <5>1 DEF LeaseInv, WatchCovered
        <5>9. QED BY <2>0, <3>0, <5>4, <5>7, <5>8 DEF WatchCovered, Covered
      <4>3. StopWatch \/ watch' = watch \/ (Acknowledged /\ watch' # watch)
        BY <2>5 DEF MainStep, Acknowledge, Acknowledged, InferenceCut, EngineFails, Flush, Flushed,
                    NotFlushed, PostResult, Posted, JoinWatch, MainTimesOut
      <4>4. QED BY <2>s, <3>0, <4>1, <4>2, <4>3
    <3>5. QED BY <2>w, <2>s, <3>0, <3>3, <3>4 DEF LeaseInv
  <2>6. CASE Engine
    <3>1. now' = now /\ plat' = plat /\ watch' = watch
      BY <2>6 DEF Engine, WholeAnswer, Delta, BatchDue, StreamDone, EngineFails
    <3>2. main' = main \/ (\E pc \in MainPc : MainGoto(pc)) \/ \E how \in Outcome : Answer(how)
      BY <2>6 DEF Engine, WholeAnswer, Delta, BatchDue, StreamDone, EngineFails, MainPc, Outcome
    <3>3. MainCovered'
      BY <2>s, <3>1, <3>2, NoAnswerYet
    <3>4. QED BY <2>w, <2>s, <3>1, <3>3 DEF LeaseInv
  <2>7. CASE WatchStep
    <3>0. now' = now /\ plat' = plat /\ main' = main
      BY <2>7 DEF WatchStep, WatchTest, WatchAnswered, WatchAgain, Extend, WatchTimesOut
    <3>a. ASSUME NEW cancelled \in BOOLEAN, NEW lease \in Nat, WatchAgain(cancelled, lease),
                 lease > 0 => Covered(lease)
          PROVE  WatchCovered'
      <4>1. /\ watch'.pc = "test" /\ watch'.reply = Awaiting
            /\ watch'.started = 0 /\ watch'.lease = lease
        BY <3>0, <3>a, NoAnswerYet
      <4>2. lease > 0 => Covered(lease)'
        BY <3>0, <3>a DEF Covered
      <4>3. QED BY <2>0, <3>0, <4>1, <4>2 DEF WatchCovered, Covered
    <3>1. ASSUME WatchTest PROVE WatchCovered'
      <4>1. /\ watch'.reply = watch.reply /\ watch.reply = Awaiting /\ watch'.lease = watch.lease
            /\ watch'.started \in {watch.started, now} /\ watch'.pc # "extend"
        BY <2>0, <3>1 DEF WatchTest, Watch, WatchCovered
      <4>2. QED BY <2>0, <3>0, <4>1 DEF WatchCovered, Covered
    <3>2. ASSUME WatchAnswered PROVE WatchCovered'
      <4>1. CASE WatchAgain(watch.reply.code = "gone", watch.lease)
        BY <2>0, <3>a, <4>1 DEF WatchCovered
      <4>2. CASE watch' = [watch EXCEPT !.pc = "extend", !.read = now]
        <5>1. /\ watch'.reply = watch.reply /\ watch'.lease = watch.lease
              /\ watch'.started = watch.started /\ watch'.pc = "extend" /\ watch.reply.code = "ok"
          BY <2>0, <3>2, <4>2 DEF WatchAnswered, WatchAgain, Watch
        <5>2. QED BY <2>0, <3>0, <5>1 DEF WatchCovered, Covered
      <4>3. QED BY <3>2, <4>1, <4>2 DEF WatchAnswered
    <3>3. ASSUME Extend PROVE WatchCovered'
      <4>1. CASE WatchAgain(TRUE, watch.lease) \/ WatchAgain(FALSE, watch.lease)
        BY <2>0, <3>a, <4>1 DEF WatchCovered
      <4>2. CASE WatchAgain(watch.started + Lease <= watch.read, watch.started + Lease)
        <5> DEFINE over == watch.started + Lease <= watch.read
                   lease == watch.started + Lease
        <5>1. over \in BOOLEAN /\ lease \in Nat /\ WatchAgain(over, lease)
          BY <2>0, <4>2
        <5>2. watch.reply.code = "ok"
          BY <2>0, <3>3 DEF Extend, WatchCovered
        <5>3. lease > 0 => Covered(lease)
          BY <2>0, <5>2 DEF WatchCovered
        <5> HIDE DEF over, lease
        <5>4. QED BY <3>a, <5>1, <5>3
      <4>3. QED BY <3>3, <4>1, <4>2 DEF Extend
    <3>4. ASSUME WatchTimesOut PROVE WatchCovered'
      <4>1. /\ watch'.pc = watch.pc /\ watch'.started = watch.started /\ watch'.lease = watch.lease
            /\ watch'.reply.code = "none" /\ watch.pc = "confirming"
        BY <2>0, <3>4 DEF WatchTimesOut, WatchWaits, Watch, Reply
      <4>2. QED BY <2>0, <3>0, <4>1 DEF WatchCovered, Covered
    <3>5. WatchCovered'
      BY <2>7, <3>1, <3>2, <3>3, <3>4 DEF WatchStep
    <3>6. QED BY <2>w, <2>s, <3>0, <3>5 DEF LeaseInv
  <2>8. CASE UNCHANGED vars
    BY <2>w, <2>s, <2>8 DEF vars, LeaseInv
  <2>9. QED BY <2>1, <2>2, <2>3, <2>4, <2>5, <2>6, <2>7, <2>8 DEF Next
<1>3. QED BY TypeCorrect, <1>1, <1>2, PTL DEF Spec

\* While the agent works under a lease that it takes to hold, the platform has not
\* handed the job to another provider, for every lease, deadline, and order or
\* number of times in which the platform handles what the agent sent.
THEOREM NeverTwoProviders == Spec => []NoSecondProvider
<1>1. TypeOK /\ LeaseInv => NoSecondProvider
  <2> SUFFICES ASSUME TypeOK, LeaseInv, watch.pc # "none", watch.lease > 0, ~Cancelled
               PROVE  plat.state \notin {"offered", "elsewhere"}
    BY DEF NoSecondProvider
  <2>1. now \in Nat /\ watch.lease \in Nat /\ now < watch.lease
    BY DeliveryAssumption DEF DeliveryAssumption, TypeOK, Watch, Cancelled, WatchCancelled
  <2>2. Covered(watch.lease)
    BY DEF LeaseInv, WatchCovered
  <2>3. QED BY <2>1, <2>2 DEF Covered
<1>2. QED BY TypeCorrect, LeasesCovered, <1>1, PTL

-----------------------------------------------------------------------------
\* The frames of s are the stream's from the n-th on, in order and without a gap.
From(n, s) == \A i \in DOMAIN s : s[i] = n + i - 1

\* What was ever sent is a piece of the stream; who sends its end says how much there was.
Said(q) ==
    /\ q.kind = "frames" => From(q.offset, q.frames) /\ q.offset + Len(q.frames) <= stream.seq
    /\ q.kind = "result" /\ q.answer = "stream" =>
          main.answer = "stream" /\ q.offset = stream.seq

\* The platform has what the agent counts as uploaded, and of the rest no more than a batch
\* that was handled and not yet answered; the end goes out when nothing is left.
StreamInv ==
    /\ From(0, plat.frames)
    /\ From(stream.offset, stream.batch)
    /\ stream.offset + Len(stream.batch) = stream.seq
    /\ stream.offset <= Len(plat.frames) /\ Len(plat.frames) <= stream.seq
    /\ \A q \in sent : Said(q)
    /\ main.pc \notin {"confirming", "frames", "result"} => main.reply = Awaiting
    /\ main.pc = "frames" /\ main.reply \in Ok => stream.seq <= Len(plat.frames)
    /\ main.answer # "none" => main.pc \in {"posting", "result", "joining", "idle"}
    /\ main.answer = "stream" => stream.offset = stream.seq
    /\ plat.answer = "stream" => main.answer = "stream" /\ plat.total = stream.seq

\* A piece of the stream laid over its beginning, without a gap, makes a longer beginning.
LEMMA Spliced ==
    ASSUME NEW a \in Seq(Nat), NEW b \in Seq(Nat), NEW n \in Nat, n <= Len(a),
           From(0, a), From(n, b)
    PROVE  Len(SubSeq(a, 1, n) \o b) = n + Len(b) /\ From(0, SubSeq(a, 1, n) \o b)
<1> DEFINE head == SubSeq(a, 1, n)
<1>1. head \in Seq(Nat) /\ Len(head) = n /\ \A i \in 1..n : head[i] = a[i]
  <2>1. \A i \in 1..n : a[i] \in Nat
    OBVIOUS
  <2>2. /\ head \in Seq(Nat)
        /\ Len(head) = IF 1 <= n THEN n - 1 + 1 ELSE 0
        /\ \A i \in 1..(n - 1 + 1) : head[i] = a[1 + i - 1]
    BY <2>1, SubSeqProperties
  <2> HIDE DEF head
  <2>3. QED BY <2>2
<1> HIDE DEF head
<1>2. /\ head \o b \in Seq(Nat)
      /\ Len(head \o b) = n + Len(b)
      /\ \A i \in 1..(n + Len(b)) : (head \o b)[i] = IF i <= n THEN head[i] ELSE b[i - n]
  BY <1>1, ConcatProperties
<1>3. ASSUME NEW i \in 1..(n + Len(b))
      PROVE  (head \o b)[i] = 0 + i - 1
  <2>1. CASE i <= n
    <3>1. a[i] = 0 + i - 1
      BY <2>1 DEF From
    <3>2. QED BY <1>1, <1>2, <2>1, <3>1
  <2>2. CASE ~(i <= n)
    <3>1. b[i - n] = n + (i - n) - 1
      <4>1. i - n \in DOMAIN b
        BY <2>2
      <4>2. QED BY <4>1 DEF From
    <3>2. (head \o b)[i] = b[i - n]
      BY <1>2, <2>2
    <3>3. QED BY <3>1, <3>2
  <2>3. QED BY <2>1, <2>2
<1>4. DOMAIN (head \o b) = 1..(n + Len(b))
  BY <1>2
<1>5. QED BY <1>2, <1>3, <1>4 DEF From, head

\* One more frame, the next one, keeps a piece of the stream one.
LEMMA Extended ==
    ASSUME NEW n \in Nat, NEW s \in Seq(Nat), From(n, s)
    PROVE  /\ Len(Append(s, n + Len(s))) = Len(s) + 1
           /\ From(n, Append(s, n + Len(s)))
<1> DEFINE new == Append(s, n + Len(s))
<1>1. /\ new \in Seq(Nat) /\ Len(new) = Len(s) + 1
      /\ \A i \in 1..Len(s) : new[i] = s[i]
      /\ new[Len(s) + 1] = n + Len(s)
  BY AppendProperties
<1>2. DOMAIN new = 1..(Len(s) + 1)
  BY <1>1
<1> HIDE DEF new
<1>3. ASSUME NEW i \in 1..(Len(s) + 1)
      PROVE  new[i] = n + i - 1
  <2>1. CASE i = Len(s) + 1
    BY <1>1, <2>1
  <2>2. CASE i \in 1..Len(s)
    <3>1. s[i] = n + i - 1
      BY <2>2 DEF From
    <3>2. QED BY <1>1, <2>2, <3>1
  <2>3. QED BY <2>1, <2>2
<1>4. From(n, new)
  BY <1>2, <1>3 DEF From
<1>5. QED BY <1>1, <1>4 DEF new

\* A request handled adds to what the platform has, and nothing out of place; a batch that is
\* taken is there; the end that is taken comes after all of it.
LEMMA HandleStores ==
    ASSUME TypeOK, StreamInv, NEW q \in Request, Said(q), NEW reply, Handle(q, reply)
    PROVE  /\ From(0, plat'.frames)
           /\ Len(plat.frames) <= Len(plat'.frames) /\ Len(plat'.frames) <= stream.seq
           /\ q.kind = "frames" /\ reply \in Ok => q.offset + Len(q.frames) <= Len(plat'.frames)
           /\ plat'.answer = "stream" => main.answer = "stream" /\ plat'.total = stream.seq
<1>0. /\ plat \in PlatformView /\ plat.frames \in Seq(Nat) /\ Len(plat.frames) \in Nat
      /\ q.offset \in Nat /\ q.frames \in Seq(Nat) /\ Len(q.frames) \in Nat
      /\ stream.seq \in Nat /\ stream.offset \in Nat
      /\ From(0, plat.frames) /\ Len(plat.frames) <= stream.seq /\ stream.offset <= Len(plat.frames)
      /\ plat.answer = "stream" => main.answer = "stream" /\ plat.total = stream.seq
  BY DEF TypeOK, StreamInv, PlatformView, Request, Stream
<1>1. CASE q.kind = "ack" /\ Confirm(reply)
  <2>1. plat'.frames = plat.frames /\ plat'.answer = plat.answer /\ plat'.total = plat.total
    BY <1>0, <1>1 DEF Confirm, PlatformView
  <2>2. QED BY <1>0, <1>1, <2>1
<1>2. CASE q.kind = "frames" /\ Store(q, reply)
  <2>1. From(q.offset, q.frames) /\ q.offset + Len(q.frames) <= stream.seq /\ q.offset <= Len(plat.frames)
    BY <1>2 DEF Said, Store
  <2>2. CASE q.offset + Len(q.frames) <= Len(plat.frames)
    <3>1. plat' = plat
      BY <1>2, <2>2 DEF Store
    <3>2. QED BY <1>0, <2>2, <3>1
  <2>3. CASE ~(q.offset + Len(q.frames) <= Len(plat.frames))
    <3> DEFINE new == SubSeq(plat.frames, 1, q.offset) \o q.frames
    <3>1. plat' = [plat EXCEPT !.frames = new]
      BY <1>2, <2>3 DEF Store
    <3>2. Len(new) = q.offset + Len(q.frames) /\ From(0, new)
      BY <1>0, <2>1, Spliced
    <3> HIDE DEF new
    <3>3. plat'.frames = new /\ plat'.answer = plat.answer /\ plat'.total = plat.total
      BY <1>0, <3>1 DEF PlatformView
    <3>4. QED BY <1>0, <2>1, <2>3, <3>2, <3>3
  <2>4. QED BY <2>2, <2>3
<1>3. CASE q.kind = "result" /\ Consume(q, reply)
  <2>1. plat'.frames = plat.frames /\ plat'.answer = q.answer /\ plat'.total = q.offset
    BY <1>0, <1>3 DEF Consume, PlatformView
  <2>2. QED BY <1>0, <1>3, <2>1 DEF Said
<1>4. CASE reply \in Failed /\ plat' = plat
  <2>1. reply \notin Ok
    BY <1>4 DEF Failed, Ok, Reply
  <2>2. QED BY <1>0, <1>4, <2>1
<1>5. QED BY <1>1, <1>2, <1>3, <1>4 DEF Handle

\* Whatever the platform handles, the stream stays whole, as long as the threads do not move.
LEMMA HandledStaysWhole ==
    ASSUME TypeOK, StreamInv, NEW q \in Request, Said(q), NEW reply, Handle(q, reply),
           sent' = sent, stream' = stream,
           main'.pc = main.pc, main'.answer = main.answer,
           main.pc \notin {"confirming", "frames", "result"} => main'.reply = main.reply,
           main'.pc = "frames" /\ main'.reply \in Ok =>
               main.reply \in Ok \/ (q = FramesRequest /\ reply \in Ok)
    PROVE  StreamInv'
<1>1. /\ From(0, plat'.frames)
      /\ Len(plat.frames) <= Len(plat'.frames) /\ Len(plat'.frames) <= stream.seq
      /\ q.kind = "frames" /\ reply \in Ok => q.offset + Len(q.frames) <= Len(plat'.frames)
      /\ plat'.answer = "stream" => main.answer = "stream" /\ plat'.total = stream.seq
  BY HandleStores
<1>2. /\ Len(plat.frames) \in Nat /\ Len(plat'.frames) \in Nat
      /\ stream.offset \in Nat /\ stream.seq \in Nat /\ Len(stream.batch) \in Nat
  <2>1. plat' \in PlatformView
    BY HandleTyped, DeliveryAssumption DEF TypeOK
  <2>2. QED BY <2>1 DEF TypeOK, PlatformView, Stream
<1>3. (\A r \in sent : Said(r))'
  <2>1. ASSUME NEW r \in sent PROVE Said(r)'
    <3>1. Said(r)
      BY DEF StreamInv
    <3>2. QED BY <3>1 DEF Said
  <2>2. QED BY <2>1
<1>4. main'.pc = "frames" /\ main'.reply \in Ok => stream.seq <= Len(plat'.frames)
  <2>1. q = FramesRequest => q.kind = "frames" /\ q.offset = stream.offset /\ q.frames = stream.batch
    BY DEF FramesRequest
  <2>2. stream.offset + Len(stream.batch) = stream.seq
    BY DEF StreamInv
  <2>3. main.pc = "frames" /\ main.reply \in Ok => stream.seq <= Len(plat.frames)
    BY DEF StreamInv
  <2>4. QED BY <1>1, <1>2, <2>1, <2>2, <2>3
<1>5. Ok' = Ok /\ Awaiting' = Awaiting
  BY DEF Ok, Awaiting, Reply
<1>6. QED BY <1>1, <1>2, <1>3, <1>4, <1>5 DEF StreamInv, From

\* The relay thread may move on, answer or send, if it claims no more than was uploaded.
LEMMA MovesOn ==
    ASSUME TypeOK, StreamInv, plat' = plat, stream' = stream
    PROVE  /\ \A pc : /\ MainGoto(pc) /\ sent' = sent
                      /\ main.answer = "none" \/ pc \in {"posting", "result", "joining", "idle"}
                      /\ pc # "frames"
                      => StreamInv'
           /\ \A how : /\ Answer(how) /\ sent' = sent
                       /\ main.answer = "none"
                       /\ how = "stream" => stream.offset = stream.seq
                       => StreamInv'
           /\ \A pc \in {"confirming", "frames", "result"} : \A q :
                 /\ MainSends(pc, q)
                 /\ Said(q)
                 /\ main.reply = Awaiting
                 /\ main.answer = "none" \/ pc = "result"
                 => StreamInv'
<1>0. main \in RelayThread /\ Awaiting \notin Ok /\ Ok' = Ok /\ Awaiting' = Awaiting
  BY DEF TypeOK, Ok, Awaiting, Reply
<1>1. ASSUME NEW pc, MainGoto(pc), sent' = sent, pc # "frames",
             main.answer = "none" \/ pc \in {"posting", "result", "joining", "idle"}
      PROVE  StreamInv'
  <2>1. main'.pc = pc /\ main'.answer = main.answer /\ main'.reply = Awaiting
    BY <1>0, <1>1 DEF MainGoto, RelayThread
  <2>2. (\A r \in sent : Said(r))'
    BY <1>1, <2>1 DEF StreamInv, Said
  <2>3. QED BY <1>0, <1>1, <2>1, <2>2 DEF StreamInv, From
<1>2. ASSUME NEW how, Answer(how), sent' = sent, main.answer = "none",
             how = "stream" => stream.offset = stream.seq
      PROVE  StreamInv'
  <2>1. main'.pc = "posting" /\ main'.answer = how /\ main'.reply = Awaiting
    BY <1>0, <1>2 DEF Answer, RelayThread
  <2>2. (\A r \in sent : Said(r))'
    BY <1>2, <2>1 DEF StreamInv, Said
  <2>3. QED BY <1>0, <1>2, <2>1, <2>2 DEF StreamInv, From
<1>3. ASSUME NEW pc \in {"confirming", "frames", "result"}, NEW q, MainSends(pc, q), Said(q),
             main.reply = Awaiting, main.answer = "none" \/ pc = "result"
      PROVE  StreamInv'
  <2>1. main'.pc = pc /\ main'.answer = main.answer /\ main'.reply = Awaiting /\ sent' = sent \cup {q}
    BY <1>0, <1>3 DEF MainSends, RelayThread
  <2>2. (\A r \in sent : Said(r))'
    BY <1>3, <2>1 DEF StreamInv, Said
  <2>3. QED BY <1>0, <1>3, <2>1, <2>2 DEF StreamInv, From
<1>4. QED BY <1>1, <1>2, <1>3

\* A stream changes in two places only: a delta is added to the batch, and a batch that was
\* taken is let go.
LEMMA DeltaStaysWhole ==
    ASSUME TypeOK, StreamInv, Delta
    PROVE  StreamInv'
<1>0. /\ stream \in Stream /\ stream.batch \in Seq(Nat) /\ stream.seq \in Nat /\ stream.offset \in Nat
      /\ Len(plat.frames) \in Nat /\ Len(stream.batch) \in Nat
      /\ Ok' = Ok /\ Awaiting' = Awaiting
  BY DEF TypeOK, Stream, PlatformView, Ok, Awaiting, Reply
<1>1. /\ stream'.seq = stream.seq + 1 /\ stream'.offset = stream.offset
      /\ stream'.batch = Append(stream.batch, stream.seq)
      /\ UNCHANGED <<plat, sent, main>> /\ main.pc = "inferring"
  BY <1>0 DEF Delta, Stream
<1>2. /\ Len(stream'.batch) = Len(stream.batch) + 1
      /\ From(stream'.offset, stream'.batch)
  <2>1. stream.offset + Len(stream.batch) = stream.seq /\ From(stream.offset, stream.batch)
    BY DEF StreamInv
  <2>2. QED BY <1>0, <1>1, <2>1, Extended
<1>3. main.answer = "none"
  BY <1>1 DEF StreamInv, TypeOK, RelayThread
<1>4. (\A q \in sent : Said(q))'
  <2>1. ASSUME NEW q \in sent PROVE Said(q)'
    <3>1. Said(q) /\ q \in Request
      BY DEF StreamInv, TypeOK
    <3>2. q.offset \in Nat /\ Len(q.frames) \in Nat
      BY <3>1 DEF Request
    <3>3. QED BY <1>0, <1>1, <1>3, <3>1, <3>2 DEF Said, From
  <2>2. QED BY <1>1, <2>1
<1>5. /\ From(0, plat'.frames) /\ stream'.offset + Len(stream'.batch) = stream'.seq
      /\ stream'.offset <= Len(plat'.frames) /\ Len(plat'.frames) <= stream'.seq
  BY <1>0, <1>1, <1>2 DEF StreamInv
<1>6. /\ main'.pc = "inferring" /\ main'.answer = "none" /\ main'.reply = Awaiting
      /\ plat'.answer # "stream"
  BY <1>1, <1>3 DEF StreamInv
<1>7. QED BY <1>0, <1>2, <1>4, <1>5, <1>6 DEF StreamInv

\* A batch that was taken is let go: what is counted as uploaded is there.
LEMMA FlushedStaysWhole ==
    ASSUME TypeOK, StreamInv, Flushed
    PROVE  StreamInv'
<1>0. /\ stream \in Stream /\ stream.batch \in Seq(Nat) /\ stream.seq \in Nat /\ stream.offset \in Nat
      /\ Len(plat.frames) \in Nat /\ Len(stream.batch) \in Nat /\ main \in RelayThread
      /\ Ok' = Ok /\ Awaiting' = Awaiting
  BY DEF TypeOK, Stream, PlatformView, Ok, Awaiting, Reply
<1>1. /\ stream'.seq = stream.seq /\ stream'.offset = stream.seq /\ stream'.batch = <<>>
      /\ UNCHANGED <<plat, sent>> /\ main.pc = "frames" /\ main.reply \in Ok
  <2>1. stream'.offset = stream.offset + Len(stream.batch) /\ stream'.batch = <<>> /\ stream'.seq = stream.seq
    BY <1>0 DEF Flushed, Stream
  <2>2. stream.offset + Len(stream.batch) = stream.seq
    BY DEF StreamInv
  <2>3. QED BY <2>1, <2>2 DEF Flushed
<1>2. stream.seq <= Len(plat.frames) /\ Len(plat.frames) <= stream.seq
  BY <1>1 DEF StreamInv
<1>3. main.answer = "none" /\ plat.answer # "stream"
  BY <1>1 DEF StreamInv, TypeOK, RelayThread
<1>4. /\ main'.reply = Awaiting
      /\ \/ main'.pc = "posting" /\ main'.answer \in {"stream", "error"}
         \/ main'.pc = "inferring" /\ main'.answer = "none"
  BY <1>0, <1>3 DEF Flushed, Answer, MainGoto, RelayThread
<1>5. (\A q \in sent : Said(q))'
  <2>1. ASSUME NEW q \in sent PROVE Said(q)'
    <3>1. Said(q)
      BY DEF StreamInv
    <3>2. QED BY <1>1, <1>3, <3>1 DEF Said, From
  <2>2. QED BY <1>1, <2>1
<1>6. From(stream'.offset, stream'.batch) /\ Len(stream'.batch) = 0
  BY <1>1 DEF From
<1>7. QED BY <1>0, <1>1, <1>2, <1>3, <1>4, <1>5, <1>6 DEF StreamInv, From

\* Every step leaves the stream whole.
LEMMA StreamStep ==
    ASSUME TypeOK, StreamInv, [Next]_vars
    PROVE  StreamInv'
<1>0. /\ main \in RelayThread /\ stream \in Stream
      /\ AckRequest \in Request /\ FramesRequest \in Request /\ ResultRequest \in Request
      /\ Ok' = Ok /\ Awaiting' = Awaiting
  BY RequestsTyped DEF TypeOK, Ok, Awaiting, Reply
<1>1. Said(AckRequest) /\ Said(FramesRequest) /\ (main.pc = "posting" \/ main.pc = "result" => Said(ResultRequest))
  <2>1. stream.offset + Len(stream.batch) <= stream.seq
    BY <1>0 DEF StreamInv, Stream
  <2>2. Said(AckRequest)
    BY DEF Said, AckRequest
  <2>3. Said(FramesRequest)
    BY <2>1 DEF Said, FramesRequest, StreamInv
  <2>4. Said(ResultRequest)
    BY DEF Said, ResultRequest
  <2>5. QED BY <2>2, <2>3, <2>4
<1>2. CASE Tick \/ Withdraw \/ Redispatch
  <2>1. /\ UNCHANGED <<sent, main, stream>> /\ plat'.frames = plat.frames
        /\ plat'.answer = plat.answer /\ plat'.total = plat.total
    BY <1>2 DEF Tick, Withdraw, Redispatch, TypeOK, PlatformView
  <2>2. QED BY <1>0, <2>1 DEF StreamInv, From, Said
<1>3. CASE ServeMain
  <2>1. PICK reply \in Replies, q \in Request :
            q = MainRequest /\ Handle(q, reply) /\ main' = [main EXCEPT !.reply = reply]
    BY <1>0, <1>3 DEF ServeMain, MainWaits, MainRequest
  <2>2. Said(q) /\ (main.pc = "frames" => q = FramesRequest)
    BY <1>1, <1>3, <2>1 DEF ServeMain, MainWaits, MainRequest
  <2>3. main'.pc = main.pc /\ main'.answer = main.answer /\ main'.reply = reply
    BY <1>0, <2>1 DEF RelayThread
  <2>4. main.pc \in {"confirming", "frames", "result"} /\ sent' = sent /\ stream' = stream
    BY <1>3 DEF ServeMain, MainWaits
  <2>5. QED BY <2>1, <2>2, <2>3, <2>4, HandledStaysWhole
<1>4. CASE ServeWatch
  <2>1. PICK reply \in Replies, q \in Request : q = AckRequest /\ Handle(q, reply)
    BY <1>0, <1>4 DEF ServeWatch
  <2>2. UNCHANGED <<sent, main, stream>> /\ Said(q)
    BY <1>1, <1>4, <2>1 DEF ServeWatch
  <2>3. QED BY <2>1, <2>2, HandledStaysWhole
<1>5. CASE ServeLate
  <2>1. PICK q \in sent, reply \in Replies : Handle(q, reply)
    BY <1>5 DEF ServeLate
  <2>2. q \in Request /\ Said(q) /\ UNCHANGED <<sent, main, stream>>
    BY <1>5 DEF ServeLate, TypeOK, StreamInv
  <2>3. QED BY <2>1, <2>2, HandledStaysWhole
<1>6. CASE WatchStep
  <2>1. UNCHANGED <<plat, main, stream>> /\ sent' \subseteq sent \cup {AckRequest}
    BY <1>6 DEF WatchStep, WatchTest, WatchAnswered, Extend, WatchTimesOut
  <2>2. (\A q \in sent : Said(q))'
    <3>1. ASSUME NEW q \in sent' PROVE Said(q)'
      <4>1. Said(q)
        BY <1>1, <2>1 DEF StreamInv
      <4>2. QED BY <2>1, <4>1 DEF Said
    <3>2. QED BY <3>1
  <2>3. QED BY <1>0, <2>1, <2>2 DEF StreamInv, From
<1>7. CASE MainStep \/ Engine
  <2>1. CASE Delta
    BY <2>1, DeltaStaysWhole
  <2>2. CASE Flushed
    BY <2>2, FlushedStaysWhole
  <2>3. CASE MainTimesOut
    <3>1. main'.pc = main.pc /\ main'.answer = main.answer /\ main'.reply = Reply("none")
          /\ UNCHANGED <<plat, sent, stream>>
      BY <1>0, <2>3 DEF MainTimesOut, RelayThread
    <3>2. Reply("none") \notin Ok /\ main.pc \in {"confirming", "frames", "result"}
      BY <2>3 DEF Reply, Ok, MainTimesOut, MainWaits
    <3>3. QED BY <1>0, <3>1, <3>2 DEF StreamInv, From, Said
  <2>4. CASE Acknowledge
    <3>1. main.reply = Awaiting /\ main.answer = "none" /\ UNCHANGED <<plat, stream>>
      BY <1>0, <2>4 DEF Acknowledge, StreamInv, RelayThread
    <3>2. PICK q \in Request : q = AckRequest
      BY <1>0
    <3>3. QED BY <1>1, <2>4, <3>1, <3>2, MovesOn DEF Acknowledge
  <2>5. CASE Acknowledged
    <3>1. main.answer = "none" /\ UNCHANGED <<plat, stream, sent>>
      BY <1>0, <2>5 DEF Acknowledged, StreamInv, RelayThread
    <3>2. \E pc \in {"inferring", "idle", "received"} : MainGoto(pc) \/ Answer("error")
      BY <2>5 DEF Acknowledged
    <3>3. QED BY <3>1, <3>2, MovesOn
  <2>6. CASE Flush
    <3>1. main.reply = Awaiting /\ main.answer = "none" /\ UNCHANGED <<plat, stream>>
      BY <1>0, <2>6 DEF Flush, StreamInv, RelayThread
    <3>2. PICK q \in Request : q = FramesRequest
      BY <1>0
    <3>3. QED BY <1>1, <2>6, <3>1, <3>2, MovesOn DEF Flush
  <2>7. CASE NotFlushed
    <3>1. main.answer = "none" /\ UNCHANGED <<plat, stream, sent>>
      BY <1>0, <2>7 DEF NotFlushed, StreamInv, RelayThread
    <3>2. QED BY <2>7, <3>1, MovesOn DEF NotFlushed
  <2>8. CASE PostResult
    <3>1. main.reply = Awaiting /\ UNCHANGED <<plat, stream>>
      BY <2>8 DEF PostResult, StreamInv
    <3>2. PICK q \in Request : q = ResultRequest
      BY <1>0
    <3>3. QED BY <1>1, <2>8, <3>1, <3>2, MovesOn DEF PostResult, StopWatch
  <2>9. CASE Posted \/ JoinWatch
    BY <2>9, MovesOn DEF Posted, JoinWatch, StopWatch
  <2>10. CASE InferenceCut \/ EngineFails \/ WholeAnswer \/ BatchDue
    <3>1. main.answer = "none" /\ UNCHANGED <<plat, stream, sent>>
      BY <1>0, <2>10 DEF InferenceCut, EngineFails, WholeAnswer, BatchDue, StreamInv, RelayThread
    <3>2. QED BY <2>10, <3>1, MovesOn DEF InferenceCut, EngineFails, WholeAnswer, BatchDue
  <2>11. CASE StreamDone
    <3>1. main.answer = "none" /\ UNCHANGED <<plat, sent>>
      BY <1>0, <2>11 DEF StreamDone, StreamInv, RelayThread
    <3>2. CASE stream.batch = <<>>
      <4>1. stream.offset = stream.seq
        BY <1>0, <3>2 DEF StreamInv, Stream
      <4>2. QED BY <2>11, <3>1, <3>2, <4>1, MovesOn DEF StreamDone
    <3>3. CASE stream.batch # <<>>
      <4>1. /\ main'.pc = "flushing" /\ main'.answer = main.answer /\ main'.reply = Awaiting
            /\ stream'.seq = stream.seq /\ stream'.offset = stream.offset /\ stream'.batch = stream.batch
        BY <1>0, <2>11, <3>3 DEF StreamDone, MainGoto, RelayThread, Stream
      <4>2. QED BY <1>0, <3>1, <4>1 DEF StreamInv, From, Said
    <3>4. QED BY <3>2, <3>3
  <2>12. QED BY <1>7, <2>1, <2>2, <2>3, <2>4, <2>5, <2>6, <2>7, <2>8, <2>9, <2>10, <2>11
         DEF MainStep, Engine
<1>8. CASE UNCHANGED vars
  BY <1>0, <1>8 DEF vars, StreamInv, From, Said
<1>9. QED BY <1>2, <1>3, <1>4, <1>5, <1>6, <1>7, <1>8 DEF Next

\* A stream arrives as the engine said it: its frames in order, none twice and none left out,
\* and all of them before its end, whatever upload was repeated, lost or answered late.
THEOREM StreamsAreWhole == Spec => []StreamArrivesWhole
<1>1. Init => StreamInv
  BY DEF Init, StreamInv, From, Said, Awaiting, Reply
<1>2. TypeOK /\ StreamInv /\ [Next]_vars => StreamInv'
  BY StreamStep
<1>3. TypeOK /\ StreamInv => StreamArrivesWhole
  <2> SUFFICES ASSUME TypeOK, StreamInv PROVE StreamArrivesWhole
    OBVIOUS
  <2>1. FramesInOrder
    BY DEF StreamInv, From, FramesInOrder, TypeOK, PlatformView
  <2>2. FinishedIsComplete
    BY DEF StreamInv, FinishedIsComplete, TypeOK, PlatformView, Stream
  <2>3. QED BY <2>1, <2>2 DEF StreamArrivesWhole
<1>4. QED BY <1>1, <1>2, <1>3, TypeCorrect, PTL DEF Spec

-----------------------------------------------------------------------------
\* PlatformCall.

\* Where a lookup and a transfer may stand.
Lookups == [at : {"idle", "routed", "blocked", "queued", "waiting", "resolved"}, routes : 0..2]
Transfers ==
    [at : {"none", "check", "perform", "complete", "broken", "ok", "failed"},
     route : Int, routes : 0..2, sent : Int, got : Int,
     status : {"none", "connecting", "connected", "interim", "head", "body"},
     why : {"none", "blocked", "cancelled", "deadline", "stalled", "not connected", "transport", "refused"}]
Ages == [start : Nat, upload : Int, move : Int, answer : Int, body : Int]
CallTypeOK ==
    /\ lookup \in [Callers -> Lookups] /\ active_resolvers \in Int /\ held \in Int /\ orphans \in Nat
    /\ call \in CallKinds /\ xfer \in Transfers /\ age \in Ages
    /\ due \in Int /\ tries \in {0, 1} /\ abandoned \in BOOLEAN /\ reached \in Int /\ promptly \in Int

\* A transfer is only of a call that has its routes.
LookupIsOver == xfer.at # "none" => lookup[Me].at \in {"routed", "blocked"}

\* A transfer has a status once it is on a route; it was not connected only while it was
\* connecting, and what is blocked never was on a route.
Standing ==
    /\ xfer.at \in {"check", "perform", "complete", "broken", "ok"} => xfer.status # "none"
    /\ xfer.at = "none" => xfer.status = "none"
    /\ xfer.at \in {"none", "check", "perform", "complete", "ok"} => xfer.why = "none"
    /\ xfer.at = "broken" => xfer.why \in {"not connected", "transport", "refused"}
    /\ xfer.why = "not connected" => xfer.status = "connecting"
    /\ xfer.why = "blocked" => xfer.status = "none"
\* Both clocks of what moves last are the same; the upload is over when all of it has gone, or an
\* answer has begun; there is no body before an answer.
Clocks ==
    /\ xfer.status # "none" => age.move = promptly
    /\ xfer.status \in {"connecting", "connected"} =>
          age.body < 0 /\ (xfer.sent < call.size => age.upload < 0)
    /\ xfer.status \in {"interim", "head", "body"} => age.answer >= 0
    /\ due # -1 => xfer.status = "body"
\* The attempts behind this one.
Before == IF call.retries THEN 1 - tries ELSE 0
Attempts ==
    /\ tries = 1 => call.retries
    /\ reached <= Before + (IF xfer.status \in {"none", "connecting"} THEN 0 ELSE 1)
TransferInv ==
    /\ Standing /\ Clocks /\ Attempts
    /\ InTime /\ SlowIsNotStuck
CallInv == CallTypeOK /\ LookupsAreKept /\ LookupIsOver /\ TransferInv

-----------------------------------------------------------------------------
\* The callers whose lookup stands there.
Holding == {"queued", "waiting", "resolved"}
AtOneOf(S) == {c \in Callers : lookup[c].at \in S}
Counted ==
    /\ active_resolvers <= MaxResolvers
    /\ active_resolvers = Cardinality(AtOneOf({"waiting"})) + orphans
    /\ held = Cardinality(AtOneOf(Holding)) + orphans
LEMMA KeptIsCounted == LookupsAreKept <=> Counted
BY DEF LookupsAreKept, Counted, AtOneOf, Holding

LEMMA CallersFinite ==
    ASSUME NEW S
    PROVE  IsFiniteSet(AtOneOf(S)) /\ Cardinality(AtOneOf(S)) \in Nat
<1>1. AtOneOf(S) \in SUBSET Callers
  BY DEF AtOneOf
<1>2. QED BY <1>1, PlatformCallAssumption, FS_Subset, FS_CardinalityType

\* One lookup moves: it is counted where it is now, and no longer where it was.
One(holds) == IF holds THEN 1 ELSE 0
LEMMA OneMoves ==
    ASSUME CallTypeOK, NEW c \in Callers, NEW s, NEW routes, Look(c, s, routes), NEW S
    PROVE  Cardinality(AtOneOf(S)') = Cardinality(AtOneOf(S)) + One(s \in S) - One(lookup[c].at \in S)
<1>1. lookup' = [lookup EXCEPT ![c] = [at |-> s, routes |-> routes]] /\ lookup \in [Callers -> Lookups]
  BY DEF Look, CallTypeOK
<1>2. lookup'[c].at = s /\ \A d \in Callers : d # c => lookup'[d] = lookup[d]
  BY <1>1
<1>3. CASE (s \in S) <=> (lookup[c].at \in S)
  <2>1. AtOneOf(S)' = AtOneOf(S)
    BY <1>2, <1>3 DEF AtOneOf
  <2>2. QED BY <1>3, <2>1, CallersFinite DEF One
<1>4. CASE s \in S /\ lookup[c].at \notin S
  <2>1. AtOneOf(S)' = AtOneOf(S) \cup {c} /\ c \notin AtOneOf(S)
    BY <1>2, <1>4 DEF AtOneOf
  <2>2. Cardinality(AtOneOf(S)') = Cardinality(AtOneOf(S)) + 1
    BY <2>1, CallersFinite, FS_AddElement
  <2>3. QED BY <1>4, <2>2, CallersFinite DEF One
<1>5. CASE s \notin S /\ lookup[c].at \in S
  <2>1. AtOneOf(S)' = AtOneOf(S) \ {c} /\ c \in AtOneOf(S)
    BY <1>2, <1>5 DEF AtOneOf
  <2>2. Cardinality(AtOneOf(S)') = Cardinality(AtOneOf(S)) - 1
    BY <2>1, CallersFinite, FS_RemoveElement
  <2>3. QED BY <1>5, <2>2, CallersFinite DEF One
<1>6. QED BY <1>3, <1>4, <1>5

\* What is of the transfer alone.
LEMMA RestKept ==
    ASSUME TransferInv, UNCHANGED <<call, xfer, age, due, tries, abandoned, reached, promptly>>
    PROVE  TransferInv'
<1>1. (Standing /\ Clocks /\ Attempts)'
  BY DEF TransferInv, Standing, Clocks, Attempts, Before
<1>2. check_deadlines' = check_deadlines
  BY DEF check_deadlines, Late, Uploading, answer_ms
<1>3. InTime'
  BY <1>2 DEF TransferInv, InTime, AtMe
<1>4. SlowIsNotStuck'
  BY DEF TransferInv, SlowIsNotStuck, AtMe, Late
<1>5. QED BY <1>1, <1>3, <1>4 DEF TransferInv

\* What a step of a lookup leaves: the counters follow the lookup that moved.
LEMMA LookKeeps ==
    ASSUME CallInv, NEW c \in Callers, NEW s \in {"idle", "routed", "blocked", "queued", "waiting", "resolved"},
           NEW routes \in 0..2, Look(c, s, routes), UNCHANGED Restful,
           orphans' \in Nat, active_resolvers' \in Int, held' \in Int,
           active_resolvers' <= MaxResolvers,
           active_resolvers' - orphans' = active_resolvers - orphans + One(s = "waiting") - One(lookup[c].at = "waiting"),
           held' - orphans' = held - orphans + One(s \in Holding) - One(lookup[c].at \in Holding),
           c = Me /\ xfer.at # "none" => s \in {"routed", "blocked"}
    PROVE  CallInv'
<1>1. CallTypeOK /\ Counted /\ LookupIsOver /\ TransferInv
  BY KeptIsCounted DEF CallInv
<1>2. UNCHANGED <<call, xfer, age, due, tries, abandoned, reached, promptly>>
  BY DEF Restful
<1>3. lookup' = [lookup EXCEPT ![c] = [at |-> s, routes |-> routes]]
  BY DEF Look
<1>4. CallTypeOK'
  BY <1>1, <1>2, <1>3 DEF CallTypeOK, Lookups
<1>5. Counted'
  <2>1. /\ Cardinality(AtOneOf({"waiting"})') =
              Cardinality(AtOneOf({"waiting"})) + One(s \in {"waiting"}) - One(lookup[c].at \in {"waiting"})
        /\ Cardinality(AtOneOf(Holding)') =
              Cardinality(AtOneOf(Holding)) + One(s \in Holding) - One(lookup[c].at \in Holding)
    BY <1>1, OneMoves
  <2>2. One(s \in {"waiting"}) = One(s = "waiting") /\ One(lookup[c].at \in {"waiting"}) = One(lookup[c].at = "waiting")
    BY DEF One
  <2>3. /\ Cardinality(AtOneOf({"waiting"})) \in Int /\ Cardinality(AtOneOf(Holding)) \in Int
        /\ Cardinality(AtOneOf({"waiting"})') \in Int /\ Cardinality(AtOneOf(Holding)') \in Int
        /\ One(s = "waiting") \in Int /\ One(lookup[c].at = "waiting") \in Int
        /\ One(s \in Holding) \in Int /\ One(lookup[c].at \in Holding) \in Int
    <3>1. /\ One(s = "waiting") \in Int /\ One(lookup[c].at = "waiting") \in Int
          /\ One(s \in Holding) \in Int /\ One(lookup[c].at \in Holding) \in Int
      BY DEF One
    <3>2. QED BY <3>1, <2>1, <2>2, CallersFinite
  <2>4. active_resolvers \in Int /\ held \in Int /\ orphans \in Int /\ orphans' \in Int
    BY <1>1 DEF CallTypeOK
  <2>5. active_resolvers' = Cardinality(AtOneOf({"waiting"})') + orphans'
    BY <1>1, <2>1, <2>2, <2>3, <2>4 DEF Counted
  <2>6. held' = Cardinality(AtOneOf(Holding)') + orphans'
    BY <1>1, <2>1, <2>3, <2>4 DEF Counted
  <2>7. QED BY <2>5, <2>6 DEF Counted
<1>6. LookupIsOver'
  BY <1>1, <1>2, <1>3, PlatformCallAssumption DEF LookupIsOver, CallTypeOK
<1>7. TransferInv'
  BY <1>1, <1>2, RestKept
<1>8. LookupsAreKept'
  BY <1>5 DEF LookupsAreKept, Counted, AtOneOf, Holding
<1>9. QED BY <1>4, <1>6, <1>7, <1>8 DEF CallInv

\* Whoever waits, or is about to, has a query, and so has every resolver that nobody waits for.
LEMMA LookupKeeps ==
    ASSUME CallInv, LookupStep
    PROVE  CallInv'
<1>1. /\ CallTypeOK /\ LookupIsOver /\ TransferInv /\ Counted
      /\ active_resolvers \in Int /\ held \in Int /\ orphans \in Nat
  BY KeptIsCounted DEF CallInv, CallTypeOK
<1>2. MaxResolvers \in Int
  BY PlatformCallAssumption
<1>3. ASSUME NEW c \in Callers, LookupOf(c)
      PROVE  CallInv'
  <2>0. lookup[c] \in Lookups
    BY <1>1 DEF CallTypeOK
  <2>1. CASE Ask(c)
    <3>1. lookup[c].at = "idle" /\ (c = Me => xfer.at = "none") /\ UNCHANGED <<active_resolvers, orphans, Restful>>
      BY <2>1 DEF Ask, Idle, AtMe
    <3>2. CASE \E s \in {"routed", "blocked"}, routes \in {0, 1} : Look(c, s, routes) /\ UNCHANGED held
      BY <1>1, <1>2, <3>1, <3>2, LookKeeps DEF One, Holding, Counted
    <3>3. CASE Look(c, "queued", 0) /\ held' = held + 1
      BY <1>1, <1>2, <3>1, <3>3, LookKeeps DEF One, Holding, Counted
    <3>4. QED BY <2>1, <3>2, <3>3 DEF Ask
  <2>2. CASE StartResolver(c)
    <3>1. lookup[c].at = "queued" /\ active_resolvers < MaxResolvers /\ UNCHANGED <<orphans, Restful>>
      BY <2>2 DEF StartResolver
    <3>2. c = Me => xfer.at = "none"
      BY <1>1, <3>1 DEF LookupIsOver
    <3>3. CASE Look(c, "waiting", 0) /\ active_resolvers' = active_resolvers + 1 /\ UNCHANGED held
      BY <1>1, <1>2, <3>1, <3>2, <3>3, LookKeeps DEF One, Holding, Counted
    <3>4. CASE Look(c, "blocked", 0) /\ held' = held - 1 /\ UNCHANGED active_resolvers
      BY <1>1, <1>2, <3>1, <3>2, <3>4, LookKeeps DEF One, Holding, Counted
    <3>5. QED BY <2>2, <3>3, <3>4 DEF StartResolver
  <2>3. CASE Resolved(c)
    <3>1. lookup[c].at = "waiting" /\ active_resolvers' = active_resolvers - 1 /\ UNCHANGED <<held, orphans, Restful>>
      BY <2>3 DEF Resolved
    <3>2. c = Me => xfer.at = "none"
      BY <1>1, <3>1 DEF LookupIsOver
    <3>3. PICK routes \in 0..2 : Look(c, "resolved", routes)
      BY <2>3 DEF Resolved
    <3>4. QED BY <1>1, <1>2, <3>1, <3>2, <3>3, LookKeeps DEF One, Holding, Counted
  <2>4. CASE TakeVerdict(c)
    <3>1. lookup[c].at = "resolved" /\ held' = held - 1 /\ UNCHANGED <<active_resolvers, orphans, Restful>>
      BY <2>4 DEF TakeVerdict
    <3>2. PICK s \in {"blocked", "routed"} : Look(c, s, lookup[c].routes)
      BY <2>4 DEF TakeVerdict
    <3>3. lookup[c].routes \in 0..2
      BY <2>0 DEF Lookups
    <3>4. QED BY <1>1, <1>2, <3>1, <3>2, <3>3, LookKeeps DEF One, Holding, Counted
  <2>5. CASE GiveUp(c)
    <3>1. lookup[c].at \in Holding /\ Look(c, "blocked", 0) /\ UNCHANGED <<active_resolvers, Restful>>
      BY <2>5 DEF GiveUp, Holding
    <3>2. CASE lookup[c].at = "waiting" /\ orphans' = orphans + 1 /\ UNCHANGED held
      BY <1>1, <1>2, <3>1, <3>2, LookKeeps DEF One, Holding, Counted
    <3>3. CASE lookup[c].at # "waiting" /\ held' = held - 1 /\ UNCHANGED orphans
      BY <1>1, <1>2, <3>1, <3>3, LookKeeps DEF One, Holding, Counted
    <3>4. QED BY <2>5, <3>2, <3>3 DEF GiveUp
  <2>6. CASE CallsOn(c)
    <3>1. c # Me /\ lookup[c].at \in {"routed", "blocked"} /\ Look(c, "idle", 0)
          /\ UNCHANGED <<active_resolvers, held, orphans, Restful>>
      BY <2>6 DEF CallsOn, Look, Idle
    <3>2. QED BY <1>1, <1>2, <3>1, LookKeeps DEF One, Holding, Counted
  <2>7. QED BY <1>3, <2>1, <2>2, <2>3, <2>4, <2>5, <2>6 DEF LookupOf
<1>4. CASE OrphanReturns
  <2>1. /\ orphans' = orphans - 1 /\ active_resolvers' = active_resolvers - 1 /\ held' = held - 1
        /\ orphans > 0 /\ UNCHANGED <<lookup, Restful>>
    BY <1>4 DEF OrphanReturns
  <2>2. UNCHANGED <<call, xfer, age, due, tries, abandoned, reached, promptly>>
    BY <2>1 DEF Restful
  <2>3. CallTypeOK'
    BY <1>1, <2>1, <2>2 DEF CallTypeOK
  <2>4. AtOneOf({"waiting"})' = AtOneOf({"waiting"}) /\ AtOneOf(Holding)' = AtOneOf(Holding)
    BY <2>1 DEF AtOneOf
  <2>5. Counted'
    BY <1>1, <1>2, <2>1, <2>4, CallersFinite DEF Counted
  <2>6. LookupsAreKept'
    BY <2>5 DEF LookupsAreKept, Counted, AtOneOf, Holding
  <2>7. LookupIsOver' /\ TransferInv'
    BY <1>1, <2>1, <2>2, RestKept DEF LookupIsOver
  <2>8. QED BY <2>3, <2>6, <2>7 DEF CallInv
<1>5. QED BY <1>3, <1>4 DEF LookupStep

-----------------------------------------------------------------------------
\* A step of the transfer leaves the lookups alone.
LEMMA TransferKeeps ==
    ASSUME CallInv, UNCHANGED lookupVars, CallTypeOK', TransferInv',
           xfer'.at # "none" => lookup[Me].at \in {"routed", "blocked"}
    PROVE  CallInv'
<1>1. LookupsAreKept'
  BY DEF CallInv, LookupsAreKept, lookupVars
<1>2. LookupIsOver'
  BY DEF CallInv, LookupIsOver, lookupVars
<1>3. QED BY <1>1, <1>2 DEF CallInv

\* A transfer that ends, for a reason that is one.
Reasons == {"none", "blocked", "cancelled", "deadline", "stalled", "not connected", "transport", "refused"}
LEMMA FailsKeeps ==
    ASSUME CallInv, NEW why \in Reasons, Fails(why), lookup[Me].at \in {"routed", "blocked"},
           UNCHANGED <<lookupVars, call, age, due, tries, abandoned, reached, promptly>>,
           why = "not connected" => xfer.status = "connecting",
           why = "blocked" => xfer.status = "none",
           why = "stalled" => promptly >= call.idle,
           why = "deadline" /\ xfer.status = "connected" /\ xfer.sent < call.size =>
              Late(call.total, age.start) \/ Late(call.body, age.start)
    PROVE  CallInv'
<1>1. /\ xfer' \in Transfers /\ xfer'.at = "failed" /\ xfer'.why = why
      /\ xfer'.status = xfer.status /\ xfer'.sent = xfer.sent
  BY DEF Fails, CallInv, CallTypeOK, Transfers, Reasons
<1>2. CallTypeOK'
  BY <1>1 DEF CallInv, CallTypeOK, lookupVars
<1>3. Standing'
  BY <1>1 DEF Standing
<1>4. Clocks' /\ Attempts'
  BY <1>1 DEF CallInv, TransferInv, Clocks, Attempts, Before
<1>5. InTime'
  BY <1>1 DEF CallInv, TransferInv, InTime, AtMe
<1>6. SlowIsNotStuck'
  BY <1>1 DEF SlowIsNotStuck, AtMe, Late
<1>7. QED BY <1>1, <1>2, <1>3, <1>4, <1>5, <1>6, TransferKeeps DEF TransferInv

\* What the clocks say is what it is said to be.
LEMMA DeadlinesSay ==
    ASSUME CallInv, xfer.status # "none"
    PROVE  /\ check_deadlines \in {"none", "cancelled", "deadline", "stalled"}
           /\ check_deadlines = "stalled" => promptly >= call.idle
           /\ check_deadlines = "deadline" /\ xfer.status = "connected" /\ xfer.sent < call.size =>
                 Late(call.total, age.start) \/ Late(call.body, age.start)
<1>1. CallTypeOK /\ Clocks
  BY DEF CallInv, TransferInv
<1>2. check_deadlines \in {"none", "cancelled", "deadline", "stalled"}
  BY DEF check_deadlines
<1>3. check_deadlines = "stalled" => promptly >= call.idle
  <2>1. check_deadlines = "stalled" => Late(call.idle, age.move)
    BY DEF check_deadlines
  <2>2. age.move = promptly
    BY <1>1 DEF Clocks
  <2>3. QED BY <2>1, <2>2 DEF Late
<1>4. ASSUME check_deadlines = "deadline", xfer.status = "connected", xfer.sent < call.size
      PROVE  Late(call.total, age.start) \/ Late(call.body, age.start)
  <2>1. age.upload < 0 /\ age.body < 0 /\ due = -1
    BY <1>1, <1>4 DEF Clocks
  <2>2. Uploading /\ ~(age.body >= 0) /\ due # 0
    BY <1>1, <2>1 DEF Uploading, CallTypeOK, Ages
  <2>3. QED BY <1>4, <2>2 DEF check_deadlines
<1>5. QED BY <1>2, <1>3, <1>4

\* The clocks are asked before a turn, and behind the last.
LEMMA CheckKeeps ==
    ASSUME CallInv, Check \/ LastCheck
    PROVE  CallInv'
<1>1. /\ xfer.at \in {"check", "complete"} /\ lookup[Me].at \in {"routed", "blocked"} /\ xfer.status # "none"
      /\ UNCHANGED <<lookupVars, call, age, due, tries, abandoned, reached, promptly>>
  BY DEF Check, LastCheck, AtMe, CallInv, LookupIsOver, TransferInv, Standing
<1>2. CASE Fails(check_deadlines)
  <2>1. check_deadlines \in Reasons /\ check_deadlines \notin {"not connected", "blocked"}
    BY <1>1, DeadlinesSay DEF Reasons
  <2>2. QED BY <1>1, <1>2, <2>1, DeadlinesSay, FailsKeeps
<1>3. ASSUME NEW at \in {"perform", "ok"}, check_deadlines = "none", xfer' = [xfer EXCEPT !.at = at]
      PROVE  CallInv'
  <2>1. /\ xfer' \in Transfers /\ xfer'.at = at /\ xfer'.status = xfer.status
        /\ xfer'.sent = xfer.sent /\ xfer'.why = xfer.why
    BY <1>3 DEF CallInv, CallTypeOK, Transfers
  <2>2. CallTypeOK'
    BY <1>1, <2>1 DEF CallInv, CallTypeOK, lookupVars
  <2>3. Standing' /\ Clocks' /\ Attempts'
    BY <1>1, <2>1 DEF CallInv, TransferInv, Standing, Clocks, Attempts, Before
  <2>4. InTime'
    <3>1. check_deadlines' = check_deadlines
      BY <1>1 DEF check_deadlines, Late, Uploading, answer_ms
    <3>2. QED BY <1>1, <1>3, <3>1 DEF CallInv, TransferInv, InTime
  <2>5. SlowIsNotStuck'
    BY <2>1 DEF SlowIsNotStuck, AtMe
  <2>6. QED BY <1>1, <2>2, <2>3, <2>4, <2>5, TransferKeeps DEF TransferInv
<1>4. QED BY <1>2, <1>3 DEF Check, LastCheck

\* A transfer that goes on: it is neither complete nor failed.
Owed == due > 0 => \E ttl \in Ttls : due + age.answer <= ttl
LEMMA GoesOn ==
    ASSUME CallInv, UNCHANGED lookupVars, lookup[Me].at \in {"routed", "blocked"},
           xfer'.at \in {"check", "complete", "broken"},
           CallTypeOK', Standing', Clocks', Attempts', Owed'
    PROVE  CallInv'
<1>1. InTime'
  BY DEF InTime, AtMe, Owed
<1>2. SlowIsNotStuck'
  BY DEF SlowIsNotStuck, AtMe
<1>3. QED BY <1>1, <1>2, TransferKeeps DEF TransferInv

-----------------------------------------------------------------------------
\* What a clock is set to.
Now == 0
NotYet == -1
LEMMA Instants == Now \in Int /\ NotYet \in Int
BY DEF Now, NotYet

\* A turn of the loop that only moves the transfer, or breaks it.
LEMMA TurnKeeps ==
    ASSUME CallInv,
           Quiet \/ ConnectFails \/ ConnectTimesOut \/ AnswerCompletes \/ TransferBreaks
    PROVE  CallInv'
<1>1. /\ xfer.at = "perform" /\ lookup[Me].at \in {"routed", "blocked"} /\ xfer.status # "none"
      /\ UNCHANGED <<lookupVars, call, age, due, tries, abandoned, reached, promptly>>
      /\ CallTypeOK /\ Clocks /\ Attempts /\ Standing /\ InTime
  BY DEF Quiet, ConnectFails, ConnectTimesOut, AnswerCompletes, TransferBreaks, AtMe, CallInv,
     LookupIsOver, TransferInv, Standing
<1>2. /\ xfer' \in Transfers /\ xfer'.status = xfer.status /\ xfer'.sent = xfer.sent
      /\ \/ xfer'.at \in {"check", "complete"} /\ xfer'.why = "none"
         \/ /\ xfer'.at = "broken" /\ xfer'.why \in {"not connected", "transport", "refused"}
            /\ xfer'.why = "not connected" => xfer.status = "connecting"
  <2>1. xfer.why = "none"
    BY <1>1 DEF Standing
  <2>2. ASSUME NEW s \in {"check", "complete"}, xfer' = [xfer EXCEPT !.at = s]
        PROVE  /\ xfer' \in Transfers /\ xfer'.status = xfer.status /\ xfer'.sent = xfer.sent
               /\ xfer'.at = s /\ xfer'.why = "none"
    BY <1>1, <2>1, <2>2 DEF CallTypeOK, Transfers
  <2>3. ASSUME NEW why \in {"not connected", "transport", "refused"},
               xfer' = [xfer EXCEPT !.at = "broken", !.why = why]
        PROVE  /\ xfer' \in Transfers /\ xfer'.status = xfer.status /\ xfer'.sent = xfer.sent
               /\ xfer'.at = "broken" /\ xfer'.why = why
    BY <1>1, <2>3 DEF CallTypeOK, Transfers
  <2>4. CASE Quiet \/ AnswerCompletes
    BY <2>2, <2>4 DEF Quiet, AnswerCompletes
  <2>5. CASE ConnectFails \/ ConnectTimesOut
    BY <2>3, <2>5 DEF ConnectFails, ConnectTimesOut
  <2>6. CASE TransferBreaks
    BY <2>3, <2>6 DEF TransferBreaks
  <2>7. QED BY <2>4, <2>5, <2>6
<1>3. CallTypeOK'
  BY <1>1, <1>2 DEF CallTypeOK, lookupVars
<1>4. Standing'
  BY <1>1, <1>2 DEF Standing
<1>5. Clocks' /\ Attempts' /\ Owed'
  BY <1>1, <1>2 DEF Clocks, Attempts, Before, Owed, InTime
<1>6. QED BY <1>1, <1>2, <1>3, <1>4, <1>5, GoesOn

\* The request leaves on this route; some of it is uploaded.
LEMMA LeavesKeeps ==
    ASSUME CallInv, Connects \/ Uploads
    PROVE  CallInv'
<1>1. /\ xfer.at = "perform" /\ lookup[Me].at \in {"routed", "blocked"} /\ xfer.status # "none"
      /\ UNCHANGED <<lookupVars, call, due, tries, abandoned>>
      /\ CallTypeOK /\ Clocks /\ Attempts /\ Standing /\ InTime
  BY DEF Connects, Uploads, AtMe, CallInv, LookupIsOver, TransferInv, Standing
<1>2. CASE Connects
  <2>1. /\ xfer' = [xfer EXCEPT !.at = "check", !.status = "connected"] /\ reached' = reached + 1
        /\ xfer.status = "connecting" /\ UNCHANGED <<age, promptly>>
    BY <1>2 DEF Connects
  <2>2. /\ xfer' \in Transfers /\ xfer'.at = "check" /\ xfer'.why = xfer.why
        /\ xfer'.status = "connected" /\ xfer'.sent = xfer.sent
    BY <1>1, <2>1 DEF CallTypeOK, Transfers
  <2>3. CallTypeOK'
    BY <1>1, <2>1, <2>2 DEF CallTypeOK, lookupVars
  <2>4. Standing'
    BY <1>1, <2>1, <2>2 DEF Standing
  <2>5. Clocks'
    BY <1>1, <2>1, <2>2 DEF Clocks
  <2>6. Attempts'
    <3>1. reached \in Int /\ reached <= Before /\ Before \in Int
      BY <1>1, <2>1 DEF Attempts, Before, CallTypeOK
    <3>2. Before' = Before /\ reached' <= Before + 1
      BY <1>1, <2>1, <3>1 DEF Before
    <3>3. QED BY <1>1, <2>2, <3>2 DEF Attempts
  <2>7. Owed'
    BY <1>1, <2>1 DEF InTime, Owed
  <2>8. QED BY <1>1, <2>2, <2>3, <2>4, <2>5, <2>6, <2>7, GoesOn
<1>3. CASE Uploads
  <2>1. /\ xfer' = [xfer EXCEPT !.at = "check", !.sent = xfer.sent + 1]
        /\ xfer.status # "connecting" /\ xfer.sent < call.size
        /\ promptly' = 0 /\ UNCHANGED reached
    BY <1>3 DEF Uploads
  <2>2. call.size \in Int /\ xfer.sent \in Int /\ xfer \in Transfers /\ age \in Ages /\ age.upload \in Int
    <3>1. call \in CallKinds /\ xfer \in Transfers /\ age \in Ages
      BY <1>1 DEF CallTypeOK
    <3>2. call.size \in Measures
      BY <3>1 DEF CallKinds
    <3>3. call.size \in Int
      BY <3>2, PlatformCallAssumption DEF Measures
    <3>4. QED BY <3>1, <3>3 DEF Transfers, Ages
  <2>3. /\ xfer' \in Transfers /\ xfer'.at = "check" /\ xfer'.why = xfer.why
        /\ xfer'.status = xfer.status /\ xfer'.sent = xfer.sent + 1
    <3>1. PICK n : n = xfer.sent + 1
      OBVIOUS
    <3>2. n \in Int
      BY <2>2, <3>1
    <3>3. xfer' = [xfer EXCEPT !.at = "check", !.sent = n]
      BY <2>1, <3>1, Zenon
    <3>4. [xfer EXCEPT !.at = "check"] \in Transfers
      BY <2>2 DEF Transfers
    <3>5. [[xfer EXCEPT !.at = "check"] EXCEPT !.sent = n] \in Transfers
      BY <3>2, <3>4 DEF Transfers
    <3>6. xfer' \in Transfers
      BY <3>3, <3>5
    <3>7. xfer'.at = "check" /\ xfer'.why = xfer.why /\ xfer'.status = xfer.status /\ xfer'.sent = n
      BY <2>2, <3>3 DEF Transfers
    <3>8. QED BY <3>1, <3>6, <3>7
  <2>4. /\ age' \in Ages /\ age'.move = 0 /\ age'.body = age.body /\ age'.answer = age.answer
        /\ xfer.sent + 1 < call.size => age'.upload = age.upload
    <3>1. PICK u : u = IF age.upload < 0 /\ xfer.sent + 1 = call.size THEN 0 ELSE age.upload
      OBVIOUS
    <3>2. u \in Int /\ (xfer.sent + 1 < call.size => u = age.upload)
      BY <2>2, <3>1
    <3>3. age' = [age EXCEPT !.move = Now, !.upload = u]
      BY <1>3, <3>1, Zenon DEF Uploads, Now
    <3>4. age' \in Ages /\ age'.move = Now /\ age'.upload = u /\ age'.body = age.body /\ age'.answer = age.answer
      BY <2>2, <3>2, <3>3, Instants DEF Ages
    <3>5. QED BY <3>2, <3>4 DEF Now
  <2>5. CallTypeOK'
    BY <1>1, <2>1, <2>3, <2>4 DEF CallTypeOK, lookupVars
  <2>6. Standing' /\ Attempts'
    BY <1>1, <2>1, <2>3 DEF Standing, Attempts, Before
  <2>7. Clocks'
    BY <1>1, <2>1, <2>2, <2>3, <2>4 DEF Clocks
  <2>8. Owed'
    BY <1>1, <2>4 DEF InTime, Owed
  <2>9. QED BY <1>1, <2>3, <2>5, <2>6, <2>7, <2>8, GoesOn
<1>4. QED BY <1>2, <1>3

\* The answer comes: its first line, the end of its head, and what is in it.
LEMMA AnswerKeeps ==
    ASSUME CallInv, StatusLine \/ BlankLine \/ BodyArrives
    PROVE  CallInv'
<1>1. /\ xfer.at = "perform" /\ lookup[Me].at \in {"routed", "blocked"} /\ xfer.status # "none"
      /\ UNCHANGED <<lookupVars, call, tries, abandoned, reached>>
      /\ CallTypeOK /\ Clocks /\ Attempts /\ Standing /\ InTime
  BY DEF StatusLine, BlankLine, BodyArrives, AtMe, CallInv, LookupIsOver, TransferInv, Standing
<1>2. CASE StatusLine
  <2>1. PICK s \in {"interim", "head"} : xfer' = [xfer EXCEPT !.at = "check", !.status = s]
    BY <1>2 DEF StatusLine
  <2>2. xfer.status \in {"connected", "interim"} /\ UNCHANGED <<due, promptly>>
    BY <1>2 DEF StatusLine
  <2>3. age \in Ages /\ age.upload \in Int
    BY <1>1 DEF CallTypeOK, Ages
  <2>4. /\ xfer' \in Transfers /\ xfer'.at = "check" /\ xfer'.why = xfer.why
        /\ xfer'.status = s /\ xfer'.sent = xfer.sent
    BY <1>1, <2>1 DEF CallTypeOK, Transfers
  <2>5. age' \in Ages /\ age'.move = age.move /\ age'.answer = 0 /\ age'.body = -1
    <3>1. PICK u : u = IF age.upload < 0 THEN 0 ELSE age.upload
      OBVIOUS
    <3>2. u \in Int
      BY <2>3, <3>1
    <3>3. age' = [age EXCEPT !.answer = Now, !.body = NotYet, !.upload = u]
      BY <1>2, <3>1, Zenon DEF StatusLine, Now, NotYet
    <3>4. age' \in Ages /\ age'.move = age.move /\ age'.answer = Now /\ age'.body = NotYet
      BY <2>3, <3>2, <3>3, Instants DEF Ages
    <3>5. QED BY <3>4 DEF Now, NotYet
  <2>6. due = -1 /\ due' = -1
    BY <1>1, <2>2 DEF Clocks
  <2>7. CallTypeOK'
    BY <1>1, <2>2, <2>4, <2>5 DEF CallTypeOK, lookupVars
  <2>8. Standing' /\ Attempts'
    BY <1>1, <2>2, <2>4 DEF Standing, Attempts, Before
  <2>9. Clocks' /\ Owed'
    BY <1>1, <2>2, <2>4, <2>5, <2>6 DEF Clocks, Owed
  <2>10. QED BY <1>1, <2>4, <2>7, <2>8, <2>9, GoesOn
<1>3. CASE BlankLine
  <2>1. /\ xfer' = [xfer EXCEPT !.at = "check", !.status = "body"] /\ xfer.status = "head"
        /\ age' = [age EXCEPT !.body = 0, !.move = 0] /\ promptly' = 0 /\ UNCHANGED due
    BY <1>3 DEF BlankLine
  <2>2. /\ xfer' \in Transfers /\ xfer'.at = "check" /\ xfer'.why = xfer.why
        /\ xfer'.status = "body" /\ xfer'.sent = xfer.sent
    BY <1>1, <2>1 DEF CallTypeOK, Transfers
  <2>3. age' \in Ages /\ age'.move = 0 /\ age'.answer = age.answer
    <3>1. age' = [age EXCEPT !.body = Now, !.move = Now]
      BY <2>1, Zenon DEF Now
    <3>2. age' \in Ages /\ age'.move = Now /\ age'.answer = age.answer
      BY <1>1, <3>1, Instants DEF CallTypeOK, Ages
    <3>3. QED BY <3>2 DEF Now
  <2>4. CallTypeOK'
    BY <1>1, <2>1, <2>2, <2>3 DEF CallTypeOK, lookupVars
  <2>5. Standing' /\ Attempts' /\ Clocks' /\ Owed'
    BY <1>1, <2>1, <2>2, <2>3 DEF Standing, Attempts, Before, Clocks, InTime, Owed
  <2>6. QED BY <1>1, <2>2, <2>4, <2>5, GoesOn
<1>4. CASE BodyArrives
  <2>1. /\ xfer' = [xfer EXCEPT !.at = "check", !.got = xfer.got + 1] /\ xfer.status = "body"
        /\ age' = [age EXCEPT !.move = 0] /\ promptly' = 0
        /\ UNCHANGED due \/ \E ttl \in Ttls : due' = Due(ttl)
    BY <1>4 DEF BodyArrives
  <2>2. /\ xfer' \in Transfers /\ xfer'.at = "check" /\ xfer'.why = xfer.why
        /\ xfer'.status = "body" /\ xfer'.sent = xfer.sent
    <3>1. xfer \in Transfers /\ xfer.got \in Int
      BY <1>1 DEF CallTypeOK, Transfers
    <3>2. PICK n : n = xfer.got + 1
      OBVIOUS
    <3>3. n \in Int
      BY <3>1, <3>2
    <3>4. xfer' = [xfer EXCEPT !.at = "check", !.got = n]
      BY <2>1, <3>2, Zenon
    <3>5. [xfer EXCEPT !.at = "check"] \in Transfers
      BY <3>1 DEF Transfers
    <3>6. [[xfer EXCEPT !.at = "check"] EXCEPT !.got = n] \in Transfers
      BY <3>3, <3>5 DEF Transfers
    <3>7. xfer' \in Transfers
      BY <3>4, <3>6
    <3>8. xfer'.at = "check" /\ xfer'.why = xfer.why /\ xfer'.status = xfer.status /\ xfer'.sent = xfer.sent
      BY <3>1, <3>4 DEF Transfers
    <3>9. QED BY <2>1, <3>7, <3>8
  <2>3. age' \in Ages /\ age'.move = 0 /\ age'.answer = age.answer /\ age.answer \in Int
    BY <1>1, <2>1 DEF CallTypeOK, Ages
  <2>4. due' \in Int /\ Owed'
    <3>1. CASE UNCHANGED due
      BY <1>1, <2>3, <3>1 DEF CallTypeOK, InTime, Owed
    <3>2. ASSUME NEW ttl \in Ttls, due' = Due(ttl)
          PROVE  due' \in Int /\ Owed'
      BY <2>3, <3>2, PlatformCallAssumption DEF Due, Owed
    <3>3. QED BY <2>1, <3>1, <3>2
  <2>5. CallTypeOK'
    BY <1>1, <2>1, <2>2, <2>3, <2>4 DEF CallTypeOK, lookupVars
  <2>6. Standing' /\ Attempts' /\ Clocks'
    BY <1>1, <2>1, <2>2, <2>3 DEF Standing, Attempts, Before, Clocks
  <2>7. QED BY <1>1, <2>2, <2>4, <2>5, <2>6, GoesOn
<1>5. QED BY <1>2, <1>3, <1>4

\* A fresh transfer on a route, where nothing of the request can have left before.
LEMMA OnRouteKeeps ==
    ASSUME CallInv, NEW r \in Int, NEW a \in Ages, OnRoute(r, a), a.body < 0,
           xfer.status \in {"none", "connecting"}, lookup[Me].at \in {"routed", "blocked"},
           UNCHANGED <<lookupVars, call, due, tries, abandoned, reached>>
    PROVE  CallInv'
<1>1. CallTypeOK /\ Clocks /\ Attempts /\ lookup[Me].routes \in 0..2 /\ call.size \in Nat
  BY PlatformCallAssumption DEF CallInv, TransferInv, CallTypeOK, Lookups, CallKinds, Measures
<1>2. /\ xfer' \in Transfers /\ xfer'.at = "check" /\ xfer'.why = "none"
      /\ xfer'.status = "connecting" /\ xfer'.sent = 0
  <2>1. xfer' = [at |-> "check", route |-> r, routes |-> lookup[Me].routes, sent |-> 0, got |-> 0,
                 status |-> "connecting", why |-> "none"]
    BY DEF OnRoute, NoTransfer
  <2>2. QED BY <1>1, <2>1 DEF Transfers
<1>3. PICK u : u = IF call.size = 0 THEN 0 ELSE -1
  OBVIOUS
<1>4. /\ age' \in Ages /\ age'.move = 0 /\ age'.body = a.body /\ promptly' = 0
      /\ call.size > 0 => age'.upload = -1
  <2>1. u \in Int /\ (call.size > 0 => u = -1)
    BY <1>1, <1>3
  <2>2. age' = [a EXCEPT !.move = Now, !.upload = u]
    BY <1>3, Zenon DEF OnRoute, Now
  <2>3. age' \in Ages /\ age'.move = Now /\ age'.upload = u /\ age'.body = a.body
    BY <2>1, <2>2, Instants DEF Ages
  <2>4. QED BY <2>1, <2>3 DEF OnRoute, Now
<1>5. due = -1 /\ UNCHANGED due
  BY <1>1 DEF Clocks
<1>6. CallTypeOK'
  BY <1>1, <1>2, <1>4 DEF CallTypeOK, lookupVars
<1>7. Standing' /\ Attempts' /\ Clocks' /\ Owed'
  BY <1>1, <1>2, <1>3, <1>4, <1>5 DEF Standing, Attempts, Before, Clocks, Owed
<1>8. QED BY <1>2, <1>6, <1>7, GoesOn

\* The routes are tried in order, or the call fails.
LEMMA RouteKeeps ==
    ASSUME CallInv, Begin \/ NextRoute \/ NoRoute
    PROVE  CallInv'
<1>1. CallTypeOK /\ Clocks /\ Standing
  BY DEF CallInv, TransferInv
<1>2. CASE Begin
  <2>1. /\ xfer.at = "none" /\ lookup[Me].at \in {"routed", "blocked"} /\ xfer.status = "none"
        /\ UNCHANGED <<lookupVars, call, due, tries, abandoned, reached>>
    BY <1>1, <1>2 DEF Begin, AtMe, Standing
  <2>2. CASE Fails("blocked") /\ UNCHANGED <<age, promptly>>
    BY <2>1, <2>2, FailsKeeps DEF Reasons
  <2>3. CASE OnRoute(1, NoAge)
    <3>1. NoAge \in Ages /\ NoAge.body < 0
      BY DEF NoAge, Ages
    <3>2. QED BY <2>1, <2>3, <3>1, OnRouteKeeps
  <2>4. QED BY <1>2, <2>2, <2>3 DEF Begin
<1>3. CASE NextRoute
  <2>1. /\ xfer.status = "connecting" /\ lookup[Me].at \in {"routed", "blocked"} /\ xfer.route \in Int
        /\ UNCHANGED <<lookupVars, call, due, tries, abandoned, reached>>
    BY <1>1, <1>3 DEF NextRoute, AtMe, Standing, CallInv, LookupIsOver, CallTypeOK, Transfers
  <2>2. age \in Ages /\ age.body < 0
    BY <1>1, <2>1 DEF Clocks, CallTypeOK
  <2>3. CASE OnRoute(xfer.route + 1, age)
    <3>1. PICK r : r = xfer.route + 1
      OBVIOUS
    <3>2. r \in Int /\ OnRoute(r, age)
      BY <2>1, <2>3, <3>1
    <3>3. QED BY <2>1, <2>2, <3>2, OnRouteKeeps
  <2>4. CASE Fails("deadline") /\ UNCHANGED <<age, promptly>>
    BY <2>1, <2>4, FailsKeeps DEF Reasons
  <2>5. QED BY <1>3, <2>3, <2>4 DEF NextRoute
<1>4. CASE NoRoute
  <2>1. /\ xfer.status # "none" /\ lookup[Me].at \in {"routed", "blocked"}
        /\ UNCHANGED <<lookupVars, call, age, due, tries, abandoned, reached, promptly>>
    BY <1>1, <1>4 DEF NoRoute, AtMe, Standing, CallInv, LookupIsOver
  <2>2. CASE check_deadlines # "none" /\ Fails(check_deadlines)
    <3>1. check_deadlines \in Reasons /\ check_deadlines \notin {"not connected", "blocked"}
      BY <2>1, DeadlinesSay DEF Reasons
    <3>2. QED BY <2>1, <2>2, <3>1, DeadlinesSay, FailsKeeps
  <2>3. CASE Fails(xfer.why)
    <3>1. xfer.why \in Reasons \ {"blocked", "stalled", "deadline"}
      BY <1>1, <1>4, <2>1 DEF NoRoute, AtMe, CallTypeOK, Transfers, Reasons, Standing
    <3>2. QED BY <1>1, <2>1, <2>3, <3>1, FailsKeeps DEF Standing
  <2>4. QED BY <1>4, <2>2, <2>3 DEF NoRoute
<1>5. QED BY <1>2, <1>3, <1>4

\* A read that had no answer begins again, in what is left of its time.
LEMMA TryAgainKeeps ==
    ASSUME CallInv, TryAgain
    PROVE  CallInv'
<1>1. /\ CallTypeOK /\ Clocks /\ Standing /\ Attempts /\ Counted /\ xfer.at = "failed"
      /\ lookup[Me].at \in {"routed", "blocked"} /\ Me \in Callers
  BY KeptIsCounted, PlatformCallAssumption DEF TryAgain, AtMe, CallInv, TransferInv, LookupIsOver
<1>2. /\ tries > 0 /\ age.answer < 0 /\ age.start < call.total /\ tries' = tries - 1
      /\ xfer' = NoTransfer /\ age' = NoAge
      /\ Look(Me, "idle", 0)
      /\ UNCHANGED <<active_resolvers, held, orphans, due, abandoned, reached, promptly>>
  BY DEF TryAgain, Look, Idle
<1>3. call' \in CallKinds /\ call'.retries = call.retries
  <2>1. call \in CallKinds /\ call.total \in Measures /\ age.start \in Nat
    BY <1>1 DEF CallTypeOK, CallKinds, Ages
  <2>2. PICK t : t = call.total - age.start
    OBVIOUS
  <2>3. t \in Measures
    BY <1>2, <2>1, <2>2, PlatformCallAssumption DEF Measures
  <2>4. call' = [call EXCEPT !.total = t]
    BY <2>2, Zenon DEF TryAgain
  <2>5. QED BY <2>1, <2>3, <2>4 DEF CallKinds
<1>4. CallTypeOK'
  <2>1. lookup' \in [Callers -> Lookups]
    BY <1>1, <1>2 DEF Look, CallTypeOK, Lookups
  <2>2. xfer' \in Transfers /\ age' \in Ages
    BY <1>2 DEF NoTransfer, NoAge, Transfers, Ages
  <2>3. tries' \in {0, 1}
    BY <1>1, <1>2 DEF CallTypeOK
  <2>4. QED BY <1>1, <1>2, <1>3, <2>1, <2>2, <2>3 DEF CallTypeOK
<1>5. LookupsAreKept'
  <2>1. \A S : "idle" \notin S /\ lookup[Me].at \notin S => Cardinality(AtOneOf(S)') = Cardinality(AtOneOf(S))
    <3>1. TAKE S
    <3>2. HAVE "idle" \notin S /\ lookup[Me].at \notin S
    <3>3. Cardinality(AtOneOf(S)') = Cardinality(AtOneOf(S)) + One("idle" \in S) - One(lookup[Me].at \in S)
      BY <1>1, <1>2, OneMoves
    <3>4. QED BY <3>2, <3>3, CallersFinite DEF One
  <2>2. Counted'
    BY <1>1, <1>2, <2>1 DEF Counted, Holding
  <2>3. QED BY <2>2 DEF LookupsAreKept, Counted, AtOneOf, Holding
<1>6. xfer'.at = "none" /\ xfer'.status = "none" /\ xfer'.why = "none"
  BY <1>2 DEF NoTransfer
<1>7. due = -1
  BY <1>1, <1>2 DEF Clocks, CallTypeOK, Ages
<1>8. Standing' /\ Clocks' /\ LookupIsOver'
  BY <1>2, <1>6, <1>7 DEF Standing, Clocks, LookupIsOver
<1>9. Attempts'
  <2>1. tries = 1 /\ tries' = 0 /\ call.retries /\ reached \in Int
    BY <1>1, <1>2 DEF Attempts, CallTypeOK
  <2>2. reached <= 1
    BY <1>1, <2>1 DEF Attempts, Before
  <2>3. QED BY <1>2, <1>3, <1>6, <2>1, <2>2 DEF Attempts, Before
<1>10. InTime' /\ SlowIsNotStuck'
  BY <1>2, <1>6, <1>7 DEF InTime, SlowIsNotStuck, AtMe
<1>11. QED BY <1>4, <1>5, <1>8, <1>9, <1>10 DEF CallInv, TransferInv

\* The caller gives up: what is said from then on is "cancelled".
LEMMA LeaveKeeps ==
    ASSUME CallInv, Leave
    PROVE  CallInv'
<1>1. /\ UNCHANGED <<lookupVars, call, xfer, age, due, tries, reached, promptly>> /\ abandoned' = TRUE
      /\ CallTypeOK /\ LookupIsOver /\ TransferInv
  BY DEF Leave, CallInv
<1>2. CallTypeOK'
  BY <1>1 DEF CallTypeOK, lookupVars
<1>3. Standing' /\ Clocks' /\ Attempts' /\ SlowIsNotStuck'
  BY <1>1 DEF TransferInv, Standing, Clocks, Attempts, Before, SlowIsNotStuck, AtMe, Late
<1>4. InTime'
  <2>1. check_deadlines' = "cancelled"
    BY <1>1 DEF check_deadlines
  <2>2. QED BY <1>1, <2>1 DEF TransferInv, InTime
<1>5. QED BY <1>1, <1>2, <1>3, <1>4, TransferKeeps DEF TransferInv, LookupIsOver

\* Time goes by.
LEMMA GrowsOlder ==
    ASSUME NEW a \in Int
    PROVE  /\ Older(a) \in Int /\ (a < 0 <=> Older(a) < 0) /\ Older(a) <= a + 1
           /\ (a \in Nat => Older(a) \in Nat)
BY PlatformCallAssumption DEF Older
LEMMA CallTickKeeps ==
    ASSUME CallInv, CallTick
    PROVE  CallInv'
<1>1. /\ CallTypeOK /\ Clocks /\ Standing /\ Attempts /\ InTime
      /\ UNCHANGED <<lookupVars, call, xfer, tries, abandoned, reached>>
      /\ xfer.at \in {"check", "perform", "complete", "broken"} /\ lookup[Me].at \in {"routed", "blocked"}
      /\ due' = (IF due > 0 THEN due - 1 ELSE due) /\ promptly' = Older(promptly)
      /\ age' = [k \in DOMAIN age |-> Older(age[k])]
  BY DEF CallTick, CallInv, TransferInv, LookupIsOver
<1>2. age \in Ages /\ due \in Int /\ promptly \in Int
  BY <1>1 DEF CallTypeOK
<1>3. age' = [start |-> Older(age.start), upload |-> Older(age.upload), move |-> Older(age.move),
              answer |-> Older(age.answer), body |-> Older(age.body)]
  BY <1>1, <1>2 DEF Ages
<1>4. age' \in Ages /\ age'.move = Older(age.move) /\ age'.answer = Older(age.answer)
      /\ age'.body = Older(age.body) /\ age'.upload = Older(age.upload)
  <2>1. Older(age.start) \in Nat /\ Older(age.upload) \in Int /\ Older(age.move) \in Int
        /\ Older(age.answer) \in Int /\ Older(age.body) \in Int
    BY <1>2, GrowsOlder DEF Ages
  <2>2. QED BY <1>3, <2>1 DEF Ages
<1>5. due' \in Int /\ promptly' \in Int
  BY <1>1, <1>2, GrowsOlder
<1>6. CallTypeOK'
  BY <1>1, <1>4, <1>5 DEF CallTypeOK, lookupVars
<1>7. age.answer \in Int /\ age.body \in Int /\ age.upload \in Int /\ age.move \in Int
  BY <1>2 DEF Ages
<1>8. /\ (age.body < 0 <=> age'.body < 0) /\ (age.upload < 0 <=> age'.upload < 0)
      /\ (age.answer >= 0 => age'.answer >= 0) /\ age'.answer <= age.answer + 1 /\ age'.answer \in Int
  <2>1. /\ Older(age.answer) \in Int /\ (age.answer < 0 <=> Older(age.answer) < 0)
        /\ Older(age.answer) <= age.answer + 1
    BY <1>7, GrowsOlder
  <2>2. (age.body < 0 <=> Older(age.body) < 0) /\ (age.upload < 0 <=> Older(age.upload) < 0)
    BY <1>7, GrowsOlder
  <2>3. QED BY <1>4, <1>7, <2>1, <2>2
<1>9. Clocks'
  <2>1. due' # -1 => due # -1
    BY <1>1, <1>2
  <2>2. QED BY <1>1, <1>4, <1>8, <2>1 DEF Clocks
<1>10. Owed'
  <2>1. ASSUME due' > 0
        PROVE  \E ttl \in Ttls : due' + age'.answer <= ttl
    <3>1. due > 0 /\ due' = due - 1
      BY <1>1, <1>2, <2>1
    <3>2. PICK ttl \in Ttls : due + age.answer <= ttl
      BY <1>1, <3>1 DEF InTime
    <3>3. due' + age'.answer <= ttl
      BY <1>2, <1>7, <1>8, <3>1, <3>2, PlatformCallAssumption
    <3>4. QED BY <3>3
  <2>2. QED BY <2>1 DEF Owed
<1>11. Standing' /\ Attempts'
  BY <1>1 DEF Standing, Attempts, Before
<1>12. CASE xfer.at = "complete" \/ xfer.at \in {"check", "broken"}
  BY <1>1, <1>6, <1>9, <1>10, <1>11, <1>12, GoesOn
<1>13. CASE xfer.at = "perform"
  <2>1. InTime' /\ SlowIsNotStuck'
    BY <1>1, <1>10, <1>13 DEF InTime, SlowIsNotStuck, AtMe, Owed
  <2>2. QED BY <1>1, <1>6, <1>9, <1>11, <2>1, TransferKeeps DEF TransferInv
<1>14. QED BY <1>1, <1>12, <1>13

-----------------------------------------------------------------------------
LEMMA CallStarts == PlatformCallInit => CallInv
<1> SUFFICES ASSUME PlatformCallInit PROVE CallInv
  OBVIOUS
<1>1. /\ lookup = [c \in Callers |-> Idle] /\ active_resolvers = 0 /\ held = 0 /\ orphans = 0 /\ call \in Calls
      /\ xfer = NoTransfer /\ age = NoAge /\ due = -1 /\ tries = (IF call.retries THEN 1 ELSE 0)
      /\ abandoned = FALSE /\ reached = 0 /\ promptly = 0
  BY DEF PlatformCallInit
<1>2. CallTypeOK
  <2>1. lookup \in [Callers -> Lookups]
    BY <1>1 DEF Idle, Lookups
  <2>2. xfer \in Transfers /\ age \in Ages
    BY <1>1 DEF NoTransfer, NoAge, Transfers, Ages
  <2>3. call \in CallKinds
    BY <1>1, PlatformCallAssumption
  <2>4. tries \in {0, 1}
    BY <1>1
  <2>5. /\ active_resolvers \in Int /\ held \in Int /\ orphans \in Nat /\ due \in Int
        /\ reached \in Int /\ promptly \in Int
    BY <1>1
  <2>6. abandoned \in BOOLEAN
    BY <1>1
  <2>7. QED BY <2>1, <2>2, <2>3, <2>4, <2>5, <2>6 DEF CallTypeOK
<1>3. LookupsAreKept
  <2>1. AtOneOf({"waiting"}) = {} /\ AtOneOf(Holding) = {}
    BY <1>1 DEF AtOneOf, Holding, Idle
  <2>2. Cardinality({}) = 0
    BY FS_EmptySet
  <2>3. Counted
    BY <1>1, <2>1, <2>2, PlatformCallAssumption DEF Counted
  <2>4. QED BY <2>3, KeptIsCounted
<1>4. xfer.at = "none" /\ xfer.status = "none" /\ xfer.why = "none" /\ age.move = 0 /\ LookupIsOver
  BY <1>1 DEF NoTransfer, NoAge, LookupIsOver
<1>5. Standing /\ Clocks
  BY <1>1, <1>4 DEF Standing, Clocks
<1>6. Attempts
  BY <1>1, <1>2, <1>4 DEF Attempts, Before, CallTypeOK, CallKinds
<1>7. InTime /\ SlowIsNotStuck
  BY <1>1, <1>4 DEF InTime, SlowIsNotStuck, AtMe
<1>8. QED BY <1>2, <1>3, <1>4, <1>5, <1>6, <1>7 DEF CallInv, TransferInv

LEMMA CallStepKeeps == CallInv /\ [PlatformCallNext]_callVars => CallInv'
<1> SUFFICES ASSUME CallInv, [PlatformCallNext]_callVars PROVE CallInv'
  OBVIOUS
<1>1. CASE LookupStep
  BY <1>1, LookupKeeps
<1>2. CASE TransferStep
  BY <1>2, CheckKeeps, TurnKeeps, LeavesKeeps, AnswerKeeps, RouteKeeps, TryAgainKeeps DEF TransferStep
<1>3. CASE Leave
  BY <1>3, LeaveKeeps
<1>4. CASE CallTick
  BY <1>4, CallTickKeeps
<1>5. CASE UNCHANGED callVars
  <2>1. UNCHANGED <<lookupVars, call, xfer, age, due, tries, abandoned, reached, promptly>>
    BY <1>5 DEF callVars, lookupVars
  <2>2. CallTypeOK'
    BY <2>1 DEF CallInv, CallTypeOK, lookupVars
  <2>3. TransferInv'
    BY <2>1, RestKept DEF CallInv
  <2>4. QED BY <2>1, <2>2, <2>3, TransferKeeps DEF CallInv, LookupIsOver
<1>6. QED BY <1>1, <1>2, <1>3, <1>4, <1>5 DEF PlatformCallNext

\* The lookups and what leaves a route are told by the counts.
LEMMA CallInvIsEnough == CallInv => CallIsKept
<1> SUFFICES ASSUME CallInv PROVE CallIsKept
  OBVIOUS
<1>1. CallTypeOK /\ Attempts /\ Standing
  BY DEF CallInv, TransferInv
<1>2. LeavesOnce
  <2>1. tries \in {0, 1} /\ reached \in Int /\ Before \in {0, 1} /\ (~call.retries => Before = 0)
    BY <1>1 DEF CallTypeOK, Before
  <2>2. reached <= Before + 1 /\ (xfer.why = "blocked" => reached <= Before)
    <3>1. CASE xfer.status \in {"none", "connecting"}
      BY <1>1, <2>1, <3>1 DEF Attempts
    <3>2. CASE xfer.status \notin {"none", "connecting"}
      BY <1>1, <2>1, <3>2 DEF Attempts, Standing
    <3>3. QED BY <3>1, <3>2
  <2>3. QED BY <2>1, <2>2 DEF LeavesOnce
<1>3. QED BY <1>2 DEF CallInv, TransferInv, CallIsKept

\* However many threads call, whatever their budgets and whatever fails: no more than two resolvers
\* run and none writes to a query that is gone, a request leaves on one route only, an answer is in
\* time, and a server that is slow to answer never stops an upload that moves.
THEOREM PlatformCallsAreKept == PlatformCallSpec => []CallIsKept
BY CallStarts, CallStepKeeps, CallInvIsEnough, PTL DEF PlatformCallSpec

\* The least of a set of naturals: the step of every induction here.
LEMMA LeastOf ==
    ASSUME NEW T, T \subseteq Nat, T # {}
    PROVE  \E m \in T : \A k \in T : m <= k
<1> DEFINE Below == {p \in Nat \X Nat : p[1] < p[2]}
<1>1. IsWellFoundedOn(Below, Nat)
  BY NatLessThanWellFounded DEF OpToRel
<1>2. PICK m \in T : \A k \in T : <<k, m>> \notin Below
  <2> HIDE DEF Below
  <2> QED BY <1>1, WFMin
<1>3. ASSUME NEW k \in T PROVE m <= k
  <2>1. k \in Nat /\ m \in Nat /\ <<k, m>> \notin Below
    BY <1>2
  <2>2. QED BY <2>1
<1>4. QED BY <1>3

-----------------------------------------------------------------------------
(* HttpRead.  What the head says (request_framing), line by line. *)
Texts == [length : Nat \cup {-1}, chunked : BOOLEAN, expect : BOOLEAN, error : {"none", "invalid", "too large"}]
Reads(lines, f, n) == f = [i \in 0..n |-> IF i = 0 THEN NoFraming ELSE Read1(f[i - 1], lines[i])]

\* A line more keeps the framing one.
LEMMA LineRead ==
    ASSUME NEW f \in Texts, NEW p \in Pieces
    PROVE  /\ Read1(f, p) \in Texts
           /\ Read1(f, p).error = "none" =>
                /\ f.error = "none" /\ Flaw(f, p) = "none"
                /\ Read1(f, p).length = IF p.kind = "length" THEN p.n ELSE f.length
                /\ Read1(f, p).chunked = (f.chunked \/ p.kind = "chunked")
<1>1. Flaw(f, p) \in {"none", "invalid", "too large"}
  BY DEF Flaw
<1>2. CASE f.error # "none"
  BY <1>2 DEF Read1
<1>3. CASE f.error = "none" /\ Flaw(f, p) # "none"
  BY <1>1, <1>3 DEF Read1, Texts
<1>4. CASE f.error = "none" /\ Flaw(f, p) = "none"
  <2>1. p.n \in Nat /\ f.length \in Nat \cup {-1}
    BY DEF Pieces, Texts
  <2>2. PICK len : len = IF p.kind = "length" THEN p.n ELSE f.length
    OBVIOUS
  <2>3. PICK chk \in BOOLEAN : chk <=> (f.chunked \/ p.kind = "chunked")
    OBVIOUS
  <2>4. PICK ex \in BOOLEAN : ex <=> (f.expect \/ p.kind = "expect")
    OBVIOUS
  <2>5. Read1(f, p) = [f EXCEPT !.length = len, !.chunked = chk, !.expect = ex]
    BY <1>4, <2>2, <2>3, <2>4, Zenon DEF Read1
  <2>6. len \in Nat \cup {-1}
    BY <2>1, <2>2
  <2>7. QED BY <1>4, <2>2, <2>3, <2>5, <2>6 DEF Texts
<1>5. QED BY <1>2, <1>3, <1>4

\* The recursion over the lines has a solution.
LEMMA ReadingExists ==
    ASSUME NEW lines \in Seq(Pieces)
    PROVE  \E f : Reads(lines, f, Len(lines))
<1> DEFINE Bad == {n \in 0..Len(lines) : ~ \E f : Reads(lines, f, n)}
<1>1. ASSUME Bad # {} PROVE FALSE
  <2>1. PICK n \in Bad : \A k \in Bad : n <= k
    <3>1. Bad \subseteq Nat
      OBVIOUS
    <3> HIDE DEF Bad
    <3>2. QED BY <1>1, <3>1, LeastOf
  <2>2. n # 0
    <3>1. Reads(lines, [i \in 0..0 |-> NoFraming], 0)
      BY DEF Reads
    <3>2. QED BY <3>1
  <2>3. n - 1 \in 0..Len(lines) /\ n - 1 \notin Bad
    BY <2>1, <2>2
  <2>4. PICK f : Reads(lines, f, n - 1)
    BY <2>3
  <2> DEFINE g == [i \in 0..n |-> IF i = n THEN Read1(f[n - 1], lines[n]) ELSE f[i]]
  <2>5. \A i \in 0..(n - 1) : g[i] = f[i]
    BY <2>1
  <2>6. g[n] = Read1(g[n - 1], lines[n])
    BY <2>1, <2>2, <2>5
  <2>7. \A i \in 0..(n - 1) : g[i] = IF i = 0 THEN NoFraming ELSE Read1(g[i - 1], lines[i])
    <3> HIDE DEF g
    <3>1. ASSUME NEW i \in 0..(n - 1)
          PROVE  g[i] = IF i = 0 THEN NoFraming ELSE Read1(g[i - 1], lines[i])
      <4>1. f[i] = IF i = 0 THEN NoFraming ELSE Read1(f[i - 1], lines[i])
        BY <2>4 DEF Reads
      <4>2. i # 0 => i - 1 \in 0..(n - 1)
        BY <2>1
      <4>3. QED BY <4>1, <4>2, <2>5
    <3>2. QED BY <3>1
  <2>8. g = [i \in 0..n |-> IF i = 0 THEN NoFraming ELSE Read1(g[i - 1], lines[i])]
    <3>1. \A i \in 0..n : g[i] = IF i = 0 THEN NoFraming ELSE Read1(g[i - 1], lines[i])
      <4>1. \A i \in 0..n : i = n \/ i \in 0..(n - 1)
        BY <2>1
      <4> HIDE DEF g
      <4>2. QED BY <2>2, <2>6, <2>7, <4>1
    <3>2. DOMAIN g = 0..n /\ g = [i \in 0..n |-> g[i]]
      OBVIOUS
    <3> HIDE DEF g
    <3>3. QED BY <3>1, <3>2
  <2>9. Reads(lines, g, n)
    BY <2>8 DEF Reads
  <2>10. QED BY <2>1, <2>9
<1>2. Len(lines) \in 0..Len(lines)
  OBVIOUS
<1>3. QED BY <1>1, <1>2

ReadOf(lines) ==
    CHOOSE f : f = [i \in 0..Len(lines) |-> IF i = 0 THEN NoFraming ELSE Read1(f[i - 1], lines[i])]

\* So the framing of the head is what its last line makes of it.
LEMMA FramingUnfolds ==
    ASSUME NEW lines \in Seq(Pieces)
    PROVE  /\ Reads(lines, ReadOf(lines), Len(lines))
           /\ Framing(lines) = ReadOf(lines)[Len(lines)]
<1>1. Reads(lines, ReadOf(lines), Len(lines))
  BY ReadingExists DEF Reads, ReadOf
<1>2. Framing(lines) = ReadOf(lines)[Len(lines)]
  BY DEF Framing, ReadOf
<1>3. QED BY <1>1, <1>2

\* What the first lines have said, if nothing was wrong with them.
Among(lines, n, what) == {i \in 1..n : lines[i].kind = what}
HeadSaid(lines, n, f) ==
    /\ f \in Texts
    /\ f.error = "none" =>
          /\ Among(lines, n, "malformed") = {} /\ Among(lines, n, "coding") = {}
          /\ f.length = -1 => Among(lines, n, "length") = {}
          /\ f.length >= 0 => \E j \in 1..n : Among(lines, n, "length") = {j} /\ lines[j].n = f.length
          /\ f.chunked <=> Among(lines, n, "chunked") # {}
          /\ \A i, j \in Among(lines, n, "chunked") : i = j

\* A line more.
LEMMA SaysMore ==
    ASSUME NEW lines \in Seq(Pieces), NEW n \in 1..Len(lines), NEW f, HeadSaid(lines, n - 1, f)
    PROVE  HeadSaid(lines, n, Read1(f, lines[n]))
<1> DEFINE p == lines[n]
<1> DEFINE g == Read1(f, p)
<1>1. p \in Pieces /\ f \in Texts /\ g \in Texts
  BY LineRead DEF HeadSaid
<1>2. \A what : Among(lines, n, what) =
                   IF p.kind = what THEN Among(lines, n - 1, what) \cup {n} ELSE Among(lines, n - 1, what)
  BY DEF Among
<1>3. \A what : n \notin Among(lines, n - 1, what)
  BY DEF Among
<1>4. ASSUME g.error = "none"
      PROVE  /\ f.error = "none" /\ p.kind # "malformed" /\ p.kind # "coding"
             /\ p.kind = "length" => f.length = -1 /\ g.length = p.n /\ g.chunked = f.chunked
             /\ p.kind = "chunked" => ~f.chunked /\ g.chunked /\ g.length = f.length
             /\ p.kind \notin {"length", "chunked"} => g.length = f.length /\ g.chunked = f.chunked
  <2>1. /\ f.error = "none" /\ Flaw(f, p) = "none"
        /\ g.length = IF p.kind = "length" THEN p.n ELSE f.length
        /\ g.chunked = (f.chunked \/ p.kind = "chunked")
    BY <1>1, <1>4, LineRead
  <2>2. f.length \in Nat \cup {-1} /\ f.chunked \in BOOLEAN /\ g.chunked \in BOOLEAN
    BY <1>1 DEF Texts
  <2> HIDE DEF g, p
  <2>3. /\ p.kind \notin {"malformed", "coding"} /\ ~(p.kind = "length" /\ f.length >= 0)
        /\ ~(p.kind = "chunked" /\ f.chunked)
    BY <2>1, <2>2 DEF Flaw
  <2>4. p.kind = "length" => f.length = -1
    BY <2>2, <2>3
  <2>5. QED BY <2>1, <2>2, <2>3, <2>4
<1>5. ASSUME g.error = "none"
      PROVE  /\ Among(lines, n, "malformed") = {} /\ Among(lines, n, "coding") = {}
             /\ g.length = -1 => Among(lines, n, "length") = {}
             /\ g.length >= 0 => \E j \in 1..n : Among(lines, n, "length") = {j} /\ lines[j].n = g.length
             /\ g.chunked <=> Among(lines, n, "chunked") # {}
             /\ \A i, j \in Among(lines, n, "chunked") : i = j
  <2> HIDE DEF g
  <2>0. f.error = "none"
    BY <1>4, <1>5
  <2>1. /\ Among(lines, n - 1, "malformed") = {} /\ Among(lines, n - 1, "coding") = {}
        /\ f.length = -1 => Among(lines, n - 1, "length") = {}
        /\ f.length >= 0 => \E j \in 1..(n - 1) : Among(lines, n - 1, "length") = {j} /\ lines[j].n = f.length
        /\ f.chunked <=> Among(lines, n - 1, "chunked") # {}
        /\ \A i, j \in Among(lines, n - 1, "chunked") : i = j
    BY <2>0 DEF HeadSaid
  <2>2. p.n \in Nat /\ f.length \in Nat \cup {-1}
    BY <1>1 DEF Pieces, Texts
  <2>3. CASE p.kind = "length"
    <3>1. Among(lines, n, "length") = {n} /\ g.length = p.n
      BY <1>2, <1>4, <1>5, <2>1, <2>3
    <3>2. \A what : what # "length" => Among(lines, n, what) = Among(lines, n - 1, what)
      BY <1>2, <2>3
    <3>3. g.chunked = f.chunked
      BY <1>4, <1>5, <2>3
    <3>4. QED BY <2>1, <2>2, <3>1, <3>2, <3>3
  <2>4. CASE p.kind = "chunked"
    <3>1. ~f.chunked /\ g.chunked /\ g.length = f.length
      BY <1>4, <1>5, <2>4
    <3>2. Among(lines, n, "chunked") = {n}
      BY <1>2, <2>1, <2>4, <3>1
    <3>3. \A what : what # "chunked" => Among(lines, n, what) = Among(lines, n - 1, what)
      BY <1>2, <2>4
    <3>4. g.length >= 0 => \E j \in 1..n : Among(lines, n, "length") = {j} /\ lines[j].n = g.length
      BY <2>1, <3>1, <3>3
    <3>5. /\ g.chunked <=> Among(lines, n, "chunked") # {}
          /\ \A i, j \in Among(lines, n, "chunked") : i = j
      BY <3>1, <3>2
    <3>6. QED BY <2>1, <3>1, <3>3, <3>4, <3>5
  <2>5. CASE p.kind \notin {"length", "chunked"}
    <3>1. g.length = f.length /\ g.chunked = f.chunked /\ p.kind # "malformed" /\ p.kind # "coding"
      BY <1>4, <1>5, <2>5
    <3>2. \A what \in {"malformed", "coding", "length", "chunked"} : Among(lines, n, what) = Among(lines, n - 1, what)
      BY <1>2, <2>5, <3>1
    <3>3. QED BY <2>1, <2>2, <3>1, <3>2
  <2>6. QED BY <2>3, <2>4, <2>5
<1>6. QED BY <1>1, <1>5 DEF HeadSaid

\* The framing of lines says of them what they say.
LEMMA FramingSays ==
    ASSUME NEW lines \in Seq(Pieces)
    PROVE  HeadSaid(lines, Len(lines), Framing(lines))
<1> DEFINE f == ReadOf(lines)
<1>1. /\ f[0] = NoFraming
      /\ \A i \in 1..Len(lines) : f[i] = Read1(f[i - 1], lines[i])
  <2>1. Reads(lines, f, Len(lines))
    BY FramingUnfolds
  <2> HIDE DEF f
  <2>2. QED BY <2>1 DEF Reads
<1> HIDE DEF f
<1> DEFINE Bad == {n \in 0..Len(lines) : ~HeadSaid(lines, n, f[n])}
<1>2. ASSUME Bad # {} PROVE FALSE
  <2>1. PICK n \in Bad : \A k \in Bad : n <= k
    <3>1. Bad \subseteq Nat
      OBVIOUS
    <3> HIDE DEF Bad
    <3>2. QED BY <1>2, <3>1, LeastOf
  <2>2. n # 0
    <3>0. \A what : Among(lines, 0, what) = {}
      BY DEF Among
    <3>1. HeadSaid(lines, 0, NoFraming)
      <4>1. NoFraming \in Texts
        BY DEF NoFraming, Texts
      <4>2. NoFraming.length = -1 /\ ~(-1 >= 0) /\ ~NoFraming.chunked
        BY DEF NoFraming
      <4>3. QED BY <3>0, <4>1, <4>2 DEF HeadSaid
    <3>2. QED BY <1>1, <2>1, <3>1
  <2>3. n \in 1..Len(lines) /\ n - 1 \in 0..Len(lines) /\ n - 1 \notin Bad
    BY <2>1, <2>2
  <2>4. HeadSaid(lines, n, Read1(f[n - 1], lines[n]))
    BY <2>3, SaysMore
  <2>5. QED BY <1>1, <2>1, <2>3, <2>4
<1>3. HeadSaid(lines, Len(lines), f[Len(lines)])
  BY <1>2
<1>4. Framing(lines) = f[Len(lines)]
  BY FramingUnfolds DEF f
<1>5. QED BY <1>3, <1>4

-----------------------------------------------------------------------------
(* What the chunks of a body hold, from the last one to the first. *)
Chunks == [whole : BOOLEAN, bytes : Seq(Pieces)]
ChunksFrom(b, f, i) ==
    IF b[i].kind # "chunk" THEN Broken
    ELSE IF b[i].n = 0 THEN [whole |-> Closes(b, i), bytes |-> <<>>]
    ELSE IF NextChunk(b, i) = 0 THEN Broken
    ELSE [whole |-> f[NextChunk(b, i)].whole,
          bytes |-> SubSeq(b, i + 1, i + b[i].n) \o f[NextChunk(b, i)].bytes]
Joins(b, f, m) == f = [i \in m..Len(b) |-> ChunksFrom(b, f, i)]

\* The next chunk is behind this one, and the bytes between them are pieces.
LEMMA NextIsBehind ==
    ASSUME NEW b \in Seq(Pieces), NEW i \in 1..Len(b), NextChunk(b, i) # 0
    PROVE  /\ NextChunk(b, i) = i + b[i].n + 2 /\ NextChunk(b, i) \in (i + 1)..Len(b)
           /\ b[NextChunk(b, i) - 1].kind = "crlf"
           /\ SubSeq(b, i + 1, i + b[i].n) \in Seq(Pieces)
<1>0. b[i].n \in Nat
  <2>1. b[i] \in Pieces
    OBVIOUS
  <2>2. QED BY <2>1 DEF Pieces
<1>1. /\ NextChunk(b, i) = i + b[i].n + 2 /\ NextChunk(b, i) <= Len(b)
      /\ b[NextChunk(b, i) - 1].kind = "crlf"
  BY DEF NextChunk
<1>2. SubSeq(b, i + 1, i + b[i].n) \in Seq(Pieces)
  BY <1>0, <1>1, SubSeqProperties
<1>3. QED BY <1>0, <1>1, <1>2

\* Where the rest is well made, so is the whole.
LEMMA ChunksTyped ==
    ASSUME NEW b \in Seq(Pieces), NEW i \in 1..Len(b), NEW f,
           NextChunk(b, i) # 0 => f[NextChunk(b, i)] \in Chunks
    PROVE  ChunksFrom(b, f, i) \in Chunks
<1>1. b[i] \in Pieces
  OBVIOUS
<1>2. Broken \in Chunks /\ [whole |-> Closes(b, i), bytes |-> <<>>] \in Chunks
  <2>1. Closes(b, i) \in BOOLEAN
    BY DEF Closes
  <2>2. <<>> \in Seq(Pieces)
    OBVIOUS
  <2>3. QED BY <2>1, <2>2 DEF Broken, Chunks
<1>3. CASE NextChunk(b, i) # 0
  <2>1. SubSeq(b, i + 1, i + b[i].n) \in Seq(Pieces)
    BY <1>3, NextIsBehind
  <2>2. [whole |-> f[NextChunk(b, i)].whole,
         bytes |-> SubSeq(b, i + 1, i + b[i].n) \o f[NextChunk(b, i)].bytes] \in Chunks
    BY <1>3, <2>1, ConcatProperties DEF Chunks
  <2>3. QED BY <1>2, <2>2 DEF ChunksFrom
<1>4. QED BY <1>2, <1>3 DEF ChunksFrom

\* The recursion over the chunks has a solution.
LEMMA JoiningExists ==
    ASSUME NEW b \in Seq(Pieces)
    PROVE  \E f : Joins(b, f, 1)
<1> DEFINE Bad == {k \in 0..Len(b) : ~ \E f : Joins(b, f, Len(b) + 1 - k)}
<1>0. Len(b) \in Nat
  OBVIOUS
<1>1. ASSUME Bad # {} PROVE FALSE
  <2>1. PICK n \in Bad : \A k \in Bad : n <= k
    <3>1. Bad \subseteq Nat
      OBVIOUS
    <3> HIDE DEF Bad
    <3>2. QED BY <1>1, <3>1, LeastOf
  <2>2. n # 0
    <3>1. Joins(b, <<>>, Len(b) + 1)
      BY <1>0 DEF Joins
    <3>2. Len(b) + 1 - 0 = Len(b) + 1
      BY <1>0
    <3>3. QED BY <2>1, <3>1, <3>2
  <2>3. n - 1 \in 0..Len(b) /\ n - 1 \notin Bad
    BY <1>0, <2>1, <2>2
  <2>4. PICK m \in 1..Len(b) : m = Len(b) + 1 - n
    BY <1>0, <2>1, <2>2
  <2>5. Len(b) + 1 - (n - 1) = m + 1
    BY <1>0, <2>1, <2>4
  <2>6. PICK f : Joins(b, f, m + 1)
    BY <2>3, <2>5
  <2> DEFINE g == [i \in m..Len(b) |-> IF i = m THEN ChunksFrom(b, f, m) ELSE f[i]]
  <2>7. \A i \in (m + 1)..Len(b) : g[i] = f[i]
    BY <2>4
  <2>8. g[m] = ChunksFrom(b, f, m)
    BY <2>4, <1>0
  <2>9. g = [i \in m..Len(b) |-> g[i]]
    OBVIOUS
  <2> HIDE DEF g
  <2>10. \A i \in m..Len(b) : NextChunk(b, i) = 0 \/ NextChunk(b, i) \in (i + 1)..Len(b)
    BY <1>0, <2>4, NextIsBehind
  <2>11. ASSUME NEW i \in m..Len(b) PROVE ChunksFrom(b, g, i) = ChunksFrom(b, f, i)
    <3>1. CASE NextChunk(b, i) = 0
      BY <3>1 DEF ChunksFrom
    <3>2. CASE NextChunk(b, i) # 0
      <4>1. NextChunk(b, i) \in (m + 1)..Len(b)
        BY <1>0, <2>4, <2>10, <3>2
      <4>2. g[NextChunk(b, i)] = f[NextChunk(b, i)]
        BY <2>7, <4>1
      <4>3. QED BY <4>2 DEF ChunksFrom
    <3>3. QED BY <3>1, <3>2
  <2>13. ASSUME NEW i \in m..Len(b) PROVE g[i] = ChunksFrom(b, g, i)
    <3>1. CASE i = m
      BY <2>8, <2>11, <3>1
    <3>2. CASE i # m
      <4>1. i \in (m + 1)..Len(b)
        BY <1>0, <2>4, <3>2
      <4>2. f[i] = ChunksFrom(b, f, i)
        BY <2>6, <4>1 DEF Joins
      <4>3. QED BY <2>7, <2>11, <4>1, <4>2
    <3>3. QED BY <3>1, <3>2
  <2>14. Joins(b, g, m)
    BY <2>9, <2>13 DEF Joins
  <2>15. QED BY <2>1, <2>4, <2>14
<1>2. Len(b) \in 0..Len(b) /\ Len(b) + 1 - Len(b) = 1
  BY <1>0
<1>3. QED BY <1>1, <1>2

JoinOf(b) ==
    CHOOSE from : from = [i \in 1..Len(b) |->
            IF b[i].kind # "chunk" THEN Broken
            ELSE IF b[i].n = 0 THEN [whole |-> Closes(b, i), bytes |-> <<>>]
            ELSE IF NextChunk(b, i) = 0 THEN Broken
            ELSE [whole |-> from[NextChunk(b, i)].whole,
                  bytes |-> SubSeq(b, i + 1, i + b[i].n) \o from[NextChunk(b, i)].bytes]]

\* So the body is what its first chunk makes of the rest.
LEMMA JoinedUnfolds ==
    ASSUME NEW b \in Seq(Pieces)
    PROVE  /\ \A i \in 1..Len(b) : JoinOf(b)[i] \in Chunks /\ JoinOf(b)[i] = ChunksFrom(b, JoinOf(b), i)
           /\ Joined(b) = IF b = <<>> THEN Broken ELSE JoinOf(b)[1]
<1>1. PICK f : Joins(b, f, 1)
  BY JoiningExists
<1>2. f = [i \in 1..Len(b) |->
            IF b[i].kind # "chunk" THEN Broken
            ELSE IF b[i].n = 0 THEN [whole |-> Closes(b, i), bytes |-> <<>>]
            ELSE IF NextChunk(b, i) = 0 THEN Broken
            ELSE [whole |-> f[NextChunk(b, i)].whole,
                  bytes |-> SubSeq(b, i + 1, i + b[i].n) \o f[NextChunk(b, i)].bytes]]
  BY <1>1 DEF Joins, ChunksFrom
<1>3. JoinOf(b) = [i \in 1..Len(b) |->
            IF b[i].kind # "chunk" THEN Broken
            ELSE IF b[i].n = 0 THEN [whole |-> Closes(b, i), bytes |-> <<>>]
            ELSE IF NextChunk(b, i) = 0 THEN Broken
            ELSE [whole |-> JoinOf(b)[NextChunk(b, i)].whole,
                  bytes |-> SubSeq(b, i + 1, i + b[i].n) \o JoinOf(b)[NextChunk(b, i)].bytes]]
  BY <1>2, Zenon DEF JoinOf
<1>4. \A i \in 1..Len(b) : JoinOf(b)[i] = ChunksFrom(b, JoinOf(b), i)
  <2> DEFINE j == JoinOf(b)
  <2> HIDE DEF j
  <2>1. j = [i \in 1..Len(b) |-> ChunksFrom(b, j, i)]
    BY <1>3 DEF ChunksFrom, j
  <2>2. \A i \in 1..Len(b) : j[i] = ChunksFrom(b, j, i)
    BY <2>1, Zenon
  <2>3. QED BY <2>2 DEF j
<1>5. \A i \in 1..Len(b) : JoinOf(b)[i] \in Chunks
  <2> DEFINE j == JoinOf(b)
  <2> DEFINE Bad == {k \in 0..(Len(b) - 1) : j[Len(b) - k] \notin Chunks}
  <2>0. Len(b) \in Nat
    OBVIOUS
  <2>1. ASSUME Bad # {} PROVE FALSE
    <3>1. PICK n \in Bad : \A k \in Bad : n <= k
      <4>1. Bad \subseteq Nat
        BY <2>0
      <4> HIDE DEF Bad
      <4>2. QED BY <2>1, <4>1, LeastOf
    <3>2. PICK i \in 1..Len(b) : i = Len(b) - n
      BY <2>0, <3>1
    <3>3. ASSUME NextChunk(b, i) # 0 PROVE j[NextChunk(b, i)] \in Chunks
      <4>1. NextChunk(b, i) \in (i + 1)..Len(b)
        BY <3>3, NextIsBehind
      <4>2. PICK k \in 0..(Len(b) - 1) : NextChunk(b, i) = Len(b) - k /\ k < n
        BY <2>0, <3>1, <3>2, <4>1
      <4>3. k \notin Bad
        BY <3>1, <4>2
      <4>4. QED BY <4>2, <4>3
    <3>4. ChunksFrom(b, j, i) \in Chunks
      BY <3>3, ChunksTyped
    <3>5. QED BY <1>4, <3>1, <3>2, <3>4
  <2>2. ASSUME NEW i \in 1..Len(b) PROVE j[i] \in Chunks
    <3>1. Len(b) - i \in 0..(Len(b) - 1) /\ Len(b) - (Len(b) - i) = i
      BY <2>0
    <3>2. QED BY <2>1, <3>1
  <2>3. QED BY <2>2
<1>6. Joined(b) = IF b = <<>> THEN Broken ELSE JoinOf(b)[1]
  BY DEF Joined, JoinOf
<1>7. QED BY <1>4, <1>5, <1>6

-----------------------------------------------------------------------------
(* The pieces on their way: those in the buffer come before those of the socket, *)
(* and all of them are the next of what the client sends. *)
NextOf(w, p, u, s) ==
    /\ \A i \in 1..Len(u) : u[i] = w[p + i]
    /\ \A i \in 1..Len(s) : s[i] = w[p + Len(u) + i]

\* One more is sent.
LEMMA OneMoreSent ==
    ASSUME NEW w, NEW p \in Nat, NEW u \in Seq(Pieces), NEW s \in Seq(Pieces), NextOf(w, p, u, s),
           NEW x \in Pieces, x = w[p + Len(u) + Len(s) + 1]
    PROVE  /\ NextOf(w, p, u, Append(s, x)) /\ Append(s, x) \in Seq(Pieces)
           /\ Len(Append(s, x)) = Len(s) + 1
<1>1. /\ Append(s, x) \in Seq(Pieces) /\ Len(Append(s, x)) = Len(s) + 1
      /\ Append(s, x)[Len(s) + 1] = x /\ \A i \in 1..Len(s) : Append(s, x)[i] = s[i]
  BY AppendProperties
<1>2. ASSUME NEW i \in 1..(Len(s) + 1) PROVE Append(s, x)[i] = w[p + Len(u) + i]
  <2>0. Len(u) \in Nat /\ Len(s) \in Nat
    OBVIOUS
  <2>1. CASE i = Len(s) + 1
    BY <1>1, <2>0, <2>1
  <2>2. CASE i \in 1..Len(s)
    BY <1>1, <2>2 DEF NextOf
  <2>3. QED BY <2>0, <2>1, <2>2
<1>3. QED BY <1>1, <1>2 DEF NextOf

\* Some are taken from the buffer.
LEMMA SomeTaken ==
    ASSUME NEW w, NEW p \in Nat, NEW u \in Seq(Pieces), NEW s \in Seq(Pieces), NextOf(w, p, u, s),
           NEW k \in Nat, k <= Len(u), NEW m, m = p + k, NEW v, v = SubSeq(u, k + 1, Len(u))
    PROVE  NextOf(w, m, v, s)
<1>0. Len(u) \in Nat
  OBVIOUS
<1>1. v \in Seq(Pieces) /\ Len(v) = Len(u) - k /\ \A i \in 1..(Len(u) - k) : v[i] = u[k + i]
  BY <1>0, SubSeqProperties
<1>3. ASSUME NEW i \in 1..Len(v) PROVE v[i] = w[p + k + i]
  <2>1. k + i \in 1..Len(u) /\ p + (k + i) = p + k + i
    BY <1>0, <1>1
  <2>2. QED BY <1>1, <2>1 DEF NextOf
<1>4. ASSUME NEW i \in 1..Len(s) PROVE s[i] = w[p + k + Len(v) + i]
  <2>1. p + k + Len(v) + i = p + Len(u) + i
    BY <1>0, <1>1
  <2>2. QED BY <2>1 DEF NextOf
<1>5. NextOf(w, p + k, v, s)
  BY <1>3, <1>4 DEF NextOf
<1>6. QED BY <1>5

\* Some come from the socket into the buffer.
LEMMA SomeMoved ==
    ASSUME NEW w, NEW p \in Nat, NEW u \in Seq(Pieces), NEW s \in Seq(Pieces), NextOf(w, p, u, s),
           NEW k \in 1..Len(s)
    PROVE  /\ NextOf(w, p, u \o SubSeq(s, 1, k), SubSeq(s, k + 1, Len(s)))
           /\ u \o SubSeq(s, 1, k) \in Seq(Pieces) /\ Len(u \o SubSeq(s, 1, k)) = Len(u) + k
           /\ SubSeq(s, k + 1, Len(s)) \in Seq(Pieces) /\ Len(SubSeq(s, k + 1, Len(s))) = Len(s) - k
<1> DEFINE a == SubSeq(s, 1, k)
<1> DEFINE r == SubSeq(s, k + 1, Len(s))
<1> DEFINE v == u \o a
<1>0. Len(u) \in Nat /\ Len(s) \in Nat
  OBVIOUS
<1>1. r \in Seq(Pieces) /\ Len(r) = Len(s) - k /\ \A i \in 1..(Len(s) - k) : r[i] = s[k + i]
  BY <1>0, SubSeqProperties
<1>2. a \in Seq(Pieces) /\ Len(a) = k /\ \A i \in 1..k : a[i] = s[i]
  BY <1>0, SubSeqProperties
<1> HIDE DEF a, r
<1>3. /\ v \in Seq(Pieces) /\ Len(v) = Len(u) + k
      /\ \A i \in 1..(Len(u) + k) : v[i] = IF i <= Len(u) THEN u[i] ELSE a[i - Len(u)]
  BY <1>0, <1>2, ConcatProperties
<1> HIDE DEF v
<1>4. ASSUME NEW i \in 1..Len(v) PROVE v[i] = w[p + i]
  <2>1. CASE i <= Len(u)
    BY <1>0, <1>3, <2>1 DEF NextOf
  <2>2. CASE i > Len(u)
    <3>1. i - Len(u) \in 1..k /\ i - Len(u) \in 1..Len(s)
      BY <1>0, <1>3, <2>2
    <3>2. v[i] = s[i - Len(u)]
      BY <1>0, <1>2, <1>3, <2>2, <3>1
    <3>3. p + Len(u) + (i - Len(u)) = p + i
      BY <1>0, <1>3
    <3>4. QED BY <3>1, <3>2, <3>3 DEF NextOf
  <2>3. QED BY <1>0, <2>1, <2>2
<1>5. ASSUME NEW i \in 1..Len(r) PROVE r[i] = w[p + Len(v) + i]
  <2>1. k + i \in 1..Len(s) /\ p + Len(u) + (k + i) = p + Len(v) + i
    BY <1>0, <1>1, <1>3
  <2>2. QED BY <1>1, <2>1 DEF NextOf
<1>6. NextOf(w, p, v, r)
  BY <1>4, <1>5 DEF NextOf
<1>7. QED BY <1>1, <1>3, <1>6 DEF v, r, a

\* Three parts of a body in a row.
LEMMA InARow ==
    ASSUME NEW s \in Seq(Pieces), NEW t \in Seq(Pieces), NEW u \in Seq(Pieces)
    PROVE  (s \o t) \o u = s \o (t \o u)
BY ConcatAssociative

\* A part of a sequence of pieces.
LEMMA PartOf ==
    ASSUME NEW b \in Seq(Pieces), NEW i \in Nat, NEW q \in Nat, i <= q, q <= Len(b)
    PROVE  /\ SubSeq(b, i + 1, q) \in Seq(Pieces) /\ Len(SubSeq(b, i + 1, q)) = q - i
           /\ \A k \in 1..(q - i) : SubSeq(b, i + 1, q)[k] = b[i + k]
<1>0. Len(b) \in Nat
  OBVIOUS
<1>1. \A k \in (i + 1)..q : b[k] \in Pieces
  <2>1. TAKE k \in (i + 1)..q
  <2>2. k \in 1..Len(b)
    BY <1>0
  <2>3. QED BY <2>2
<1>2. i + 1 \in Int /\ q \in Int
  OBVIOUS
<1>3. PICK m \in Int : m = i + 1
  BY <1>2
<1>4. /\ SubSeq(b, m, q) \in Seq(Pieces)
      /\ Len(SubSeq(b, m, q)) = IF m <= q THEN q - m + 1 ELSE 0
      /\ \A k \in 1..(q - m + 1) : SubSeq(b, m, q)[k] = b[m + k - 1]
  BY <1>1, <1>2, <1>3, SubSeqProperties
<1>5. ASSUME NEW k \in 1..(q - i) PROVE SubSeq(b, m, q)[k] = b[i + k]
  <2>1. k \in 1..(q - m + 1) /\ m + k - 1 = i + k
    BY <1>3
  <2>2. QED BY <1>4, <2>1
<1>6. Len(SubSeq(b, m, q)) = q - i
  BY <1>3, <1>4
<1>7. QED BY <1>3, <1>4, <1>5, <1>6

-----------------------------------------------------------------------------
(* The chunks so far. *)
\* Behind x the chunks from i on make the body.
AtChunk(b, x, i) ==
    i \in 1..Len(b) => JoinOf(b)[1] = [whole |-> JoinOf(b)[i].whole, bytes |-> x \o JoinOf(b)[i].bytes]
\* In a chunk of which want bytes are to come, behind p pieces of the body.
InChunk(b, x, want, p) ==
    \E i \in 1..Len(b), old \in Seq(Pieces) :
        /\ b[i].kind = "chunk" /\ b[i].n > 0 /\ AtChunk(b, old, i)
        /\ want <= b[i].n /\ p = i + b[i].n - want /\ x = old \o SubSeq(b, i + 1, p)
InTrailer(b, x, p) ==
    \E i \in 1..Len(b) :
        /\ b[i].kind = "chunk" /\ b[i].n = 0 /\ AtChunk(b, x, i)
        /\ p >= i /\ \A k \in (i + 1)..p : b[k].kind = "other"

\* The first chunk has nothing before it.
LEMMA ChunksBegin == ASSUME NEW b \in Seq(Pieces) PROVE AtChunk(b, <<>>, 1)
<1>1. ASSUME 1 \in 1..Len(b)
      PROVE  JoinOf(b)[1] = [whole |-> JoinOf(b)[1].whole, bytes |-> <<>> \o JoinOf(b)[1].bytes]
  <2>1. PICK c : c = JoinOf(b)[1]
    OBVIOUS
  <2>2. c \in Chunks
    BY <1>1, <2>1, JoinedUnfolds
  <2>3. <<>> \o c.bytes = c.bytes /\ c = [whole |-> c.whole, bytes |-> c.bytes]
    BY <2>2, ConcatEmptySeq DEF Chunks
  <2>4. QED BY <2>1, <2>3
<1>2. QED BY <1>1 DEF AtChunk

\* A chunk is left for the next.
LEMMA ChunkLeft ==
    ASSUME NEW b \in Seq(Pieces), NEW x \in Seq(Pieces), NEW i \in 1..Len(b),
           AtChunk(b, x, i), b[i].kind = "chunk", b[i].n > 0,
           i + b[i].n + 1 <= Len(b), b[i + b[i].n + 1].kind = "crlf"
    PROVE  AtChunk(b, x \o SubSeq(b, i + 1, i + b[i].n), i + b[i].n + 2)
<1>0. b[i].n \in Nat /\ Len(b) \in Nat
  <2>1. b[i] \in Pieces
    OBVIOUS
  <2>2. QED BY <2>1 DEF Pieces
<1>1. PICK j : j = i + b[i].n + 2
  OBVIOUS
<1>2. ASSUME j \in 1..Len(b)
      PROVE  JoinOf(b)[1] = [whole |-> JoinOf(b)[j].whole,
                             bytes |-> (x \o SubSeq(b, i + 1, i + b[i].n)) \o JoinOf(b)[j].bytes]
  <2>1. NextChunk(b, i) = j /\ j # 0
    <3>1. j - 1 = i + b[i].n + 1
      BY <1>0, <1>1
    <3>2. QED BY <1>0, <1>1, <1>2, <3>1 DEF NextChunk
  <2>2. SubSeq(b, i + 1, i + b[i].n) \in Seq(Pieces)
    BY <2>1, NextIsBehind
  <2>3. PICK c : c = SubSeq(b, i + 1, i + b[i].n)
    OBVIOUS
  <2>4. JoinOf(b)[j] \in Chunks
    BY <1>2, JoinedUnfolds
  <2>5. JoinOf(b)[i] = [whole |-> JoinOf(b)[j].whole, bytes |-> c \o JoinOf(b)[j].bytes]
    <3>1. JoinOf(b)[i] = ChunksFrom(b, JoinOf(b), i)
      BY JoinedUnfolds
    <3>2. QED BY <1>0, <2>1, <2>3, <3>1 DEF ChunksFrom
  <2>6. JoinOf(b)[1] = [whole |-> JoinOf(b)[j].whole, bytes |-> x \o (c \o JoinOf(b)[j].bytes)]
    BY <2>5 DEF AtChunk
  <2>7. PICK y \in Seq(Pieces) : y = JoinOf(b)[j].bytes
    BY <2>4 DEF Chunks
  <2>8. c \in Seq(Pieces)
    BY <2>2, <2>3
  <2>9. x \o (c \o y) = (x \o c) \o y
    BY <2>8, InARow, Zenon
  <2>10. QED BY <2>3, <2>6, <2>7, <2>9
<1>3. QED BY <1>1, <1>2 DEF AtChunk

\* The last chunk is closed.
LEMMA ChunksEnd ==
    ASSUME NEW b \in Seq(Pieces), NEW x \in Seq(Pieces), NEW i \in 1..Len(b),
           AtChunk(b, x, i), b[i].kind = "chunk", b[i].n = 0, Closes(b, i)
    PROVE  Joined(b) = [whole |-> TRUE, bytes |-> x]
<1>1. JoinOf(b)[i] = [whole |-> Closes(b, i), bytes |-> <<>>]
  <2>1. JoinOf(b)[i] = ChunksFrom(b, JoinOf(b), i)
    BY JoinedUnfolds
  <2>2. QED BY <2>1 DEF ChunksFrom
<1>2. Closes(b, i) = TRUE
  BY DEF Closes
<1>3. JoinOf(b)[1] = [whole |-> TRUE, bytes |-> x \o <<>>]
  BY <1>1, <1>2 DEF AtChunk
<1>4. x \o <<>> = x
  BY ConcatEmptySeq
<1>5. b # <<>>
  OBVIOUS
<1>6. QED BY <1>3, <1>4, <1>5, JoinedUnfolds

\* Bytes are taken behind those of the chunk that were.
LEMMA MoreOfIt ==
    ASSUME NEW b \in Seq(Pieces), NEW old \in Seq(Pieces), NEW u \in Seq(Pieces),
           NEW i \in Nat, NEW p \in Nat, i <= p, p + Len(u) <= Len(b), \A k \in 1..Len(u) : u[k] = b[p + k]
    PROVE  /\ (old \o SubSeq(b, i + 1, p)) \o u = old \o SubSeq(b, i + 1, p + Len(u))
           /\ old \o SubSeq(b, i + 1, p + Len(u)) \in Seq(Pieces)
<1>0. Len(b) \in Nat /\ Len(u) \in Nat
  OBVIOUS
<1> DEFINE c == SubSeq(b, i + 1, p)
<1> DEFINE d == SubSeq(b, i + 1, p + Len(u))
<1>1. c \in Seq(Pieces) /\ Len(c) = p - i /\ \A k \in 1..(p - i) : c[k] = b[i + k]
  <2>1. p <= Len(b)
    BY <1>0
  <2>2. QED BY <2>1, PartOf
<1>2. d \in Seq(Pieces) /\ Len(d) = p + Len(u) - i /\ \A k \in 1..(p + Len(u) - i) : d[k] = b[i + k]
  <2>1. p + Len(u) \in Nat /\ i <= p + Len(u)
    BY <1>0
  <2>2. QED BY <2>1, PartOf
<1> HIDE DEF c, d
<1>c. c \in Seq(Pieces) /\ d \in Seq(Pieces) /\ Len(c) = p - i
  BY <1>1, <1>2
<1>3. /\ c \o u \in Seq(Pieces) /\ Len(c \o u) = p - i + Len(u)
      /\ \A k \in 1..(p - i + Len(u)) : (c \o u)[k] = IF k <= p - i THEN c[k] ELSE u[k - (p - i)]
  <2>1. /\ c \o u \in Seq(Pieces) /\ Len(c \o u) = Len(c) + Len(u)
        /\ \A k \in 1..(Len(c) + Len(u)) : (c \o u)[k] = IF k <= Len(c) THEN c[k] ELSE u[k - Len(c)]
    BY <1>c, ConcatProperties, Zenon
  <2>2. QED BY <1>c, <2>1
<1>4. \A k \in 1..(p - i + Len(u)) : (c \o u)[k] = d[k]
  <2>1. TAKE k \in 1..(p - i + Len(u))
  <2>2. d[k] = b[i + k]
    BY <1>0, <1>2
  <2>3. CASE k <= p - i
    <3>1. k \in 1..(p - i)
      BY <2>1, <2>3
    <3>2. c[k] = b[i + k]
      BY <1>1, <3>1
    <3>3. QED BY <1>3, <2>2, <2>3, <3>2
  <2>4. CASE k > p - i
    <3>1. k - (p - i) \in 1..Len(u) /\ p + (k - (p - i)) = i + k
      BY <1>0, <2>4
    <3>2. u[k - (p - i)] = b[i + k]
      BY <3>1
    <3>3. QED BY <1>0, <1>3, <2>2, <2>4, <3>2
  <2>5. k <= p - i \/ k > p - i
    BY <1>0
  <2>6. QED BY <2>3, <2>4, <2>5
<1>5. c \o u = d
  <2>1. Len(c \o u) = Len(d)
    BY <1>0, <1>2, <1>3
  <2>2. QED BY <1>2, <1>3, <1>4, <2>1, SeqEqual
<1>6. (old \o c) \o u = old \o d
  <2>1. (old \o c) \o u = old \o (c \o u)
    BY <1>c, InARow, Zenon
  <2>2. QED BY <1>5, <2>1
<1>7. old \o d \in Seq(Pieces)
  BY <1>2, ConcatProperties
<1>8. QED BY <1>6, <1>7 DEF c, d

-----------------------------------------------------------------------------
(* The invariant. *)
TheHead == client.says.head
TheBody == client.says.body
HeadLen == Len(TheHead)
TheWhole == Whole(client.says)
\* Of what the client sends, this much is behind the reader.
Behind == client.told - Len(sock) - Len(inbuf)
ReadStates == {"head", "body", "data", "ending", "size", "trailer"}
ReadOutcomes == {"none", "ok", "invalid", "too large", "reset", "stalled"}
StillReading == reading.state \in ReadStates

ReadTyped ==
    /\ client \in [says : Requests, told : Nat, more : BOOLEAN] /\ client.told <= Len(TheWhole)
    /\ sock \in Seq(Pieces) /\ inbuf \in Seq(Pieces) /\ bodyRead \in Seq(Pieces)
    /\ reading \in [state : ReadStates \cup {"over", "drain", "closed"}, want : Nat]
    /\ framing \in Texts /\ outcome \in ReadOutcomes
OutcomeInv == (StillReading => outcome = "none") /\ (outcome = "ok" => reading.state = "over")
WayInv == StillReading => Behind \in Nat /\ NextOf(TheWhole, Behind, inbuf, sock)
HeadInv ==
    reading.state = "head" =>
        Behind = 0 /\ framing = NoFraming /\ bodyRead = <<>> /\ Blanks(inbuf) = {}
FramedInv ==
    MoreBody \/ outcome = "ok" =>
        framing = request_framing(Lines(client.says)) /\ framing.error = "none" /\ TheHead[1].kind = "start"
BodyInv ==
    MoreBody =>
        /\ Behind >= HeadLen
        /\ reading.state = "body" =>
              /\ ~framing.chunked /\ reading.want > 0 /\ framing.length = Behind - HeadLen + reading.want
              /\ bodyRead = SubSeq(TheBody, 1, Behind - HeadLen)
        /\ reading.state # "body" => framing.chunked
        /\ reading.state = "size" => AtChunk(TheBody, bodyRead, Behind - HeadLen + 1)
        /\ reading.state \in {"data", "ending"} => InChunk(TheBody, bodyRead, reading.want, Behind - HeadLen)
        /\ reading.state = "data" => reading.want > 0
        /\ reading.state = "ending" => reading.want = 0
        /\ reading.state = "trailer" => InTrailer(TheBody, bodyRead, Behind - HeadLen)
ServedInv ==
    outcome = "ok" =>
        /\ framing.chunked => Joined(TheBody) = [whole |-> TRUE, bytes |-> bodyRead]
        /\ ~framing.chunked =>
              bodyRead = SubSeq(TheBody, 1, IF framing.length > 0 THEN framing.length ELSE 0)
ReadInv ==
    /\ ReadTyped /\ OutcomeInv /\ WayInv /\ HeadInv /\ FramedInv /\ BodyInv /\ ServedInv
    /\ HeldBodyIsAskedFor /\ RefusalIsHeard

\* What a request is made of.
LEMMA RequestShape ==
    ASSUME ReadTyped
    PROVE  /\ TheHead \in Seq(Pieces) /\ TheBody \in Seq(Pieces) /\ TheWhole \in Seq(Pieces) /\ EndsInBlank(TheHead)
           /\ HeadLen \in Nat /\ HeadLen > 0 /\ Len(TheBody) \in Nat /\ Len(TheWhole) = HeadLen + Len(TheBody)
           /\ client.told \in Nat /\ client.says \in Requests
           /\ \A i \in 1..HeadLen : TheWhole[i] = TheHead[i]
           /\ \A k \in 1..Len(TheBody) : TheWhole[HeadLen + k] = TheBody[k]
<1>1. client.says \in Requests /\ client.told \in Nat
  BY DEF ReadTyped
<1>2. client.says \in [head : Seq(Pieces), body : Seq(Pieces)] /\ EndsInBlank(client.says.head)
  BY <1>1, HttpReadAssumption
<1>3. PICK h \in Seq(Pieces) : h = client.says.head
  BY <1>2
<1>4. PICK b \in Seq(Pieces) : b = client.says.body
  BY <1>2
<1>5. Len(h) \in Nat /\ Len(b) \in Nat
  OBVIOUS
<1>6. /\ h \o b \in Seq(Pieces) /\ Len(h \o b) = Len(h) + Len(b)
      /\ \A i \in 1..(Len(h) + Len(b)) : (h \o b)[i] = IF i <= Len(h) THEN h[i] ELSE b[i - Len(h)]
  BY ConcatProperties
<1>7. h # <<>>
  BY <1>2, <1>3 DEF EndsInBlank
<1>8. Len(h) > 0
  BY <1>5, <1>7
<1>9. \A i \in 1..Len(h) : (h \o b)[i] = h[i]
  BY <1>5, <1>6
<1>10. \A k \in 1..Len(b) : (h \o b)[Len(h) + k] = b[k]
  <2>1. TAKE k \in 1..Len(b)
  <2>2. Len(h) + k \in 1..(Len(h) + Len(b)) /\ ~(Len(h) + k <= Len(h)) /\ Len(h) + k - Len(h) = k
    BY <1>5
  <2>3. QED BY <1>6, <2>2
<1>11. TheWhole = h \o b /\ HeadLen = Len(h) /\ TheBody = b /\ TheHead = h
  BY <1>3, <1>4 DEF TheWhole, Whole, HeadLen, TheHead, TheBody
<1>12. QED BY <1>1, <1>2, <1>3, <1>5, <1>6, <1>8, <1>9, <1>10, <1>11

\* What the reader does not do leaves the rest as it was.
LEMMA ReadingStays ==
    ASSUME ReadInv, client'.says = client.says, Behind' = Behind,
           reading' = reading, framing' = framing, bodyRead' = bodyRead, outcome' = outcome
    PROVE  OutcomeInv' /\ FramedInv' /\ BodyInv' /\ ServedInv'
<1>1. TheBody' = TheBody /\ HeadLen' = HeadLen /\ TheHead' = TheHead
  BY DEF TheBody, HeadLen, TheHead
<1>2. OutcomeInv'
  BY DEF ReadInv, OutcomeInv, StillReading
<1>3. FramedInv'
  BY <1>1 DEF ReadInv, FramedInv, MoreBody
<1>4. BodyInv'
  <2>1. BodyInv
    BY DEF ReadInv
  <2>2. QED BY <1>1, <2>1 DEF BodyInv, MoreBody
<1>5. ServedInv'
  BY <1>1 DEF ReadInv, ServedInv
<1>6. QED BY <1>2, <1>3, <1>4, <1>5

\* Where the reading is over, nothing is claimed of what is on its way.
LEMMA IsOver ==
    ASSUME reading'.state \in {"over", "drain", "closed"}
    PROVE  WayInv' /\ HeadInv' /\ BodyInv' /\ (outcome' # "ok" => FramedInv' /\ ServedInv') /\ HeldBodyIsAskedFor'
<1>1. ~StillReading' /\ ~MoreBody' /\ reading'.state # "head"
  BY DEF StillReading, ReadStates, MoreBody
<1>2. QED BY <1>1 DEF WayInv, HeadInv, BodyInv, FramedInv, ServedInv, HeldBodyIsAskedFor

\* What is at hand of the body: the pieces of the buffer are the next of it.
LEMMA AtHand ==
    ASSUME ReadInv, MoreBody
    PROVE  /\ Behind - HeadLen \in Nat /\ Behind \in Nat /\ Behind - HeadLen + Len(inbuf) <= Len(TheBody)
           /\ \A k \in 1..Len(inbuf) : inbuf[k] = TheBody[Behind - HeadLen + k]
<1>1. ReadTyped /\ WayInv /\ BodyInv /\ StillReading
  BY DEF ReadInv, MoreBody, StillReading, ReadStates
<1>2. Behind \in Nat /\ NextOf(TheWhole, Behind, inbuf, sock) /\ Behind >= HeadLen
  BY <1>1 DEF WayInv, BodyInv
<1>3. /\ HeadLen \in Nat /\ Len(TheBody) \in Nat /\ Len(TheWhole) = HeadLen + Len(TheBody) /\ client.told \in Nat
      /\ \A k \in 1..Len(TheBody) : TheWhole[HeadLen + k] = TheBody[k]
  BY <1>1, RequestShape
<1>4. Len(inbuf) \in Nat /\ Len(sock) \in Nat /\ client.told <= Len(TheWhole)
  BY <1>1 DEF ReadTyped
<1>5. client.told = Behind + Len(inbuf) + Len(sock)
  BY <1>3, <1>4 DEF Behind
<1>6. PICK q \in Nat : q = Behind
  BY <1>2
<1>7. q - HeadLen \in Nat /\ q - HeadLen + Len(inbuf) <= Len(TheBody)
  BY <1>2, <1>3, <1>4, <1>5, <1>6
<1>8. ASSUME NEW k \in 1..Len(inbuf) PROVE inbuf[k] = TheBody[q - HeadLen + k]
  <2>1. inbuf[k] = TheWhole[q + k]
    BY <1>2, <1>6 DEF NextOf
  <2>2. q - HeadLen + k \in 1..Len(TheBody) /\ HeadLen + (q - HeadLen + k) = q + k
    BY <1>3, <1>4, <1>7
  <2>3. QED BY <1>3, <2>1, <2>2
<1>9. QED BY <1>6, <1>7, <1>8

-----------------------------------------------------------------------------
(* The client's steps. *)
\* A piece more is on its way.
LEMMA ClientSendsKeeps == ASSUME ReadInv, ClientSends PROVE ReadInv'
<1>1. ReadTyped /\ WayInv /\ HeadInv
  BY DEF ReadInv
<1>2. PICK r \in Requests, t \in Nat, m \in BOOLEAN :
         r = client.says /\ t = client.told /\ m = client.more /\ client = [says |-> r, told |-> t, more |-> m]
  BY <1>1 DEF ReadTyped
<1>3. /\ t < Len(TheWhole) /\ client' = [client EXCEPT !.told = @ + 1] /\ sock' = Append(sock, TheWhole[t + 1])
      /\ inbuf' = inbuf /\ reading' = reading /\ framing' = framing /\ interim' = interim
      /\ bodyRead' = bodyRead /\ outcome' = outcome /\ drained' = drained /\ reading.state # "closed"
  BY <1>2 DEF ClientSends, MaySend, TheWhole
<1>4. client' = [says |-> r, told |-> t + 1, more |-> m]
  BY <1>2, <1>3
<1>5. TheWhole' = TheWhole /\ client'.says = client.says
  BY <1>2, <1>4 DEF TheWhole
<1>6. TheWhole \in Seq(Pieces) /\ Len(TheWhole) \in Nat
  BY <1>1, RequestShape
<1>7. sock \in Seq(Pieces) /\ inbuf \in Seq(Pieces) /\ t <= Len(TheWhole)
  BY <1>1, <1>2 DEF ReadTyped
<1>8. PICK x \in Pieces : x = TheWhole[t + 1]
  BY <1>3, <1>6
<1>9. Append(sock, x) \in Seq(Pieces) /\ Len(Append(sock, x)) = Len(sock) + 1
  BY <1>7, AppendProperties
<1>10. Len(sock) \in Nat /\ Len(inbuf) \in Nat
  BY <1>7
<1>11. Behind' = Behind /\ t = Behind + Len(inbuf) + Len(sock)
  <2>1. Behind = t - Len(sock) - Len(inbuf) /\ Behind' = t + 1 - (Len(sock) + 1) - Len(inbuf)
    BY <1>2, <1>3, <1>4, <1>8, <1>9 DEF Behind
  <2>2. QED BY <1>10, <2>1
<1>12. ReadTyped'
  <2>1. client' \in [says : Requests, told : Nat, more : BOOLEAN]
    BY <1>4
  <2>2. client'.told <= Len(TheWhole')
    <3>1. client'.told = t + 1 /\ t + 1 <= Len(TheWhole)
      BY <1>3, <1>4, <1>6
    <3>2. QED BY <1>5, <3>1
  <2>3. sock' \in Seq(Pieces)
    BY <1>3, <1>8, <1>9
  <2>4. QED BY <1>1, <1>3, <2>1, <2>2, <2>3 DEF ReadTyped
<1>13. WayInv'
  <2>1. ASSUME StillReading PROVE Behind \in Nat /\ NextOf(TheWhole, Behind, inbuf, Append(sock, x))
    <3>1. PICK q \in Nat : q = Behind /\ NextOf(TheWhole, q, inbuf, sock)
      BY <1>1, <2>1 DEF WayInv
    <3>2. x = TheWhole[q + Len(inbuf) + Len(sock) + 1]
      BY <1>8, <1>11, <3>1
    <3>3. NextOf(TheWhole, q, inbuf, Append(sock, x))
      BY <1>7, <3>1, <3>2, OneMoreSent
    <3>4. QED BY <3>1, <3>3
  <2>2. StillReading' = StillReading
    BY <1>3 DEF StillReading
  <2>4. StillReading' => Behind' \in Nat /\ NextOf(TheWhole', Behind', inbuf', sock')
    BY <1>3, <1>5, <1>8, <1>11, <2>1, <2>2
  <2>5. QED BY <2>4 DEF WayInv, NextOf
<1>14. HeadInv'
  BY <1>1, <1>3, <1>11 DEF HeadInv
<1>15. OutcomeInv' /\ FramedInv' /\ BodyInv' /\ ServedInv'
  BY <1>3, <1>5, <1>11, ReadingStays
<1>16. HeldBodyIsAskedFor' /\ RefusalIsHeard'
  BY <1>3 DEF ReadInv, HeldBodyIsAskedFor, RefusalIsHeard, MoreBody
<1>17. QED BY <1>12, <1>13, <1>14, <1>15, <1>16 DEF ReadInv

\* It says no more.
LEMMA ClientStopsKeeps == ASSUME ReadInv, ClientStops PROVE ReadInv'
<1>1. /\ client' = [client EXCEPT !.more = FALSE] /\ UNCHANGED <<sock, inbuf, reading, framing>>
      /\ UNCHANGED <<interim, bodyRead, outcome, drained>>
  BY DEF ClientStops
<1>2. ReadTyped
  BY DEF ReadInv
<1>3. /\ client' \in [says : Requests, told : Nat, more : BOOLEAN]
      /\ client'.says = client.says /\ client'.told = client.told
  BY <1>1, <1>2 DEF ReadTyped
<1>4. TheWhole' = TheWhole /\ Behind' = Behind
  BY <1>1, <1>3 DEF TheWhole, Behind
<1>5. ReadTyped'
  BY <1>1, <1>2, <1>3, <1>4 DEF ReadTyped
<1>6. WayInv'
  <2>1. WayInv /\ StillReading' = StillReading
    BY <1>1 DEF ReadInv, StillReading
  <2>2. StillReading' => Behind' \in Nat /\ NextOf(TheWhole', Behind', inbuf', sock')
    BY <1>1, <1>4, <2>1 DEF WayInv
  <2>3. QED BY <2>2 DEF WayInv, NextOf
<1>7. HeadInv'
  BY <1>1, <1>4 DEF ReadInv, HeadInv
<1>8. OutcomeInv' /\ FramedInv' /\ BodyInv' /\ ServedInv'
  BY <1>1, <1>3, <1>4, ReadingStays
<1>9. HeldBodyIsAskedFor' /\ RefusalIsHeard'
  BY <1>1 DEF ReadInv, HeldBodyIsAskedFor, RefusalIsHeard, MoreBody
<1>10. QED BY <1>5, <1>6, <1>7, <1>8, <1>9 DEF ReadInv

-----------------------------------------------------------------------------
(* The steps of the body. *)
\* The buffer is empty and is filled again.
LEMMA RefillKeeps == ASSUME ReadInv, Refill PROVE ReadInv'
<1>1. PICK k \in 1..Len(sock) : inbuf' = SubSeq(sock, 1, k) /\ sock' = SubSeq(sock, k + 1, Len(sock))
  BY DEF Refill
<1>2. /\ MoreBody /\ inbuf = <<>> /\ client' = client /\ reading' = reading /\ framing' = framing
      /\ interim' = interim /\ bodyRead' = bodyRead /\ outcome' = outcome /\ drained' = drained
  BY DEF Refill
<1>3. ReadTyped /\ WayInv
  BY DEF ReadInv
<1>4. StillReading /\ reading.state \notin {"head", "closed"}
  BY <1>2 DEF MoreBody, StillReading, ReadStates
<1>5. PICK q \in Nat : q = Behind /\ NextOf(TheWhole, q, inbuf, sock)
  BY <1>3, <1>4 DEF WayInv
<1>6. sock \in Seq(Pieces) /\ <<>> \in Seq(Pieces) /\ Len(sock) \in Nat /\ client.told \in Nat
  BY <1>3, RequestShape DEF ReadTyped
<1>7. /\ NextOf(TheWhole, q, inbuf \o SubSeq(sock, 1, k), SubSeq(sock, k + 1, Len(sock)))
      /\ inbuf \o SubSeq(sock, 1, k) \in Seq(Pieces) /\ Len(inbuf \o SubSeq(sock, 1, k)) = Len(inbuf) + k
      /\ SubSeq(sock, k + 1, Len(sock)) \in Seq(Pieces) /\ Len(SubSeq(sock, k + 1, Len(sock))) = Len(sock) - k
  <2>1. PICK w, u, s : w = TheWhole /\ u = inbuf /\ s = sock
    OBVIOUS
  <2>2. u \in Seq(Pieces) /\ s \in Seq(Pieces) /\ NextOf(w, q, u, s) /\ k \in 1..Len(s)
    BY <1>2, <1>5, <1>6, <2>1
  <2>3. /\ NextOf(w, q, u \o SubSeq(s, 1, k), SubSeq(s, k + 1, Len(s)))
        /\ u \o SubSeq(s, 1, k) \in Seq(Pieces) /\ Len(u \o SubSeq(s, 1, k)) = Len(u) + k
        /\ SubSeq(s, k + 1, Len(s)) \in Seq(Pieces) /\ Len(SubSeq(s, k + 1, Len(s))) = Len(s) - k
    BY <2>2, SomeMoved
  <2>4. QED BY <2>1, <2>3, Zenon
<1>8. inbuf \o SubSeq(sock, 1, k) = inbuf'
  <2>1. SubSeq(sock, 1, k) \in Seq(Pieces)
    BY <1>6
  <2>2. <<>> \o SubSeq(sock, 1, k) = SubSeq(sock, 1, k)
    BY <2>1, ConcatEmptySeq
  <2>3. QED BY <1>1, <1>2, <2>2
<1>9. Len(inbuf) = 0
  BY <1>2
<1>10. Len(inbuf') = k /\ Len(sock') = Len(sock) - k /\ inbuf' \in Seq(Pieces) /\ sock' \in Seq(Pieces)
  BY <1>1, <1>7, <1>8, <1>9
<1>11. Behind' = Behind /\ TheWhole' = TheWhole
  <2>1. Behind = client.told - Len(sock) - 0 /\ Behind' = client.told - (Len(sock) - k) - k
    BY <1>2, <1>9, <1>10 DEF Behind
  <2>2. Behind' = Behind
    BY <1>6, <2>1
  <2>3. QED BY <1>2, <2>2 DEF TheWhole
<1>12. ReadTyped'
  BY <1>2, <1>3, <1>10, <1>11 DEF ReadTyped
<1>13. WayInv'
  <2>1. Behind' \in Nat /\ NextOf(TheWhole', Behind', inbuf', sock')
    BY <1>1, <1>5, <1>7, <1>8, <1>11
  <2>2. QED BY <2>1 DEF WayInv, NextOf
<1>14. HeadInv'
  BY <1>2, <1>4 DEF HeadInv
<1>15. OutcomeInv' /\ FramedInv' /\ BodyInv' /\ ServedInv'
  BY <1>2, <1>11, ReadingStays
<1>16. HeldBodyIsAskedFor' /\ RefusalIsHeard'
  BY <1>2, <1>4 DEF ReadInv, HeldBodyIsAskedFor, RefusalIsHeard, MoreBody
<1>17. QED BY <1>12, <1>13, <1>14, <1>15, <1>16 DEF ReadInv

\* Behind k pieces of the buffer.
LEMMA TakenStays ==
    ASSUME ReadInv, MoreBody, NEW k \in 0..Len(inbuf), inbuf' = SubSeq(inbuf, k + 1, Len(inbuf)),
           client' = client, sock' = sock
    PROVE  /\ Behind' = Behind + k /\ Behind \in Nat /\ inbuf' \in Seq(Pieces) /\ WayInv'
           /\ TheWhole' = TheWhole /\ HeadLen' = HeadLen /\ TheBody' = TheBody
           /\ TheHead' = TheHead /\ HeadLen \in Nat
<1>1. ReadTyped /\ WayInv /\ StillReading
  BY DEF ReadInv, MoreBody, StillReading, ReadStates
<1>2. PICK q \in Nat : q = Behind /\ NextOf(TheWhole, q, inbuf, sock)
  BY <1>1 DEF WayInv
<1>3. /\ sock \in Seq(Pieces) /\ inbuf \in Seq(Pieces) /\ Len(sock) \in Nat /\ Len(inbuf) \in Nat
      /\ client.told \in Nat /\ HeadLen \in Nat
  BY <1>1, RequestShape DEF ReadTyped
<1>4. NextOf(TheWhole, q + k, inbuf', sock) /\ inbuf' \in Seq(Pieces) /\ Len(inbuf') = Len(inbuf) - k
  <2>1. PICK w, u, s, v, m : w = TheWhole /\ u = inbuf /\ s = sock /\ v = inbuf' /\ m = q + k
    OBVIOUS
  <2>2. u \in Seq(Pieces) /\ s \in Seq(Pieces) /\ NextOf(w, q, u, s) /\ k \in Nat /\ k <= Len(u)
        /\ m = q + k /\ v = SubSeq(u, k + 1, Len(u))
    BY <1>2, <1>3, <2>1
  <2>3. NextOf(w, m, v, s)
    BY <2>2, SomeTaken, Zenon
  <2>4. v \in Seq(Pieces) /\ Len(v) = Len(u) - k
    <3>1. Len(u) \in Nat /\ Len(u) <= Len(u)
      BY <2>2
    <3>2. QED BY <2>2, <3>1, PartOf
  <2>5. QED BY <2>1, <2>3, <2>4, Zenon
<1>5. Behind' = Behind + k
  <2>1. Behind = client.told - Len(sock) - Len(inbuf) /\ Behind' = client.told - Len(sock) - (Len(inbuf) - k)
    BY <1>4 DEF Behind
  <2>2. QED BY <1>3, <2>1
<1>6. TheWhole' = TheWhole /\ HeadLen' = HeadLen /\ TheBody' = TheBody /\ TheHead' = TheHead
  BY DEF TheWhole, HeadLen, TheHead, TheBody
<1>7. Behind' \in Nat /\ NextOf(TheWhole', Behind', inbuf', sock')
  BY <1>2, <1>4, <1>5, <1>6
<1>8. WayInv'
  BY <1>7 DEF WayInv, NextOf
<1>9. QED BY <1>2, <1>3, <1>4, <1>5, <1>6, <1>8

\* What a step of the body leaves to show: where it stands in the body, or what it is served.
LEMMA BodyStep ==
    ASSUME ReadInv, MoreBody, NEW k \in 0..Len(inbuf), inbuf' = SubSeq(inbuf, k + 1, Len(inbuf)),
           client' = client, sock' = sock, framing' = framing, interim' = interim, drained' = drained,
           bodyRead' \in Seq(Pieces), reading'.want \in Nat,
           \/ reading' = [state |-> reading'.state, want |-> reading'.want] /\ MoreBody' /\ outcome' = outcome /\ BodyInv'
           \/ reading' = [state |-> "over", want |-> reading'.want] /\ outcome' \in ReadOutcomes \ {"none"} /\ ServedInv'
    PROVE  ReadInv'
<1>1. ReadTyped /\ FramedInv /\ HeldBodyIsAskedFor /\ OutcomeInv /\ StillReading
  BY DEF ReadInv, MoreBody, StillReading, ReadStates
<1>2. /\ inbuf' \in Seq(Pieces) /\ WayInv' /\ TheWhole' = TheWhole /\ TheHead' = TheHead
  BY TakenStays
<1>3. reading' \in [state : ReadStates \cup {"over", "drain", "closed"}, want : Nat]
  BY DEF MoreBody, ReadStates
<1>4. outcome' \in ReadOutcomes
  BY <1>1 DEF ReadTyped
<1>5. ReadTyped'
  BY <1>1, <1>2, <1>3, <1>4 DEF ReadTyped
<1>6. FramedInv'
  BY <1>1, <1>2 DEF FramedInv
<1>7. outcome = "none"
  BY <1>1 DEF OutcomeInv
<1>8. CASE MoreBody' /\ outcome' = outcome /\ BodyInv'
  <2>1. StillReading' /\ reading'.state \notin {"head", "over", "closed"}
    BY <1>8 DEF MoreBody, StillReading, ReadStates
  <2>2. HeadInv' /\ RefusalIsHeard' /\ OutcomeInv' /\ ServedInv'
    BY <1>7, <1>8, <2>1 DEF HeadInv, RefusalIsHeard, OutcomeInv, ServedInv
  <2>3. HeldBodyIsAskedFor'
    BY <1>1 DEF HeldBodyIsAskedFor
  <2>4. QED BY <1>2, <1>5, <1>6, <1>8, <2>2, <2>3 DEF ReadInv
<1>9. CASE reading' = [state |-> "over", want |-> reading'.want] /\ outcome' \in ReadOutcomes \ {"none"} /\ ServedInv'
  <2>1. reading'.state = "over"
    BY <1>9
  <2>2. WayInv' /\ HeadInv' /\ BodyInv' /\ HeldBodyIsAskedFor'
    BY <2>1, IsOver
  <2>3. OutcomeInv' /\ RefusalIsHeard'
    BY <2>1 DEF OutcomeInv, RefusalIsHeard, StillReading, ReadStates
  <2>4. QED BY <1>5, <1>6, <1>9, <2>2, <2>3 DEF ReadInv
<1>10. QED BY <1>8, <1>9

\* The beginning of the body, and some more.
LEMMA MoreOfBody ==
    ASSUME NEW b \in Seq(Pieces), NEW u \in Seq(Pieces), NEW p \in Nat, p + Len(u) <= Len(b),
           \A k \in 1..Len(u) : u[k] = b[p + k]
    PROVE  SubSeq(b, 1, p) \o u = SubSeq(b, 1, p + Len(u)) /\ SubSeq(b, 1, p + Len(u)) \in Seq(Pieces)
<1>0. Len(b) \in Nat /\ Len(u) \in Nat /\ <<>> \in Seq(Pieces) /\ 0 + 1 = 1
  OBVIOUS
<1>1. /\ (<<>> \o SubSeq(b, 0 + 1, p)) \o u = <<>> \o SubSeq(b, 0 + 1, p + Len(u))
      /\ <<>> \o SubSeq(b, 0 + 1, p + Len(u)) \in Seq(Pieces)
  <2>1. 0 \in Nat /\ 0 <= p
    OBVIOUS
  <2>2. QED BY <1>0, <2>1, MoreOfIt
<1>2. \A q \in Nat : q <= Len(b) => <<>> \o SubSeq(b, 1, q) = SubSeq(b, 1, q)
  <2>1. TAKE q \in Nat
  <2>2. HAVE q <= Len(b)
  <2>3. SubSeq(b, 0 + 1, q) \in Seq(Pieces)
    BY <2>2, PartOf
  <2>4. SubSeq(b, 1, q) \in Seq(Pieces)
    BY <1>0, <2>3
  <2>5. QED BY <2>4, ConcatEmptySeq
<1>3. p <= Len(b) /\ p + Len(u) <= Len(b) /\ p + Len(u) \in Nat
  BY <1>0
<1>4. QED BY <1>0, <1>1, <1>2, <1>3

\* Bytes by length or of a chunk go to the body.
LEMMA TakeBytesKeeps == ASSUME ReadInv, TakeBytes PROVE ReadInv'
<1> DEFINE n == IF Len(inbuf) < reading.want THEN Len(inbuf) ELSE reading.want
<1>1. /\ reading.state \in {"body", "data"} /\ inbuf # <<>> /\ MoreBody
      /\ bodyRead' = bodyRead \o SubSeq(inbuf, 1, n) /\ inbuf' = SubSeq(inbuf, n + 1, Len(inbuf))
      /\ client' = client /\ sock' = sock /\ framing' = framing /\ interim' = interim /\ drained' = drained
  BY DEF TakeBytes, MoreBody
<1>2. /\ n < reading.want => reading' = [state |-> reading.state, want |-> reading.want - n] /\ outcome' = outcome
      /\ ~(n < reading.want) /\ reading.state = "body" => outcome' = "ok" /\ reading' = [state |-> "over", want |-> 0]
      /\ ~(n < reading.want) /\ reading.state = "data" => outcome' = outcome /\ reading' = [state |-> "ending", want |-> 0]
  BY <1>1 DEF TakeBytes, Goto, EndsWith
<1>3. ReadTyped /\ BodyInv /\ FramedInv
  BY DEF ReadInv
<1>4. reading.want \in Nat /\ inbuf \in Seq(Pieces) /\ Len(inbuf) \in Nat /\ reading.want > 0
  BY <1>1, <1>3 DEF ReadTyped, BodyInv
<1>5. n \in 0..Len(inbuf) /\ n <= reading.want /\ n \in Nat
  BY <1>4
<1> HIDE DEF n
<1>6. PICK u : u = SubSeq(inbuf, 1, n)
  OBVIOUS
<1>7. PICK p \in Nat, b \in Seq(Pieces) : p = Behind - HeadLen /\ b = TheBody
  BY <1>1, <1>3, AtHand, RequestShape
<1>8. /\ p + Len(inbuf) <= Len(b) /\ \A k \in 1..Len(inbuf) : inbuf[k] = b[p + k]
  BY <1>1, <1>7, AtHand
<1>9. u \in Seq(Pieces) /\ Len(u) = n /\ \A k \in 1..n : u[k] = inbuf[0 + k]
  <2>1. n <= Len(inbuf) /\ 0 <= n /\ 0 + 1 = 1 /\ n - 0 = n
    BY <1>5
  <2>2. /\ SubSeq(inbuf, 0 + 1, n) \in Seq(Pieces) /\ Len(SubSeq(inbuf, 0 + 1, n)) = n - 0
        /\ \A k \in 1..(n - 0) : SubSeq(inbuf, 0 + 1, n)[k] = inbuf[0 + k]
    BY <1>4, <1>5, <2>1, PartOf
  <2>3. QED BY <1>6, <2>1, <2>2
<1>10. Len(b) \in Nat /\ p + Len(u) <= Len(b)
  BY <1>4, <1>5, <1>8, <1>9
<1>11. \A k \in 1..Len(u) : u[k] = b[p + k]
  <2>1. TAKE k \in 1..Len(u)
  <2>2. k \in 1..n /\ k \in 1..Len(inbuf) /\ 0 + k = k
    BY <1>4, <1>5, <1>9
  <2>3. QED BY <1>8, <1>9, <2>2
<1>12. /\ Behind' = Behind + n /\ Behind \in Nat /\ HeadLen' = HeadLen /\ TheBody' = TheBody /\ HeadLen \in Nat
  BY <1>1, <1>5, TakenStays
<1>13. Behind' - HeadLen' = p + n /\ Behind' >= HeadLen' /\ p + n \in Nat /\ TheBody' = b
  BY <1>5, <1>7, <1>12
<1>14. CASE reading.state = "body"
  <2>1. /\ ~framing.chunked /\ framing.length = p + reading.want /\ bodyRead = SubSeq(b, 1, p)
    BY <1>1, <1>3, <1>7, <1>14 DEF BodyInv
  <2>2. bodyRead' = SubSeq(b, 1, p + n) /\ bodyRead' \in Seq(Pieces)
    <3>1. SubSeq(b, 1, p) \o u = SubSeq(b, 1, p + Len(u)) /\ SubSeq(b, 1, p + Len(u)) \in Seq(Pieces)
      BY <1>9, <1>10, <1>11, MoreOfBody
    <3>2. QED BY <1>1, <1>6, <1>9, <2>1, <3>1
  <2>3. CASE n < reading.want
    <3>1. reading'.state = "body" /\ reading'.want = reading.want - n /\ reading'.want \in Nat /\ outcome' = outcome
          /\ reading' = [state |-> reading'.state, want |-> reading'.want]
      BY <1>2, <1>4, <1>5, <1>14, <2>3
    <3>2. MoreBody'
      BY <3>1 DEF MoreBody
    <3>3. reading'.want > 0 /\ framing'.length = p + n + reading'.want /\ ~framing'.chunked
      <4>1. PICK want \in Nat, left \in Nat : want = reading.want /\ left = reading'.want
        BY <1>4, <3>1
      <4>2. left = want - n /\ n < want /\ n \in Nat
        BY <1>5, <2>3, <3>1, <4>1
      <4>3. left > 0 /\ p + n + left = p + want
        BY <4>2
      <4>4. QED BY <1>1, <2>1, <4>1, <4>3
    <3>4. BodyInv'
      BY <1>13, <2>2, <3>1, <3>3 DEF BodyInv
    <3>5. QED BY <1>1, <1>5, <2>2, <3>1, <3>2, <3>4, BodyStep
  <2>4. CASE ~(n < reading.want)
    <3>1. outcome' = "ok" /\ reading' = [state |-> "over", want |-> 0]
      BY <1>2, <1>14, <2>4
    <3>2. n = reading.want
      BY <1>4, <1>5, <2>4
    <3>3. framing'.length = p + n /\ framing'.length > 0 /\ ~framing'.chunked
      BY <1>1, <1>4, <1>5, <2>1, <3>2
    <3>4. ServedInv'
      BY <1>13, <2>2, <3>3 DEF ServedInv
    <3>5. /\ outcome' \in ReadOutcomes \ {"none"} /\ reading'.want \in Nat
          /\ reading' = [state |-> "over", want |-> reading'.want]
      BY <3>1 DEF ReadOutcomes
    <3>6. QED BY <1>1, <1>5, <2>2, <3>4, <3>5, BodyStep
  <2>5. QED BY <2>3, <2>4
<1>15. CASE reading.state = "data"
  <2>1. framing.chunked /\ InChunk(b, bodyRead, reading.want, p)
    BY <1>1, <1>3, <1>7, <1>15 DEF BodyInv
  <2>2. PICK i \in 1..Len(b), old \in Seq(Pieces) :
            /\ b[i].kind = "chunk" /\ b[i].n > 0 /\ AtChunk(b, old, i)
            /\ reading.want <= b[i].n /\ p = i + b[i].n - reading.want /\ bodyRead = old \o SubSeq(b, i + 1, p)
    BY <2>1 DEF InChunk
  <2>3. b[i].n \in Nat
    <3>1. b[i] \in Pieces
      OBVIOUS
    <3>2. QED BY <3>1 DEF Pieces
  <2>4. i \in Nat /\ i <= p
    BY <1>4, <1>10, <2>2, <2>3
  <2>5. /\ (old \o SubSeq(b, i + 1, p)) \o u = old \o SubSeq(b, i + 1, p + Len(u))
        /\ old \o SubSeq(b, i + 1, p + Len(u)) \in Seq(Pieces)
    BY <1>9, <1>10, <1>11, <2>4, MoreOfIt
  <2>6. bodyRead' = old \o SubSeq(b, i + 1, p + n) /\ bodyRead' \in Seq(Pieces)
    BY <1>1, <1>6, <1>9, <2>2, <2>5
  <2>7. ASSUME NEW m \in Nat, m = reading.want - n PROVE InChunk(b, bodyRead', m, p + n)
    <3>1. m <= b[i].n /\ p + n = i + b[i].n - m
      <4>1. PICK want \in Nat, size \in Nat : want = reading.want /\ size = b[i].n
        BY <1>4, <2>3
      <4>2. m = want - n /\ want <= size /\ p = i + size - want /\ n \in Nat /\ i \in Nat
        BY <1>5, <2>2, <2>4, <2>7, <4>1
      <4>3. m <= size /\ p + n = i + size - m
        BY <4>2
      <4>4. QED BY <4>1, <4>3
    <3>2. QED BY <2>2, <2>6, <3>1 DEF InChunk
  <2>8. PICK m \in Nat : m = reading.want - n
    BY <1>4, <1>5
  <2>9. /\ reading'.want = m /\ outcome' = outcome /\ reading' = [state |-> reading'.state, want |-> reading'.want]
        /\ reading'.state = IF m > 0 THEN "data" ELSE "ending"
    <3>1. n < reading.want <=> m > 0
      BY <1>4, <1>5, <2>8
    <3>2. ~(n < reading.want) => m = 0
      BY <1>4, <1>5, <2>8
    <3>3. QED BY <1>2, <1>15, <2>8, <3>1, <3>2
  <2>10. MoreBody' /\ reading'.state \in {"data", "ending"}
    BY <2>9 DEF MoreBody
  <2>11. framing'.chunked /\ InChunk(b, bodyRead', m, p + n)
    BY <1>1, <2>1, <2>7, <2>8
  <2>12. BodyInv'
    <3>1. (reading'.state = "data" => m > 0) /\ (reading'.state = "ending" => m = 0)
      BY <2>9
    <3>2. InChunk(TheBody', bodyRead', reading'.want, Behind' - HeadLen')
      BY <1>13, <2>9, <2>11
    <3>3. QED BY <1>13, <2>9, <2>10, <2>11, <3>1, <3>2 DEF BodyInv, InChunk, AtChunk
  <2>13. QED BY <1>1, <1>5, <2>6, <2>9, <2>10, <2>12, BodyStep
<1>16. QED BY <1>1, <1>14, <1>15

\* A size, the end of a chunk, a trailer.
LEMMA TakeLineKeeps == ASSUME ReadInv, TakeLine PROVE ReadInv'
<1>1. /\ reading.state \in {"size", "ending", "trailer"} /\ inbuf # <<>> /\ MoreBody /\ inbuf' = Tail(inbuf)
      /\ client' = client /\ sock' = sock /\ framing' = framing /\ interim' = interim /\ bodyRead' = bodyRead
      /\ drained' = drained
  BY DEF TakeLine, MoreBody
<1>2. ReadTyped /\ BodyInv /\ OutcomeInv
  BY DEF ReadInv
<1>3. inbuf \in Seq(Pieces) /\ Len(inbuf) \in Nat /\ bodyRead \in Seq(Pieces) /\ Len(inbuf) >= 1
  <2>1. inbuf \in Seq(Pieces) /\ Len(inbuf) \in Nat /\ bodyRead \in Seq(Pieces)
    BY <1>2 DEF ReadTyped
  <2>2. QED BY <1>1, <2>1
<1>4. inbuf' = SubSeq(inbuf, 1 + 1, Len(inbuf)) /\ 1 \in 0..Len(inbuf)
  <2>1. Tail(inbuf) = SubSeq(inbuf, 2, Len(inbuf))
    BY <1>1, <1>3
  <2>2. QED BY <1>1, <1>3, <2>1
<1>5. PICK p \in Nat, b \in Seq(Pieces) : p = Behind - HeadLen /\ b = TheBody
  BY <1>1, <1>2, AtHand, RequestShape
<1>6. PICK q \in Pieces : q = Head(inbuf) /\ q = b[p + 1]
  <2>1. Head(inbuf) = inbuf[1] /\ inbuf[1] \in Pieces
    BY <1>1, <1>3
  <2>2. \A k \in 1..Len(inbuf) : inbuf[k] = b[p + k]
    BY <1>1, <1>5, AtHand
  <2>3. 1 \in 1..Len(inbuf)
    BY <1>3
  <2>4. QED BY <2>1, <2>2, <2>3
<1>7. Len(b) \in Nat /\ p + 1 \in 1..Len(b) /\ b[p + 1].n \in Nat
  <2>1. p + Len(inbuf) <= Len(b)
    BY <1>1, <1>5, AtHand
  <2>2. q.n \in Nat
    BY DEF Pieces
  <2>3. QED BY <1>3, <1>6, <2>1, <2>2
<1>8. Behind' - HeadLen' = p + 1 /\ Behind' >= HeadLen' /\ TheBody' = b
  <2>1. Behind' = Behind + 1 /\ Behind \in Nat /\ HeadLen' = HeadLen /\ TheBody' = TheBody /\ HeadLen \in Nat
    BY <1>1, <1>4, TakenStays
  <2>2. QED BY <1>5, <2>1
<1>9. framing.chunked
  BY <1>1, <1>2 DEF BodyInv
<1>x. PICK next : next = AfterLine(q)
  OBVIOUS
<1>10. /\ next \in {"ok", "invalid", "too large"} => outcome' = next /\ reading' = [state |-> "over", want |-> 0]
       /\ next \notin {"ok", "invalid", "too large"} =>
             outcome' = outcome /\ reading' = [state |-> next, want |-> IF next = "data" THEN q.n ELSE 0]
  <2>1. next = AfterLine(Head(inbuf)) /\ q.n = Head(inbuf).n
    BY <1>6, <1>x
  <2>2. IF next \in {"ok", "invalid", "too large"} THEN EndsWith(next)
        ELSE Goto(next, IF next = "data" THEN q.n ELSE 0) /\ outcome' = outcome
    BY <2>1 DEF TakeLine
  <2>3. QED BY <2>2 DEF Goto, EndsWith
<1>y. next = IF reading.state = "ending" THEN IF q.kind = "crlf" THEN "size" ELSE "invalid"
             ELSE IF reading.state = "size" THEN
                    IF q.kind # "chunk" THEN "invalid"
                    ELSE IF q.n = 0 THEN "trailer"
                    ELSE IF q.n > BodyCap - Len(bodyRead) THEN "too large" ELSE "data"
             ELSE IF q.kind = "blank" THEN "ok" ELSE IF q.kind = "other" THEN "trailer" ELSE "invalid"
  BY <1>x DEF AfterLine
<1>11. next \in {"ok", "invalid", "too large", "size", "data", "trailer"}
  BY <1>y
<1>12. CASE next \in {"invalid", "too large"}
  <2>1. outcome' \in ReadOutcomes \ {"none"} /\ reading' = [state |-> "over", want |-> 0] /\ outcome' # "ok"
    BY <1>10, <1>12 DEF ReadOutcomes
  <2>2. ServedInv'
    BY <2>1 DEF ServedInv
  <2>3. QED BY <1>1, <1>3, <1>4, <2>1, <2>2, BodyStep
<1>13. CASE next = "ok"
  <2>1. reading.state = "trailer" /\ q.kind = "blank"
    BY <1>1, <1>y, <1>13
  <2>2. outcome' = "ok" /\ reading' = [state |-> "over", want |-> 0]
    BY <1>10, <1>13
  <2>3. PICK i \in 1..Len(b) :
           /\ b[i].kind = "chunk" /\ b[i].n = 0 /\ AtChunk(b, bodyRead, i)
           /\ p >= i /\ \A k \in (i + 1)..p : b[k].kind = "other"
    BY <1>1, <1>2, <1>5, <2>1 DEF BodyInv, InTrailer
  <2>4. Closes(b, i)
    <3>1. p + 1 \in (i + 1)..Len(b) /\ b[p + 1].kind = "blank" /\ p + 1 - 1 = p
      BY <1>6, <1>7, <2>1, <2>3
    <3>2. QED BY <2>3, <3>1 DEF Closes
  <2>5. Joined(b) = [whole |-> TRUE, bytes |-> bodyRead]
    BY <1>3, <2>3, <2>4, ChunksEnd
  <2>6. ServedInv'
    <3>1. Joined(TheBody') = [whole |-> TRUE, bytes |-> bodyRead'] /\ framing'.chunked
      BY <1>1, <1>8, <1>9, <2>5
    <3>2. QED BY <3>1 DEF ServedInv, Joined, Closes
  <2>7. outcome' \in ReadOutcomes \ {"none"}
    BY <2>2 DEF ReadOutcomes
  <2>8. QED BY <1>1, <1>3, <1>4, <2>2, <2>6, <2>7, BodyStep
<1>14. CASE next = "size"
  <2>1. reading.state = "ending" /\ q.kind = "crlf"
    BY <1>1, <1>y, <1>14
  <2>2. outcome' = outcome /\ reading' = [state |-> "size", want |-> 0]
    BY <1>10, <1>14
  <2>3. InChunk(b, bodyRead, 0, p)
    BY <1>1, <1>2, <1>5, <2>1 DEF BodyInv
  <2>4. PICK i \in 1..Len(b), old \in Seq(Pieces) :
            /\ b[i].kind = "chunk" /\ b[i].n > 0 /\ AtChunk(b, old, i)
            /\ p = i + b[i].n - 0 /\ bodyRead = old \o SubSeq(b, i + 1, p)
    BY <2>3 DEF InChunk
  <2>5. PICK size \in Nat : size = b[i].n
    <3>1. b[i] \in Pieces
      OBVIOUS
    <3>2. QED BY <3>1 DEF Pieces
  <2>6. p = i + size /\ i + size + 1 = p + 1 /\ i + size + 2 = p + 2
    BY <2>4, <2>5
  <2>7. AtChunk(b, old \o SubSeq(b, i + 1, i + b[i].n), i + b[i].n + 2)
    <3>1. i + b[i].n + 1 <= Len(b) /\ b[i + b[i].n + 1].kind = "crlf"
      BY <1>6, <1>7, <2>1, <2>5, <2>6
    <3>2. QED BY <2>4, <3>1, ChunkLeft
  <2>8. AtChunk(b, bodyRead, p + 1 + 1)
    <3>1. p + 1 + 1 = i + b[i].n + 2 /\ p = i + b[i].n
      BY <2>5, <2>6
    <3>2. QED BY <2>4, <2>7, <3>1
  <2>9. MoreBody' /\ reading'.state = "size"
    BY <2>2 DEF MoreBody
  <2>10. BodyInv'
    <3>1. AtChunk(TheBody', bodyRead', Behind' - HeadLen' + 1) /\ framing'.chunked
      BY <1>1, <1>8, <1>9, <2>8
    <3>2. QED BY <1>8, <2>9, <3>1 DEF BodyInv, AtChunk, JoinOf, Closes
  <2>11. QED BY <1>1, <1>3, <1>4, <2>2, <2>9, <2>10, BodyStep
<1>15. CASE next = "data"
  <2>1. reading.state = "size" /\ q.kind = "chunk" /\ q.n # 0
    BY <1>1, <1>y, <1>15
  <2>2. outcome' = outcome /\ reading' = [state |-> "data", want |-> q.n]
    BY <1>10, <1>15
  <2>3. AtChunk(b, bodyRead, p + 1)
    BY <1>1, <1>2, <1>5, <2>1 DEF BodyInv
  <2>4. InChunk(b, bodyRead, q.n, p + 1)
    <3>1. b[p + 1].kind = "chunk" /\ b[p + 1].n > 0 /\ q.n <= b[p + 1].n /\ p + 1 = (p + 1) + b[p + 1].n - q.n
      <4>1. PICK m \in Nat : m = q.n /\ m = b[p + 1].n /\ m # 0
        BY <1>6, <1>7, <2>1
      <4>2. m > 0 /\ m <= m /\ p + 1 = (p + 1) + m - m
        BY <4>1
      <4>3. QED BY <1>6, <2>1, <4>1, <4>2
    <3>2. bodyRead \o SubSeq(b, (p + 1) + 1, p + 1) = bodyRead
      <4>1. SubSeq(b, (p + 1) + 1, p + 1) = <<>>
        BY SubSeqEmpty
      <4>2. bodyRead \o <<>> = bodyRead
        BY <1>3, ConcatEmptySeq
      <4>3. QED BY <4>1, <4>2
    <3>3. QED BY <1>3, <1>7, <2>3, <3>1, <3>2 DEF InChunk
  <2>5. MoreBody' /\ reading'.state = "data" /\ reading'.want = q.n /\ q.n > 0 /\ q.n \in Nat
    <3>1. q.n \in Nat /\ q.n > 0
      BY <1>6, <1>7, <2>1
    <3>2. QED BY <2>2, <3>1 DEF MoreBody
  <2>6. BodyInv'
    <3>1. InChunk(TheBody', bodyRead', reading'.want, Behind' - HeadLen') /\ framing'.chunked
      BY <1>1, <1>8, <1>9, <2>4, <2>5
    <3>2. QED BY <1>8, <2>5, <3>1 DEF BodyInv, InChunk, AtChunk, JoinOf, Closes
  <2>7. QED BY <1>1, <1>3, <1>4, <2>2, <2>5, <2>6, BodyStep
<1>16. CASE next = "trailer"
  <2>1. \/ reading.state = "size" /\ q.kind = "chunk" /\ q.n = 0
        \/ reading.state = "trailer" /\ q.kind = "other"
    BY <1>1, <1>y, <1>16
  <2>2. outcome' = outcome /\ reading' = [state |-> "trailer", want |-> 0]
    BY <1>10, <1>16
  <2>3. InTrailer(b, bodyRead, p + 1)
    <3>1. CASE reading.state = "size" /\ q.kind = "chunk" /\ q.n = 0
      <4>1. AtChunk(b, bodyRead, p + 1)
        BY <1>1, <1>2, <1>5, <3>1 DEF BodyInv
      <4>2. p + 1 >= p + 1 /\ \A k \in (p + 1 + 1)..(p + 1) : FALSE
        OBVIOUS
      <4>3. QED BY <1>6, <1>7, <3>1, <4>1, <4>2 DEF InTrailer
    <3>2. CASE reading.state = "trailer" /\ q.kind = "other"
      <4>1. PICK i \in 1..Len(b) :
               /\ b[i].kind = "chunk" /\ b[i].n = 0 /\ AtChunk(b, bodyRead, i)
               /\ p >= i /\ \A k \in (i + 1)..p : b[k].kind = "other"
        BY <1>1, <1>2, <1>5, <3>2 DEF BodyInv, InTrailer
      <4>2. p + 1 >= i /\ \A k \in (i + 1)..(p + 1) : b[k].kind = "other"
        <5>1. \A k \in (i + 1)..(p + 1) : k \in (i + 1)..p \/ k = p + 1
          OBVIOUS
        <5>2. QED BY <1>6, <3>2, <4>1, <5>1
      <4>3. QED BY <4>1, <4>2 DEF InTrailer
    <3>3. QED BY <2>1, <3>1, <3>2
  <2>4. MoreBody' /\ reading'.state = "trailer"
    BY <2>2 DEF MoreBody
  <2>5. BodyInv'
    <3>1. InTrailer(TheBody', bodyRead', Behind' - HeadLen') /\ framing'.chunked
      BY <1>1, <1>8, <1>9, <2>3
    <3>2. QED BY <1>8, <2>4, <3>1 DEF BodyInv, InTrailer, AtChunk, JoinOf, Closes
  <2>6. QED BY <1>1, <1>3, <1>4, <2>2, <2>4, <2>5, BodyStep
<1>17. QED BY <1>11, <1>12, <1>13, <1>14, <1>15, <1>16

\* Where a blank is found, if there is one.
LEMMA BlankFound ==
    ASSUME NEW s \in Seq(Pieces)
    PROVE  /\ Blanks(s) = {} => BlankAt(s) = 0
           /\ Blanks(s) # {} => BlankAt(s) \in Blanks(s) /\ \A k \in Blanks(s) : BlankAt(s) <= k
<1>1. CASE Blanks(s) = {}
  BY <1>1 DEF BlankAt
<1>2. CASE Blanks(s) # {}
  <2>1. Blanks(s) \subseteq Nat
    BY DEF Blanks
  <2>2. \E m \in Blanks(s) : \A k \in Blanks(s) : m <= k
    BY <1>2, <2>1, LeastOf
  <2>3. BlankAt(s) = CHOOSE m \in Blanks(s) : \A k \in Blanks(s) : m <= k
    BY <1>2 DEF BlankAt, Min
  <2>4. QED BY <1>2, <2>2, <2>3
<1>3. QED BY <1>1, <1>2

\* What has been read of a request ends its head where the request does, or not yet.
LEMMA HeadFound ==
    ASSUME NEW h \in Seq(Pieces), EndsInBlank(h), NEW w \in Seq(Pieces), Len(h) <= Len(w),
           \A i \in 1..Len(h) : w[i] = h[i],
           NEW g \in Seq(Pieces), Len(g) <= Len(w), \A i \in 1..Len(g) : g[i] = w[i]
    PROVE  \/ BlankAt(g) = 0 /\ Blanks(g) = {}
           \/ BlankAt(g) = Len(h) /\ Len(h) <= Len(g) /\ g[1] = h[1]
              /\ SubSeq(g, 2, Len(h) - 1) = SubSeq(h, 2, Len(h) - 1)
<1>0. Len(h) \in Nat /\ Len(g) \in Nat /\ Len(h) > 0
  <2>1. Len(h) \in Nat /\ Len(g) \in Nat
    OBVIOUS
  <2>2. Len(h) # 0
    BY DEF EndsInBlank
  <2>3. QED BY <2>1, <2>2
<1>1. \A i \in 1..Len(h) : h[i].kind = "blank" <=> i = Len(h)
  BY DEF EndsInBlank
<1>2. CASE Blanks(g) = {}
  BY <1>2, BlankFound
<1>3. CASE Blanks(g) # {}
  <2>1. PICK m : m = BlankAt(g) /\ m \in Blanks(g) /\ \A k \in Blanks(g) : m <= k
    BY <1>3, BlankFound
  <2>2. m \in 1..Len(g) /\ g[m].kind = "blank"
    BY <2>1 DEF Blanks
  <2>3. Len(h) <= Len(g)
    <3>1. ASSUME Len(g) < Len(h) PROVE FALSE
      <4>1. m \in 1..Len(h) /\ g[m] = h[m] /\ m # Len(h)
        BY <1>0, <2>2, <3>1
      <4>2. QED BY <1>1, <2>2, <4>1
    <3>2. QED BY <1>0, <3>1
  <2>4. m = Len(h)
    <3>1. Len(h) \in 1..Len(g) /\ g[Len(h)] = h[Len(h)] /\ h[Len(h)].kind = "blank"
      BY <1>0, <1>1, <2>3
    <3>2. Len(h) \in Blanks(g)
      BY <3>1 DEF Blanks
    <3>3. m <= Len(h) /\ m \in 1..Len(h)
      BY <1>0, <2>1, <2>2, <3>2
    <3>4. h[m].kind = "blank"
      BY <2>2, <3>3
    <3>5. QED BY <1>1, <3>3, <3>4
  <2>5. g[1] = h[1]
    BY <1>0, <2>3
  <2>6. SubSeq(g, 2, Len(h) - 1) = SubSeq(h, 2, Len(h) - 1)
    <3>1. CASE Len(h) = 1
      <4>1. SubSeq(g, 2, 0) = <<>> /\ SubSeq(h, 2, 0) = <<>>
        BY SubSeqEmpty
      <4>2. QED BY <3>1, <4>1
    <3>2. CASE Len(h) # 1
      <4>1. PICK e \in Nat : e = Len(h) - 1 /\ 1 <= e /\ e <= Len(h) /\ e <= Len(g)
        <5>1. PICK x \in Nat, y \in Nat : x = Len(h) /\ y = Len(g)
          BY <1>0
        <5>2. x > 1 /\ x <= y
          BY <1>0, <2>3, <3>2, <5>1
        <5>3. x - 1 \in Nat /\ 1 <= x - 1 /\ x - 1 <= x /\ x - 1 <= y
          BY <5>2
        <5>4. QED BY <5>1, <5>3
      <4>2. /\ SubSeq(h, 1 + 1, e) \in Seq(Pieces) /\ Len(SubSeq(h, 1 + 1, e)) = e - 1
            /\ \A k \in 1..(e - 1) : SubSeq(h, 1 + 1, e)[k] = h[1 + k]
        BY <4>1, PartOf
      <4>3. /\ SubSeq(g, 1 + 1, e) \in Seq(Pieces) /\ Len(SubSeq(g, 1 + 1, e)) = e - 1
            /\ \A k \in 1..(e - 1) : SubSeq(g, 1 + 1, e)[k] = g[1 + k]
        BY <4>1, PartOf
      <4>4. \A k \in 1..(e - 1) : g[1 + k] = h[1 + k]
        <5>1. TAKE k \in 1..(e - 1)
        <5>2. 1 + k \in 1..Len(h) /\ 1 + k \in 1..Len(g)
          BY <1>0, <4>1
        <5>3. QED BY <5>2
      <4>5. PICK a, c : a = SubSeq(g, 1 + 1, e) /\ c = SubSeq(h, 1 + 1, e)
        OBVIOUS
      <4>6. a = c
        <5>1. a \in Seq(Pieces) /\ c \in Seq(Pieces) /\ Len(a) = Len(c) /\ \A k \in 1..Len(a) : a[k] = c[k]
          BY <4>2, <4>3, <4>4, <4>5
        <5>2. QED BY <5>1, SeqEqual
      <4>7. 1 + 1 = 2
        OBVIOUS
      <4>8. QED BY <4>1, <4>5, <4>6, <4>7
    <3>3. QED BY <3>1, <3>2
  <2>7. QED BY <2>1, <2>3, <2>4, <2>5, <2>6
<1>4. QED BY <1>2, <1>3

\* The framing is one.
LEMMA FramingTyped == ASSUME NEW lines \in Seq(Pieces) PROVE request_framing(lines) \in Texts
<1>1. Framing(lines) \in Texts
  BY FramingSays DEF HeadSaid
<1>2. PICK f \in Texts : f = Framing(lines)
  BY <1>1
<1>3. [f EXCEPT !.error = "invalid"] \in Texts
  BY DEF Texts
<1>4. request_framing(lines) \in {f, [f EXCEPT !.error = "invalid"]}
  BY <1>2, Zenon DEF request_framing
<1>5. QED BY <1>3, <1>4

\* The head, whole or not, and what follows from it.
LEMMA ReadHeadKeeps == ASSUME ReadInv, ReadHead PROVE ReadInv'
<1>1. /\ reading.state = "head" /\ sock # <<>> /\ client' = client /\ bodyRead' = bodyRead /\ drained' = drained
  BY DEF ReadHead
<1>2. PICK k \in 1..Len(sock) :
          LET got == inbuf \o SubSeq(sock, 1, k)
              at == BlankAt(got)
              f == request_framing(SubSeq(got, 2, at - 1))
          IN  /\ Len(got) <= BufferCap
              /\ sock' = SubSeq(sock, k + 1, Len(sock))
              /\ IF at = 0
                   THEN /\ inbuf' = got /\ UNCHANGED <<framing, interim>>
                        /\ IF Len(got) = BufferCap THEN EndsWith("too large")
                           ELSE UNCHANGED <<reading, outcome>>
                 ELSE /\ framing' = f
                      /\ inbuf' = SubSeq(got, at + 1, Len(got))
                      /\ interim' = (f.error = "none" /\ got[1].kind = "start"
                                       /\ f.expect /\ (f.chunked \/ f.length > 0))
                      /\ IF got[1].kind # "start" THEN EndsWith("invalid")
                         ELSE IF f.error # "none" THEN EndsWith(f.error)
                         ELSE IF f.chunked THEN Goto("size", 0) /\ UNCHANGED outcome
                         ELSE IF f.length > 0 THEN Goto("body", f.length) /\ UNCHANGED outcome
                         ELSE EndsWith("ok")
  BY DEF ReadHead
<1>3. PICK got : got = inbuf \o SubSeq(sock, 1, k)
  OBVIOUS
<1>4. PICK at : at = BlankAt(got)
  OBVIOUS
<1>5. PICK f : f = request_framing(SubSeq(got, 2, at - 1))
  OBVIOUS
<1>6. /\ sock' = SubSeq(sock, k + 1, Len(sock))
      /\ at = 0 =>
           /\ inbuf' = got /\ framing' = framing /\ interim' = interim
           /\ IF Len(got) = BufferCap THEN EndsWith("too large") ELSE reading' = reading /\ outcome' = outcome
      /\ at # 0 =>
           /\ framing' = f /\ inbuf' = SubSeq(got, at + 1, Len(got))
           /\ interim' = (f.error = "none" /\ got[1].kind = "start" /\ f.expect /\ (f.chunked \/ f.length > 0))
           /\ IF got[1].kind # "start" THEN EndsWith("invalid")
              ELSE IF f.error # "none" THEN EndsWith(f.error)
              ELSE IF f.chunked THEN Goto("size", 0) /\ outcome' = outcome
              ELSE IF f.length > 0 THEN Goto("body", f.length) /\ outcome' = outcome
              ELSE EndsWith("ok")
  BY <1>2, <1>3, <1>4, <1>5
<1>7. ReadTyped /\ StillReading /\ WayInv /\ HeadInv /\ OutcomeInv /\ outcome = "none"
  BY <1>1 DEF ReadInv, StillReading, ReadStates, OutcomeInv
<1>8. Behind = 0 /\ framing = NoFraming /\ bodyRead = <<>> /\ NextOf(TheWhole, 0, inbuf, sock)
  BY <1>1, <1>7 DEF HeadInv, WayInv
<1>9. /\ sock \in Seq(Pieces) /\ inbuf \in Seq(Pieces) /\ Len(sock) \in Nat /\ Len(inbuf) \in Nat
  BY <1>7 DEF ReadTyped
<1>10. /\ client.told \in Nat /\ HeadLen \in Nat /\ HeadLen > 0 /\ TheWhole \in Seq(Pieces)
       /\ Len(TheWhole) = HeadLen + Len(TheBody) /\ Len(TheBody) \in Nat
       /\ TheHead \in Seq(Pieces) /\ TheBody \in Seq(Pieces) /\ EndsInBlank(TheHead)
       /\ \A i \in 1..HeadLen : TheWhole[i] = TheHead[i]
       /\ client.told <= Len(TheWhole) /\ HeadLen = Len(TheHead)
  BY <1>7, RequestShape DEF ReadTyped, HeadLen
<1>11. /\ NextOf(TheWhole, 0, got, sock') /\ got \in Seq(Pieces) /\ Len(got) = Len(inbuf) + k
       /\ sock' \in Seq(Pieces) /\ Len(sock') = Len(sock) - k
  <2>1. PICK w, u, s : w = TheWhole /\ u = inbuf /\ s = sock
    OBVIOUS
  <2>2. u \in Seq(Pieces) /\ s \in Seq(Pieces) /\ NextOf(w, 0, u, s) /\ k \in 1..Len(s) /\ 0 \in Nat
    BY <1>8, <1>9, <2>1
  <2>3. /\ NextOf(w, 0, u \o SubSeq(s, 1, k), SubSeq(s, k + 1, Len(s)))
        /\ u \o SubSeq(s, 1, k) \in Seq(Pieces) /\ Len(u \o SubSeq(s, 1, k)) = Len(u) + k
        /\ SubSeq(s, k + 1, Len(s)) \in Seq(Pieces) /\ Len(SubSeq(s, k + 1, Len(s))) = Len(s) - k
    BY <2>2, SomeMoved
  <2>4. got = u \o SubSeq(s, 1, k) /\ sock' = SubSeq(s, k + 1, Len(s))
        /\ w = TheWhole /\ Len(u) = Len(inbuf) /\ Len(s) = Len(sock)
    BY <1>3, <1>6, <2>1
  <2>5. QED BY <2>3, <2>4, Zenon
<1>12. /\ client.told = Len(inbuf) + Len(sock) /\ client.told = Len(got) + Len(sock')
       /\ Len(got) <= Len(TheWhole) /\ Len(got) \in Nat /\ Len(sock') \in Nat
  <2>1. 0 = client.told - Len(sock) - Len(inbuf)
    BY <1>8 DEF Behind
  <2>2. PICK t \in Nat, i \in Nat, s \in Nat, w \in Nat :
           t = client.told /\ i = Len(inbuf) /\ s = Len(sock) /\ w = Len(TheWhole)
    <3>1. Len(TheWhole) \in Nat
      BY <1>10
    <3>2. QED BY <1>9, <1>10, <3>1
  <2>3. Len(got) = i + k /\ Len(sock') = s - k /\ k \in 1..s /\ t = i + s /\ t <= w
    <3>1. t = i + s
      BY <2>1, <2>2
    <3>2. QED BY <1>10, <1>11, <2>2, <3>1
  <2>4. t = (i + k) + (s - k) /\ i + k <= w /\ i + k \in Nat /\ s - k \in Nat
    BY <2>3
  <2>5. QED BY <2>2, <2>3, <2>4
<1>13. \A i \in 1..Len(got) : got[i] = TheWhole[i]
  BY <1>11, <1>12 DEF NextOf
<1>14. \/ at = 0 /\ Blanks(got) = {}
       \/ /\ at = HeadLen /\ HeadLen <= Len(got) /\ got[1] = TheHead[1]
          /\ SubSeq(got, 2, HeadLen - 1) = SubSeq(TheHead, 2, HeadLen - 1)
  <2>1. PICK h \in Seq(Pieces), w \in Seq(Pieces) : h = TheHead /\ w = TheWhole
    BY <1>10
  <2>2. /\ EndsInBlank(h) /\ Len(h) <= Len(w) /\ \A i \in 1..Len(h) : w[i] = h[i]
    BY <1>10, <2>1
  <2>3. Len(got) <= Len(w) /\ \A i \in 1..Len(got) : got[i] = w[i]
    BY <1>12, <1>13, <2>1
  <2>4. \/ BlankAt(got) = 0 /\ Blanks(got) = {}
        \/ BlankAt(got) = Len(h) /\ Len(h) <= Len(got) /\ got[1] = h[1]
           /\ SubSeq(got, 2, Len(h) - 1) = SubSeq(h, 2, Len(h) - 1)
    BY <1>11, <2>2, <2>3, HeadFound
  <2>5. QED BY <1>4, <1>10, <2>1, <2>4
<1>15. TheWhole' = TheWhole /\ HeadLen' = HeadLen /\ TheBody' = TheBody /\ TheHead' = TheHead
  BY <1>1 DEF TheWhole, HeadLen, TheBody, TheHead
<1>16. CASE at = 0
  <2>1. Blanks(got) = {} /\ inbuf' = got /\ framing' = framing /\ interim' = interim
    <3>1. at # HeadLen
      BY <1>10, <1>16
    <3>2. QED BY <1>6, <1>14, <1>16, <3>1, Zenon
  <2>2. Behind' = 0
    <3>1. Behind' = client.told - Len(sock') - Len(got)
      BY <1>1, <2>1 DEF Behind
    <3>2. QED BY <1>10, <1>12, <3>1
  <2>3. CASE Len(got) = BufferCap
    <3>1. outcome' = "too large" /\ reading' = [state |-> "over", want |-> 0]
      BY <1>6, <1>16, <2>3 DEF EndsWith, Goto
    <3>2. WayInv' /\ HeadInv' /\ BodyInv' /\ FramedInv' /\ ServedInv' /\ HeldBodyIsAskedFor'
      BY <3>1, IsOver
    <3>3. ReadTyped'
      BY <1>1, <1>7, <1>11, <1>15, <2>1, <3>1 DEF ReadTyped, ReadOutcomes
    <3>4. OutcomeInv' /\ RefusalIsHeard'
      BY <3>1 DEF OutcomeInv, RefusalIsHeard, StillReading, ReadStates
    <3>5. QED BY <3>2, <3>3, <3>4 DEF ReadInv
  <2>4. CASE Len(got) # BufferCap
    <3>1. reading' = reading /\ outcome' = outcome
      BY <1>6, <1>16, <2>4
    <3>2. ReadTyped'
      BY <1>1, <1>7, <1>11, <1>15, <2>1, <3>1 DEF ReadTyped
    <3>3. WayInv'
      <4>1. Behind' \in Nat /\ NextOf(TheWhole', Behind', inbuf', sock')
        BY <1>11, <1>15, <2>1, <2>2
      <4>2. QED BY <4>1 DEF WayInv, NextOf
    <3>4. HeadInv'
      <4>1. Blanks(inbuf') = {}
        BY <2>1
      <4>2. QED BY <1>1, <1>8, <2>1, <2>2, <4>1 DEF HeadInv, Blanks
    <3>5. OutcomeInv' /\ FramedInv' /\ BodyInv' /\ ServedInv' /\ HeldBodyIsAskedFor' /\ RefusalIsHeard'
      <4>1. ~MoreBody' /\ outcome' = "none" /\ reading'.state = "head"
        BY <1>1, <1>7, <3>1 DEF MoreBody
      <4>2. QED BY <4>1 DEF OutcomeInv, FramedInv, BodyInv, ServedInv, HeldBodyIsAskedFor, RefusalIsHeard
    <3>6. QED BY <3>2, <3>3, <3>4, <3>5 DEF ReadInv
  <2>5. QED BY <2>3, <2>4
<1>17. CASE at # 0
  <2>1. /\ at = HeadLen /\ HeadLen <= Len(got) /\ got[1] = TheHead[1]
        /\ SubSeq(got, 2, HeadLen - 1) = SubSeq(TheHead, 2, HeadLen - 1)
    BY <1>14, <1>17
  <2>2. framing' = f /\ inbuf' = SubSeq(got, HeadLen + 1, Len(got)) /\ f = request_framing(Lines(client.says))
    <3>1. Lines(client.says) = SubSeq(TheHead, 2, HeadLen - 1)
      BY DEF Lines, TheHead, HeadLen
    <3>2. QED BY <1>5, <1>6, <1>17, <2>1, <3>1
  <2>3. f \in Texts
    <3>1. SubSeq(TheHead, 2, HeadLen - 1) \in Seq(Pieces)
      <4>1. \A i \in 2..(HeadLen - 1) : TheHead[i] \in Pieces
        <5>1. TAKE i \in 2..(HeadLen - 1)
        <5>2. i \in 1..HeadLen
          BY <1>10
        <5>3. QED BY <1>10, <5>2
      <4>2. 2 \in Int /\ HeadLen - 1 \in Int
        BY <1>10
      <4>3. QED BY <4>1, <4>2, SubSeqProperties
    <3>2. QED BY <1>5, <2>1, <3>1, FramingTyped
  <2>4. inbuf' \in Seq(Pieces) /\ Len(inbuf') = Len(got) - HeadLen
    <3>1. PICK m \in Nat, n \in Nat : m = HeadLen /\ n = Len(got) /\ m <= n
      <4>1. HeadLen \in Nat /\ Len(got) \in Nat /\ HeadLen <= Len(got)
        BY <1>10, <1>12, <2>1
      <4>2. QED BY <4>1, Zenon
    <3>2. PICK g \in Seq(Pieces) : g = got
      BY <1>11
    <3>3. m <= n /\ n <= Len(g)
      BY <3>1, <3>2
    <3>4. SubSeq(g, m + 1, n) \in Seq(Pieces) /\ Len(SubSeq(g, m + 1, n)) = n - m
      BY <3>3, PartOf
    <3>5. inbuf' = SubSeq(g, m + 1, n)
      BY <2>2, <3>1, <3>2
    <3>6. QED BY <3>1, <3>4, <3>5, Zenon
  <2>5. Behind' = HeadLen
    <3>1. Behind' = client.told - Len(sock') - (Len(got) - HeadLen)
      BY <1>1, <2>4 DEF Behind
    <3>2. QED BY <1>10, <1>12, <3>1
  <2>6. WayInv'
    <3>1. PICK w, v, s : w = TheWhole /\ v = inbuf' /\ s = sock'
      OBVIOUS
    <3>2. NextOf(w, HeadLen, v, s)
      <4>1. got \in Seq(Pieces) /\ s \in Seq(Pieces) /\ NextOf(w, 0, got, s) /\ HeadLen \in Nat /\ HeadLen <= Len(got)
            /\ HeadLen = 0 + HeadLen /\ v = SubSeq(got, HeadLen + 1, Len(got)) /\ 0 \in Nat
        BY <1>10, <1>11, <2>1, <2>2, <3>1
      <4>2. PICK m : m = HeadLen
        OBVIOUS
      <4>3. m \in Nat /\ m <= Len(got) /\ m = 0 + m /\ v = SubSeq(got, m + 1, Len(got))
        BY <4>1, <4>2
      <4>4. NextOf(w, m, v, s)
        BY <4>1, <4>3, SomeTaken, Zenon
      <4>5. QED BY <4>2, <4>4
    <3>3. Behind' \in Nat /\ NextOf(TheWhole', Behind', inbuf', sock')
      BY <1>10, <1>15, <2>5, <3>1, <3>2
    <3>4. QED BY <3>3 DEF WayInv, NextOf
  <2>7. /\ got[1].kind # "start" => EndsWith("invalid")
        /\ got[1].kind = "start" /\ f.error # "none" => EndsWith(f.error)
        /\ got[1].kind = "start" /\ f.error = "none" /\ f.chunked => Goto("size", 0) /\ outcome' = outcome
        /\ got[1].kind = "start" /\ f.error = "none" /\ ~f.chunked /\ f.length > 0 =>
              Goto("body", f.length) /\ outcome' = outcome
        /\ got[1].kind = "start" /\ f.error = "none" /\ ~f.chunked /\ ~(f.length > 0) => EndsWith("ok")
        /\ interim' = (f.error = "none" /\ got[1].kind = "start" /\ f.expect /\ (f.chunked \/ f.length > 0))
    BY <1>6, <1>17, Zenon
  <2>8. ASSUME NEW how \in ReadOutcomes \ {"none"}, EndsWith(how),
               how = "ok" => /\ got[1].kind = "start" /\ f.error = "none" /\ ~f.chunked /\ ~(f.length > 0)
        PROVE  ReadInv'
    <3>1. outcome' = how /\ reading' = [state |-> "over", want |-> 0]
      BY <2>8 DEF EndsWith, Goto
    <3>2. WayInv' /\ HeadInv' /\ BodyInv' /\ HeldBodyIsAskedFor' /\ (outcome' # "ok" => FramedInv' /\ ServedInv')
      BY <3>1, IsOver
    <3>3. ReadTyped'
      BY <1>1, <1>7, <1>11, <1>15, <2>2, <2>3, <2>4, <3>1 DEF ReadTyped
    <3>4. OutcomeInv' /\ RefusalIsHeard'
      BY <3>1 DEF OutcomeInv, RefusalIsHeard, StillReading, ReadStates
    <3>5. ASSUME outcome' = "ok" PROVE FramedInv' /\ ServedInv'
      <4>1. got[1].kind = "start" /\ f.error = "none" /\ ~f.chunked /\ ~(f.length > 0)
        BY <2>8, <3>1, <3>5
      <4>2. framing' = request_framing(Lines(client'.says)) /\ framing'.error = "none" /\ TheHead'[1].kind = "start"
        BY <1>1, <1>15, <2>1, <2>2, <4>1
      <4>3. bodyRead' = SubSeq(TheBody', 1, 0)
        <5>1. SubSeq(TheBody, 1, 0) = <<>>
          BY SubSeqEmpty
        <5>2. QED BY <1>1, <1>8, <1>15, <5>1
      <4>4. QED BY <2>2, <4>1, <4>2, <4>3 DEF FramedInv, ServedInv
    <3>6. QED BY <3>2, <3>3, <3>4, <3>5 DEF ReadInv
  <2>9. ASSUME NEW state \in {"size", "body"}, NEW want \in Nat, Goto(state, want), outcome' = outcome,
               got[1].kind = "start", f.error = "none",
               state = "size" => f.chunked, state = "body" => ~f.chunked /\ f.length > 0 /\ want = f.length
        PROVE  ReadInv'
    <3>1. reading' = [state |-> state, want |-> want] /\ outcome' = "none" /\ MoreBody'
      BY <1>7, <2>9 DEF Goto, MoreBody
    <3>2. ReadTyped'
      BY <1>1, <1>7, <1>11, <1>15, <2>2, <2>3, <2>4, <2>9, <3>1 DEF ReadTyped, ReadStates
    <3>3. OutcomeInv' /\ RefusalIsHeard' /\ HeadInv' /\ ServedInv'
      BY <3>1 DEF OutcomeInv, RefusalIsHeard, HeadInv, ServedInv
    <3>4. FramedInv'
      <4>1. framing' = request_framing(Lines(client'.says)) /\ framing'.error = "none" /\ TheHead'[1].kind = "start"
        BY <1>1, <1>15, <2>1, <2>2, <2>9
      <4>2. QED BY <4>1 DEF FramedInv
    <3>5. HeldBodyIsAskedFor'
      <4>1. f.expect => interim'
        BY <2>7, <2>9
      <4>2. QED BY <2>2, <4>1 DEF HeldBodyIsAskedFor
    <3>6. BodyInv'
      <4>1. Behind' - HeadLen' = 0 /\ Behind' >= HeadLen' /\ Behind' - HeadLen' + 1 = 1
        BY <1>10, <1>15, <2>5
      <4>2. CASE state = "size"
        <5>1. AtChunk(TheBody', bodyRead', 1)
          BY <1>1, <1>8, <1>10, <1>15, ChunksBegin
        <5>2. AtChunk(TheBody', bodyRead', Behind' - HeadLen' + 1)
          BY <4>1, <5>1
        <5>3. framing'.chunked /\ reading'.state = "size"
          BY <2>2, <2>9, <3>1, <4>2
        <5>4. QED BY <4>1, <5>2, <5>3 DEF BodyInv, AtChunk, JoinOf, Closes
      <4>3. CASE state = "body"
        <5>1. reading'.state = "body" /\ reading'.want = want /\ want > 0 /\ ~framing'.chunked /\ framing'.length = want
          BY <2>2, <2>9, <3>1, <4>3
        <5>2. bodyRead' = SubSeq(TheBody', 1, 0)
          <6>1. SubSeq(TheBody, 1, 0) = <<>>
            BY SubSeqEmpty
          <6>2. QED BY <1>1, <1>8, <1>15, <6>1
        <5>3. framing'.length = Behind' - HeadLen' + reading'.want
          BY <4>1, <5>1
        <5>4. QED BY <4>1, <5>1, <5>2, <5>3 DEF BodyInv
      <4>4. QED BY <2>9, <4>2, <4>3
    <3>7. QED BY <2>6, <3>2, <3>3, <3>4, <3>5, <3>6 DEF ReadInv
  <2>10. f.error \in {"none", "invalid", "too large"} /\ f.length \in Nat \cup {-1}
    BY <2>3 DEF Texts
  <2>11. CASE got[1].kind # "start"
    BY <2>7, <2>8, <2>11 DEF ReadOutcomes
  <2>12. CASE got[1].kind = "start" /\ f.error # "none"
    <3>1. f.error \in ReadOutcomes \ {"none"} /\ f.error # "ok" /\ EndsWith(f.error)
      BY <2>7, <2>10, <2>12 DEF ReadOutcomes
    <3>2. QED BY <2>8, <3>1
  <2>13. CASE got[1].kind = "start" /\ f.error = "none" /\ f.chunked
    BY <2>7, <2>9, <2>13
  <2>14. CASE got[1].kind = "start" /\ f.error = "none" /\ ~f.chunked /\ f.length > 0
    <3>1. f.length \in Nat
      BY <2>10, <2>14
    <3>2. QED BY <2>7, <2>9, <2>14, <3>1
  <2>15. CASE got[1].kind = "start" /\ f.error = "none" /\ ~f.chunked /\ ~(f.length > 0)
    BY <2>7, <2>8, <2>15 DEF ReadOutcomes
  <2>16. QED BY <2>11, <2>12, <2>13, <2>14, <2>15
<1>18. QED BY <1>16, <1>17

\* A refusal leaves what the reader knows of the request.
LEMMA RefusedKeeps ==
    ASSUME ReadInv, outcome' # "ok", outcome' \in ReadOutcomes, client' = client, inbuf' = inbuf, framing' = framing,
           bodyRead' = bodyRead, sock' \in Seq(Pieces), RefusalIsHeard',
           NEW state \in {"over", "drain", "closed"}, reading' = [state |-> state, want |-> 0]
    PROVE  ReadInv'
<1>1. ReadTyped
  BY DEF ReadInv
<1>2. TheWhole' = TheWhole
  BY DEF TheWhole
<1>3. ReadTyped'
  BY <1>1, <1>2 DEF ReadTyped
<1>4. WayInv' /\ HeadInv' /\ BodyInv' /\ FramedInv' /\ ServedInv' /\ HeldBodyIsAskedFor'
  BY IsOver
<1>5. OutcomeInv'
  BY DEF OutcomeInv, StillReading, ReadStates
<1>6. QED BY <1>3, <1>4, <1>5 DEF ReadInv

\* The stream has ended.
LEMMA NothingComesKeeps == ASSUME ReadInv, NothingComes PROVE ReadInv'
<1>1. PICK how \in {"reset", "stalled"} : EndsWith(how)
  BY DEF NothingComes
<1>2. outcome' = how /\ reading' = [state |-> "over", want |-> 0]
  BY <1>1 DEF EndsWith, Goto
<1>3. sock \in Seq(Pieces)
  BY DEF ReadInv, ReadTyped
<1>4. RefusalIsHeard'
  BY <1>2 DEF RefusalIsHeard
<1>5. outcome' \in ReadOutcomes /\ outcome' # "ok"
  BY <1>2 DEF ReadOutcomes
<1>6. /\ client' = client /\ inbuf' = inbuf /\ framing' = framing /\ bodyRead' = bodyRead /\ sock' \in Seq(Pieces)
  BY <1>3 DEF NothingComes
<1>7. QED BY <1>2, <1>4, <1>5, <1>6, RefusedKeeps

\* The refusal is answered, drained, closed.
LEMMA RefuseKeeps == ASSUME ReadInv, Refuse \/ Drain \/ CloseRefused PROVE ReadInv'
<1>1. ReadTyped /\ OutcomeInv /\ RefusalIsHeard
  BY DEF ReadInv
<1>2. outcome \in ReadOutcomes /\ sock \in Seq(Pieces)
  BY <1>1 DEF ReadTyped
<1>3. CASE Refuse
  <2>1. /\ outcome # "ok" /\ reading' = [state |-> "drain", want |-> 0] /\ client' = client /\ inbuf' = inbuf
        /\ framing' = framing /\ bodyRead' = bodyRead /\ sock' = sock /\ outcome' = outcome
    BY <1>3 DEF Refuse, Goto
  <2>2. RefusalIsHeard'
    BY <2>1 DEF RefusalIsHeard
  <2>3. QED BY <1>2, <2>1, <2>2, RefusedKeeps
<1>4. CASE CloseRefused
  <2>1. /\ reading.state = "drain" /\ reading' = [state |-> "closed", want |-> 0] /\ client' = client /\ inbuf' = inbuf
        /\ framing' = framing /\ bodyRead' = bodyRead /\ sock' = sock /\ outcome' = outcome /\ drained' = drained
        /\ (sock = <<>> \/ drained = DrainCap)
    BY <1>4 DEF CloseRefused, Goto
  <2>2. DrainCap \in Nat
    BY HttpReadAssumption
  <2>3. RefusalIsHeard'
    BY <2>1, <2>2 DEF RefusalIsHeard
  <2>4. outcome # "ok"
    BY <1>1, <2>1 DEF OutcomeInv
  <2>5. QED BY <1>2, <2>1, <2>3, <2>4, RefusedKeeps
<1>5. CASE Drain
  <2>1. /\ reading.state = "drain" /\ reading' = reading /\ client' = client /\ inbuf' = inbuf /\ sock # <<>>
        /\ framing' = framing /\ bodyRead' = bodyRead /\ sock' = Tail(sock) /\ outcome' = outcome
    BY <1>5 DEF Drain
  <2>2. sock' \in Seq(Pieces)
    BY <1>2, <2>1
  <2>3. RefusalIsHeard'
    BY <2>1 DEF RefusalIsHeard
  <2>4. outcome # "ok"
    BY <1>1, <2>1 DEF OutcomeInv
  <2>5. TheWhole' = TheWhole
    BY <2>1 DEF TheWhole
  <2>6. ReadTyped'
    BY <1>1, <2>1, <2>2, <2>5 DEF ReadTyped
  <2>7. WayInv' /\ HeadInv' /\ BodyInv' /\ FramedInv' /\ ServedInv' /\ HeldBodyIsAskedFor'
    BY <2>1, <2>4, IsOver
  <2>8. OutcomeInv'
    BY <2>1, <2>4 DEF OutcomeInv, StillReading, ReadStates
  <2>9. QED BY <2>3, <2>6, <2>7, <2>8 DEF ReadInv
<1>6. QED BY <1>3, <1>4, <1>5

\* The invariant holds at first.
LEMMA ReadInvStarts == ASSUME HttpReadInit PROVE ReadInv
<1>1. PICK r \in Requests : client = [says |-> r, told |-> 0, more |-> TRUE]
  BY DEF HttpReadInit
<1>2. /\ sock = <<>> /\ inbuf = <<>> /\ reading = [state |-> "head", want |-> 0] /\ framing = NoFraming
      /\ bodyRead = <<>> /\ outcome = "none"
  BY DEF HttpReadInit
<1>3. <<>> \in Seq(Pieces) /\ Len(<<>>) = 0
  OBVIOUS
<1>4. client \in [says : Requests, told : Nat, more : BOOLEAN] /\ client.told = 0
  BY <1>1
<1>5. Len(TheWhole) \in Nat
  <2>1. r \in [head : Seq(Pieces), body : Seq(Pieces)]
    BY HttpReadAssumption
  <2>2. r.head \o r.body \in Seq(Pieces)
    BY <2>1, ConcatProperties
  <2>3. TheWhole = r.head \o r.body
    BY <1>1 DEF TheWhole, Whole
  <2>4. PICK w \in Seq(Pieces) : w = TheWhole
    BY <2>2, <2>3
  <2>5. Len(w) \in Nat
    OBVIOUS
  <2>6. QED BY <2>4, <2>5
<1>6. ReadTyped
  <2>1. NoFraming \in Texts
    BY DEF NoFraming, Texts
  <2>2. client.told <= Len(TheWhole)
    BY <1>4, <1>5
  <2>3. reading \in [state : ReadStates \cup {"over", "drain", "closed"}, want : Nat]
    BY <1>2 DEF ReadStates
  <2>4. QED BY <1>2, <1>3, <1>4, <2>1, <2>2, <2>3 DEF ReadTyped, ReadOutcomes
<1>7. Behind = 0
  <2>1. Len(sock) = 0 /\ Len(inbuf) = 0
    BY <1>2, <1>3
  <2>2. Behind = 0 - 0 - 0
    BY <1>4, <2>1 DEF Behind
  <2>3. QED BY <2>2
<1>8. WayInv
  BY <1>2, <1>3, <1>7 DEF WayInv, NextOf
<1>9. HeadInv
  <2>1. Blanks(<<>>) = {}
    BY DEF Blanks
  <2>2. QED BY <1>2, <1>7, <2>1 DEF HeadInv
<1>10. OutcomeInv /\ FramedInv /\ BodyInv /\ ServedInv /\ HeldBodyIsAskedFor /\ RefusalIsHeard
  BY <1>2 DEF OutcomeInv, FramedInv, BodyInv, ServedInv, HeldBodyIsAskedFor, RefusalIsHeard, MoreBody
<1>11. QED BY <1>6, <1>8, <1>9, <1>10 DEF ReadInv

\* Every step keeps it.
LEMMA ReadInvSteps == ASSUME ReadInv, [HttpReadNext]_readVars PROVE ReadInv'
<1>1. CASE ClientSends
  BY <1>1, ClientSendsKeeps
<1>2. CASE ClientStops
  BY <1>2, ClientStopsKeeps
<1>3. CASE ReadHead
  BY <1>3, ReadHeadKeeps
<1>4. CASE Refill
  BY <1>4, RefillKeeps
<1>5. CASE TakeBytes
  BY <1>5, TakeBytesKeeps
<1>6. CASE TakeLine
  BY <1>6, TakeLineKeeps
<1>7. CASE NothingComes
  BY <1>7, NothingComesKeeps
<1>8. CASE Refuse \/ Drain \/ CloseRefused
  BY <1>8, RefuseKeeps
<1>9. CASE UNCHANGED readVars
  BY <1>9 DEF readVars, ReadInv, ReadTyped, OutcomeInv, WayInv, HeadInv, FramedInv, BodyInv, ServedInv,
              HeldBodyIsAskedFor, RefusalIsHeard, MoreBody, StillReading, Behind, TheWhole, HeadLen, TheBody, TheHead, NextOf
<1>10. QED BY <1>1, <1>2, <1>3, <1>4, <1>5, <1>6, <1>7, <1>8, <1>9 DEF HttpReadNext, HttpReadThread

\* What is served is what was sent.
LEMMA ServedSoundly == ASSUME ReadInv PROVE ServedIsSent
<1> SUFFICES ASSUME outcome = "ok" PROVE ServedIsSent
  BY DEF ServedIsSent
<1>1. PICK r : r = client.says
  OBVIOUS
<1>2. PICK lines : lines = Lines(r)
  OBVIOUS
<1>3. /\ framing = request_framing(lines) /\ framing.error = "none" /\ r.head[1].kind = "start" /\ framing \in Texts
      /\ r \in Requests
  BY <1>1, <1>2 DEF ReadInv, FramedInv, ReadTyped, TheHead
<1>4. lines \in Seq(Pieces)
  <2>1. r.head \in Seq(Pieces)
    BY <1>3, HttpReadAssumption
  <2>2. PICK h \in Seq(Pieces) : h = r.head
    BY <2>1
  <2>3. Len(h) \in Nat
    OBVIOUS
  <2>4. \A i \in 2..(Len(h) - 1) : h[i] \in Pieces
    <3>1. TAKE i \in 2..(Len(h) - 1)
    <3>2. i \in 1..Len(h)
      BY <2>3
    <3>3. QED BY <3>2
  <2>5. SubSeq(h, 2, Len(h) - 1) \in Seq(Pieces)
    <3>1. 2 \in Int /\ Len(h) - 1 \in Int
      BY <2>3
    <3>2. QED BY <2>4, <3>1, SubSeqProperties
  <2>6. QED BY <1>2, <2>2, <2>5 DEF Lines
<1>5. PICK f : f = Framing(lines)
  OBVIOUS
<1>6. HeadSaid(lines, Len(lines), f)
  BY <1>4, <1>5, FramingSays
<1>7. f \in Texts
  BY <1>6 DEF HeadSaid
<1>8. framing = f /\ ~(f.chunked /\ f.length >= 0)
  <2>1. framing = IF f.error = "none" /\ f.chunked /\ f.length >= 0 THEN [f EXCEPT !.error = "invalid"] ELSE f
    BY <1>3, <1>5, Zenon DEF request_framing
  <2>2. [f EXCEPT !.error = "invalid"].error = "invalid"
    BY <1>7 DEF Texts
  <2>3. QED BY <1>3, <2>1, <2>2
<1>9. \A kind : LinesOf(r, kind) = Among(lines, Len(lines), kind)
  <2>1. DOMAIN lines = 1..Len(lines)
    BY <1>4
  <2>2. QED BY <1>2, <2>1 DEF LinesOf, Among
<1>10. /\ LinesOf(r, "malformed") = {} /\ LinesOf(r, "coding") = {}
       /\ f.length = -1 => LinesOf(r, "length") = {}
       /\ f.length >= 0 => \E j \in 1..Len(lines) : LinesOf(r, "length") = {j} /\ lines[j].n = f.length
       /\ f.chunked <=> LinesOf(r, "chunked") # {}
       /\ \A i, j \in LinesOf(r, "chunked") : i = j
  <2>1. f.error = "none"
    BY <1>3, <1>8
  <2>2. QED BY <1>6, <1>9, <2>1 DEF HeadSaid
<1>11. f.length \in Nat \cup {-1} /\ f.chunked \in BOOLEAN
  BY <1>7 DEF Texts
<1>12. f.length >= 0 \/ f.length = -1
  BY <1>11
<1>13. \A i, j \in LinesOf(r, "length") : i = j
  BY <1>10, <1>12
<1>14. ~(LinesOf(r, "length") # {} /\ LinesOf(r, "chunked") # {})
  BY <1>8, <1>10, <1>12
<1>15. ~Ambiguous(r)
  BY <1>3, <1>10, <1>13, <1>14, Zenon DEF Ambiguous
<1>16. PICK L : L = {lines[i].n : i \in LinesOf(r, "length")}
  OBVIOUS
<1>17. (IF L = {} THEN 0 ELSE CHOOSE n \in L : TRUE) = IF f.length > 0 THEN f.length ELSE 0
  <2>1. CASE f.length = -1
    <3>1. L = {}
      BY <1>10, <1>16, <2>1
    <3>2. QED BY <2>1, <3>1
  <2>2. CASE f.length >= 0
    <3>1. L = {f.length}
      BY <1>10, <1>16, <2>2
    <3>2. (CHOOSE n \in {f.length} : TRUE) = f.length
      OBVIOUS
    <3>3. L # {} /\ (CHOOSE n \in L : TRUE) = f.length
      BY <3>1, <3>2
    <3>4. f.length \in Nat
      BY <1>11, <2>2
    <3>5. (IF f.length > 0 THEN f.length ELSE 0) = f.length
      BY <3>4
    <3>6. QED BY <3>3, <3>5
  <2>3. QED BY <1>12, <2>1, <2>2
<1>18. /\ f.chunked => Joined(r.body) = [whole |-> TRUE, bytes |-> bodyRead]
       /\ ~f.chunked => bodyRead = SubSeq(r.body, 1, IF f.length > 0 THEN f.length ELSE 0)
  BY <1>1, <1>8 DEF ReadInv, ServedInv, TheBody
<1>19. /\ LinesOf(r, "chunked") # {} => Joined(r.body) = [whole |-> TRUE, bytes |-> bodyRead]
       /\ LinesOf(r, "chunked") = {} =>
             bodyRead = SubSeq(r.body, 1, IF L = {} THEN 0 ELSE CHOOSE n \in L : TRUE)
  <2>1. LinesOf(r, "chunked") = {} => ~f.chunked
    BY <1>10
  <2>2. LinesOf(r, "chunked") # {} => f.chunked
    BY <1>10
  <2>3. QED BY <1>17, <1>18, <2>1, <2>2
<1>20. QED BY <1>1, <1>2, <1>15, <1>16, <1>19, Zenon DEF ServedIsSent

\* A request that is served is an unambiguous one and its body is what the client sent, whatever the
\* sizes of the buffer and the limits and however the network cuts it up (read_until_headers_end,
\* request_framing, http_read_exact, http_read_chunked); a client that waits to be asked for its body is
\* asked, and one that is refused hears it (idletoken_http_finish_rejection).
THEOREM RequestsAreRead == HttpReadSpec => []RequestIsRead
<1>1. HttpReadInit => ReadInv
  BY ReadInvStarts
<1>2. ReadInv /\ [HttpReadNext]_readVars => ReadInv'
  BY ReadInvSteps
<1>3. ReadInv => RequestIsRead
  BY ServedSoundly DEF ReadInv, RequestIsRead
<1>4. QED BY <1>1, <1>2, <1>3, PTL DEF HttpReadSpec
=============================================================================
