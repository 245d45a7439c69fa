---------------------------- MODULE StreamRelay ----------------------------
(***************************************************************************)
(* One chat answer on its way from the engine to the caller                *)
(* (src/src/coord/coord_main.c): the relay reads the engine's events and   *)
(* writes the frames of the caller's protocol, or, for a caller that did   *)
(* not ask for a stream, one body at the end; the connection to the engine *)
(* is read with a bounded wait (src/src/coord/llama_sidecar.c) that notices *)
(* a caller who left and an engine that answers nothing any more.  An      *)
(* answer borrowed from shared compute is replayed through the same frames. *)
(*                                                                         *)
(* A span is a numbered piece of text; a frame is what it tells a client.  *)
(* A `big` span does not fit the 4 KiB in which sse_emitf() makes a frame. *)
(***************************************************************************)
EXTENDS Integers, Sequences
LOCAL INSTANCE SequencesExt
LOCAL INSTANCE FiniteSets
LOCAL INSTANCE TLC

CONSTANTS Deltas,           \* what one event of the engine may carry: sequences of items
          Borrowed,         \* answers shared compute may give
          MaxEvents,        \* bound: events before the end
          Grace, ProbeEvery,\* LLAMA_SILENCE_GRACE_MS and LLAMA_PROBE_EVERY_MS, in slices
          MaxFreezes        \* bound

VARIABLES face,     \* the caller's protocol, or "whole" without a stream
          engine,   \* its state, what it sent that is not read yet, what it has said
          caller,
          relay,    \* the thread: conn, the loop's variables
          sse       \* idletoken_sse and the tools, with what went out

relayVars == <<face, engine, caller, relay, sse>>

Anthropic == face = "anthropic"
Over == relay.pc = "over"

\* Items of the engine's events: a span of thinking or text, or a piece of a tool call.
Thinking == <<"thinking", 0>>
Text == <<"text", 0>>
Tool(i) == <<"tool", i>>
IsCall(item) == item.on[1] = "tool"
IsProse(item) == ~IsCall(item)
Item(on) == [on |-> on, id |-> FALSE, name |-> FALSE, speaks |-> TRUE, big |-> FALSE, span |-> 0]
Call(i, id, name, args) == [Item(Tool(i)) EXCEPT !.id = id, !.name = name, !.speaks = args]
Numbered(items, k) ==
    [n \in DOMAIN items |-> [items[n] EXCEPT !.span =
        IF items[n].speaks THEN k + Cardinality({m \in 1..n : items[m].speaks}) ELSE 0]]
Spoken(items) == LET Speaks(x) == x.speaks
                     Bare(x) == [on |-> x.on, span |-> x.span]
                 IN  [n \in DOMAIN SelectSeq(items, Speaks) |-> Bare(SelectSeq(items, Speaks)[n])]

-----------------------------------------------------------------------------
(***************************************************************************)
(* The frames.  A draft `d` is the bookkeeping of the blocks, the frames   *)
(* written for it so far, and whether the engine's event made no sense.    *)
(***************************************************************************)
Frame(t) == [t |-> t, big |-> FALSE, always |-> FALSE]
Always(t) == [Frame(t) EXCEPT !.always = TRUE]
BlockFrame(t, index, on) == [t |-> t, index |-> index, on |-> on, big |-> FALSE, always |-> FALSE]
DeltaFrame(index, item) ==
    [t |-> "delta", index |-> index, kind |-> item.on[1], span |-> item.span,
     big |-> item.big /\ ~IsCall(item), always |-> IsCall(item)]
ChunkFrame(items, big) == [t |-> "chunk", items |-> items, big |-> big, always |-> ~big]

NoTool == [id |-> FALSE, name |-> FALSE, block |-> -1]
NoBlocks == [open |-> FALSE, kind |-> Text, index |-> 0, any |-> FALSE,
             tool |-> [on \in {} |-> NoTool]]
Draft(blocks) == [blocks |-> blocks, out |-> <<>>, broken |-> FALSE]

\* sse_block_close: the index of the next block, and the frame it takes.
Next1(b) == IF b.open THEN b.index + 1 ELSE b.index
CloseFrames(b) == IF b.open THEN <<BlockFrame("stop", b.index, b.kind)>> ELSE <<>>
Closed(b) == [b EXCEPT !.open = FALSE, !.index = Next1(b)]

\* sse_block_open: a block of this kind is open, the one before is closed.
Opened(b, on) == IF b.open /\ b.kind = on THEN b
                 ELSE [b EXCEPT !.open = TRUE, !.kind = on, !.any = TRUE, !.index = Next1(b)]
\* MUTANT: the block before is left open.
OpenFramesOver(b, on) == IF b.open /\ b.kind = on THEN <<>> ELSE <<BlockFrame("start", Next1(b), on)>>
OpenFrames(b, on) == IF b.open /\ b.kind = on THEN <<>>
                     ELSE CloseFrames(b) \o <<BlockFrame("start", Next1(b), on)>>

\* sse_delta and sse_delta_reasoning.
Delta(d, item) ==
    IF Anthropic
    THEN [d EXCEPT !.blocks = Opened(@, item.on),
                   !.out = @ \o OpenFrames(d.blocks, item.on)
                             \o <<DeltaFrame(Opened(d.blocks, item.on).index, item)>>]
    ELSE [d EXCEPT !.out = Append(@, ChunkFrame(<<item>>, item.big))]

\* One element of a tool_calls array on the Anthropic face: the id and the name may come
\* in pieces, the block opens with the last of them, arguments need an open block.
ToolOf(b, on) == IF on \in DOMAIN b.tool THEN b.tool[on] ELSE NoTool
Collected(b, item) ==
    [ToolOf(b, item.on) EXCEPT !.id = @ \/ item.id, !.name = @ \/ item.name]
Opens(b, item) ==
    LET t == Collected(b, item) IN t.block < 0 /\ t.id /\ t.name
ToolOpened(b, item) ==
    IF Opens(b, item)
    THEN [Closed(b) EXCEPT !.index = Next1(b) + 1, !.any = TRUE,
              !.tool = (item.on :> [Collected(b, item) EXCEPT !.block = Next1(b)]) @@ @]
    ELSE [b EXCEPT !.tool = (item.on :> Collected(b, item)) @@ @]
ToolDelta(d, item) ==
    LET b == d.blocks
        block == ToolOpened(b, item).tool[item.on].block
    IN  IF d.broken \/ (ToolOf(b, item.on).block >= 0 /\ (item.id \/ item.name))
        THEN [d EXCEPT !.broken = TRUE]
        ELSE [d EXCEPT
                !.blocks = ToolOpened(b, item),
                !.broken = item.speaks /\ block < 0,
                !.out = @ \o (IF Opens(b, item)
                              THEN CloseFrames(b) \o <<BlockFrame("start", block, item.on)>> ELSE <<>>)
                          \o (IF item.speaks /\ block >= 0 THEN <<DeltaFrame(block, item)>> ELSE <<>>)]

\* llama_stream_tools_delta: OpenAI's array goes out as it came in.
ToolsDelta(d, calls) ==
    IF calls = <<>> THEN d
    ELSE IF Anthropic THEN FoldLeft(ToolDelta, d, calls)
    ELSE [d EXCEPT !.out = Append(@, ChunkFrame(calls, FALSE))]

\* The trailer.
StopFrames(b) ==
    LET open == {on \in DOMAIN b.tool : b.tool[on].block >= 0}
        Before(a, c) == a[2] < c[2]
        order == SetToSortSeq(open, Before)
    IN  [n \in DOMAIN order |-> BlockFrame("stop", b.tool[order[n]].block, order[n])]
EndFrames == IF Anthropic THEN <<Always("message delta"), Frame("message stop")>>
             ELSE <<Always("final"), Frame("[DONE]")>>
\* MUTANT: an answer that ended early gets the trailer of a complete one.
TrailerAnyway(b, reason, broke) ==
    IF Anthropic THEN StopFrames(b) \o CloseFrames(b) \o EndFrames ELSE EndFrames
Trailer(b, reason, broke) ==
    IF broke THEN <<Frame("error")>>
    ELSE IF ~Anthropic THEN EndFrames
    ELSE StopFrames(b)
         \o (IF reason = "tool_calls" \/ b.any THEN CloseFrames(b)
             ELSE OpenFrames(b, Text) \o CloseFrames(Opened(b, Text)))
         \o EndFrames

\* sse_emitf: what does not fit, or meets a dead socket, fails the stream, and nothing
\* more is emitted but the frames that do not ask.  `room` is how many frames a socket
\* still takes whose peer has left.
Sent(s, out) ==
    LET Failed(n) == s.failed \/ \E m \in 1..n : out[m].big
        tried == SelectSeq([n \in DOMAIN out |-> [f |-> out[n], try |-> ~Failed(n) \/ out[n].always]],
                           LAMBDA x : x.try)
        goes == IF s.room < 0 \/ s.room > Len(tried) THEN Len(tried) ELSE s.room
    IN  [s EXCEPT !.wire = @ \o [n \in 1..goes |-> tried[n].f],
                  !.room = IF @ < 0 THEN @ ELSE @ - goes,
                  !.failed = Failed(Len(out)) \/ goes < Len(tried)]
Fresh == [failed |-> FALSE, room |-> -1, wire |-> <<>>, blocks |-> NoBlocks]

-----------------------------------------------------------------------------
RelayInit ==
    /\ caller = "there"
    /\ engine = [state |-> "answering", up |-> <<>>, said |-> <<>>, events |-> 0,
                 complete |-> FALSE, freezes |-> 0]
    /\ relay = [pc |-> "waiting", begun |-> FALSE, lines |-> <<>>, silent |-> 0, since |-> 0,
                done |-> FALSE, reason |-> "none"]
    /\ sse = Fresh
    /\ face \in {"openai", "anthropic", "whole"}
\* Or the answer is one that shared compute gave.
BorrowedInit ==
    \E b \in Borrowed :
        /\ caller = "there"
        /\ engine = [state |-> "ended", up |-> <<>>, said |-> Spoken(Numbered(b, 0)), events |-> 0,
                     complete |-> TRUE, freezes |-> 0]
        /\ relay = [pc |-> "replaying", begun |-> FALSE, lines |-> Numbered(b, 0), silent |-> 0,
                    since |-> 0, done |-> TRUE, reason |-> "none"]
        /\ sse = Fresh
        /\ face \in {"openai", "anthropic"}

\* The engine, as the relay sees it.
Says(d) ==
    /\ engine.state = "answering" /\ engine.events < MaxEvents
    /\ LET items == Numbered(d, Len(engine.said))
       IN  engine' = [engine EXCEPT !.up = Append(@, [t |-> "delta", items |-> items]),
                                    !.said = @ \o Spoken(items), !.events = @ + 1]
    /\ UNCHANGED <<face, caller, relay, sse>>
Completes(reason) ==
    /\ engine.state = "answering"
    /\ engine' = [engine EXCEPT !.up = @ \o <<[t |-> "finish", reason |-> reason], [t |-> "done"]>>,
                                !.complete = TRUE, !.state = "ended"]
    /\ UNCHANGED <<face, caller, relay, sse>>
\* An error in the stream, or a connection that ends.
Errs ==
    /\ engine.state = "answering"
    /\ engine' = [engine EXCEPT !.up = Append(@, [t |-> "error"]), !.state = "ended"]
    /\ UNCHANGED <<face, caller, relay, sse>>
Breaks ==
    /\ engine.state \in {"answering", "frozen"}
    /\ engine' = [engine EXCEPT !.state = "broken"]
    /\ UNCHANGED <<face, caller, relay, sse>>
Freezes ==
    /\ engine.state = "answering" /\ engine.freezes < MaxFreezes
    /\ engine' = [engine EXCEPT !.state = "frozen", !.freezes = @ + 1]
    /\ UNCHANGED <<face, caller, relay, sse>>
Thaws ==
    /\ engine.state = "frozen"
    /\ engine' = [engine EXCEPT !.state = "answering"]
    /\ UNCHANGED <<face, caller, relay, sse>>

Leaves(room) ==
    /\ caller = "there" /\ ~Over
    /\ caller' = "gone" /\ sse' = [sse EXCEPT !.room = room]
    /\ UNCHANGED <<face, engine, relay>>

-----------------------------------------------------------------------------
\* conn_recv_watched
Ends(out) ==
    /\ relay' = [relay EXCEPT !.pc = "over", !.lines = <<>>, !.silent = 0, !.since = 0]
    /\ \E s \in {Sent(sse, out)} : sse' = s
SeesCallerGone ==
    /\ relay.pc = "waiting" /\ caller = "gone"
    /\ Ends(<<>>)
    /\ UNCHANGED <<face, engine, caller>>

\* A read returns some of what is there; the first one brings the response's head.
Takes(n) ==
    /\ relay' = [relay EXCEPT !.pc = "handling", !.begun = TRUE, !.lines = SubSeq(engine.up, 1, n),
                              !.silent = 0, !.since = 0]
    /\ engine' = [engine EXCEPT !.up = SubSeq(@, n + 1, Len(@))]
    /\ sse' = IF relay.begun \/ face = "whole" THEN sse ELSE Sent(sse, <<Frame("begin")>>)
    /\ UNCHANGED <<face, caller>>
Receives(n) == relay.pc = "waiting" /\ n \in DOMAIN engine.up /\ Takes(n)

AtMost(a, b) == IF a < b THEN a ELSE b
\* MUTANT: an engine that answers its probe is waited for, though the caller has left.
SliceDeaf ==
    /\ relay.pc = "waiting" /\ engine.up = <<>> /\ engine.state \in {"answering", "frozen"}
    /\ UNCHANGED relayVars
Slice ==
    LET silent == AtMost(relay.silent + 1, Grace)
        since == AtMost(relay.since + 1, ProbeEvery)
        probes == silent = Grace /\ since = ProbeEvery
    IN  /\ relay.pc = "waiting" /\ engine.up = <<>> /\ engine.state \in {"answering", "frozen"}
        /\ IF caller = "gone" THEN Ends(<<>>)
           ELSE /\ relay' = [relay EXCEPT !.silent = silent, !.since = IF probes THEN 0 ELSE since,
                                          !.pc = IF probes THEN "probing" ELSE @]
                /\ UNCHANGED sse
        /\ UNCHANGED <<face, engine, caller>>
ProbeAnswered ==
    /\ relay.pc = "probing" /\ engine.state = "answering"
    /\ relay' = [relay EXCEPT !.pc = "waiting"]
    /\ UNCHANGED <<face, engine, caller, sse>>
ProbeFails ==
    /\ relay.pc = "probing" /\ engine.state # "answering"
    /\ relay' = [relay EXCEPT !.pc = "probed"]
    /\ UNCHANGED <<face, engine, caller, sse>>

\* The engine does not answer: what has arrived meanwhile still counts.
BrokenOff == IF face = "whole" \/ ~relay.begun THEN <<Frame("error")>>
             ELSE Trailer(sse.blocks, relay.reason, ~relay.done)
Verdict ==
    /\ relay.pc = "probed"
    /\ IF caller = "gone" THEN Ends(<<>>) /\ UNCHANGED <<face, engine, caller>>
       ELSE IF engine.up # <<>> THEN Takes(1)
       ELSE Ends(BrokenOff) /\ UNCHANGED <<face, engine, caller>>

\* The connection has no more: a stream without [DONE] was lost, a body must be whole.
ReadsEnd ==
    /\ relay.pc = "waiting" /\ engine.up = <<>> /\ engine.state \in {"ended", "broken"}
    /\ Ends(IF face = "whole" /\ relay.done
            THEN <<[t |-> "body", items |-> engine.said, big |-> FALSE, always |-> TRUE]>>
            ELSE BrokenOff)
    /\ UNCHANGED <<face, engine, caller>>

\* One line of the stream: thinking, then text, then an error, then tool calls.
Heard(line) ==
    LET items == IF line.t = "delta" /\ face # "whole" THEN line.items ELSE <<>>
    IN  ToolsDelta(FoldLeft(Delta, Draft(sse.blocks), SelectSeq(items, IsProse)),
                   SelectSeq(items, IsCall))
Handles ==
    LET line == Head(relay.lines)
        last == Tail(relay.lines) = <<>>
        done == relay.done \/ line.t = "done"
    IN  /\ relay.pc = "handling"
        /\ \E d \in {Heard(line)} : \E s \in {[Sent(sse, d.out) EXCEPT !.blocks = d.blocks]} :
               IF line.t = "error" \/ d.broken
               THEN Ends(d.out \o <<Frame("error")>>)
               ELSE IF last /\ s.failed THEN Ends(d.out \o Trailer(d.blocks, relay.reason, ~done))
               ELSE /\ sse' = s
                    /\ relay' = [relay EXCEPT !.pc = IF last THEN "waiting" ELSE @,
                                     !.lines = Tail(@), !.done = done,
                                     !.reason = IF line.t = "finish" THEN line.reason ELSE @]
        /\ UNCHANGED <<face, engine, caller>>

-----------------------------------------------------------------------------
\* coord_overflow_stream_reply: thinking and text in pieces that fit; with tool calls
\* the Anthropic face numbers its blocks itself.
Of(items, on) == LET Is(x) == x.on = on IN SelectSeq(items, Is)
Speaks(item) == item.speaks
OwnBlock(index, items) ==
    LET pieces == SelectSeq(items, Speaks)
    IN  <<BlockFrame("start", index, items[1].on)>>
        \o [n \in DOMAIN pieces |-> DeltaFrame(index, pieces[n])]
        \o <<BlockFrame("stop", index, items[1].on)>>
OwnBlocks(groups) == FlattenSeq([n \in DOMAIN groups |-> OwnBlock(n - 1, groups[n])])
Replayed(items) ==
    LET calls == SelectSeq(items, IsCall)
        spoken == Of(items, Thinking) \o Of(items, Text)
        tools == [n \in 1..Cardinality({calls[i].on : i \in DOMAIN calls}) |-> Of(calls, Tool(n - 1))]
        told == FoldLeft(Delta, Draft(NoBlocks), spoken)
        Some(group) == group # <<>>
    IN  IF calls = <<>> THEN told.out \o Trailer(told.blocks, "none", FALSE)
        ELSE IF Anthropic
        THEN OwnBlocks(SelectSeq(<<Of(items, Thinking), Of(items, Text)>> \o tools, Some)) \o EndFrames
        ELSE told.out \o [n \in DOMAIN calls |-> ChunkFrame(<<calls[n]>>, FALSE)] \o EndFrames
Replays ==
    /\ relay.pc = "replaying"
    /\ \E out \in {Replayed(relay.lines)} : Ends(<<Frame("begin")>> \o out)
    /\ UNCHANGED <<face, engine, caller>>

RelayThread ==
    \/ SeesCallerGone \/ Slice \/ ProbeAnswered \/ ProbeFails \/ Verdict \/ ReadsEnd \/ Handles
    \/ Replays \/ \E n \in 1..(MaxEvents + 2) : Receives(n)
EngineSide ==
    \/ \E d \in Deltas : Says(d)
    \/ \E reason \in {"stop", "tool_calls"} : Completes(reason)
    \/ Errs \/ Breaks \/ Freezes \/ Thaws
RelayNext == RelayThread \/ EngineSide \/ \E room \in 0..1 : Leaves(room)
RelaySpec == (RelayInit \/ BorrowedInit) /\ [][RelayNext]_relayVars

-----------------------------------------------------------------------------
(***************************************************************************)
(* What a client of the protocol makes of the frames.                      *)
(***************************************************************************)
Wire == sse.wire
\* The start of the block `index` that is open when frame n arrives.
StartOf(n, index) ==
    {m \in 1..(n - 1) : /\ Wire[m].t = "start" /\ Wire[m].index = index
                        /\ \A k \in m..(n - 1) : Wire[k].t = "stop" => Wire[k].index # index}
Starts(n) == {m \in 1..(n - 1) : Wire[m].t = "start"}
IsEnd(t) == t \in {"message stop", "[DONE]", "error", "body"}
MakesSense(n) ==
    LET f == Wire[n]
        open == IF f.t \in {"start", "delta", "stop"} THEN StartOf(n, f.index) ELSE {}
    IN  /\ f.t = "start" => f.index = Cardinality(Starts(n))
        /\ f.t \in {"delta", "stop"} => open # {}
        /\ f.t = "delta" => \A m \in open : Wire[m].on[1] = f.kind
        /\ f.t = "message stop" => \A m \in Starts(n) : StartOf(n, Wire[m].index) = {}
        /\ IsEnd(f.t) => n = Len(Wire)
Garbled == \E n \in DOMAIN Wire : ~MakesSense(n)

Tells(n) ==
    LET f == Wire[n]
    IN  CASE f.t = "delta" -> [i \in 1..1 |-> [on |-> Wire[CHOOSE m \in StartOf(n, f.index) : TRUE].on,
                                               span |-> f.span]]
          [] f.t = "chunk" -> Spoken(f.items)
          [] f.t = "body" -> f.items
          [] OTHER -> <<>>
Shown == FlattenSeq([n \in DOMAIN Wire |-> Tells(n)])
EndSeen == LET t == IF Wire = <<>> THEN "none" ELSE Wire[Len(Wire)].t
           IN  CASE t \in {"message stop", "[DONE]", "body"} -> "finished"
                 [] t = "error" -> "failed"
                 [] OTHER -> IF Over THEN "cut" ELSE "open"

Promise == INSTANCE Reply WITH
    said <- engine.said, complete <- engine.complete, excused <- (caller = "gone"),
    shown <- IF Garbled THEN <<>> ELSE Shown,
    end <- IF Garbled THEN "garbled" ELSE EndSeen

\* What a caller reads from the frames, on either protocol, streamed, whole or borrowed,
\* is the answer the engine gave, in its order; interleaved thinking, text and parallel
\* tool calls land in the blocks they belong to, every block opened is closed once, and a
\* lost engine is never a finished answer.
KeepsPromise == Promise!ReplySpec

\* A relay lets go of its slot: when its caller leaves, though the engine is silent, and
\* when the engine has stopped answering for good.
RelayEnds ==
    /\ caller = "gone" ~> Over
    /\ <>[](engine.state \in {"frozen", "broken", "ended"}) => <>Over
=============================================================================
