----------------------------- MODULE MCExchange -----------------------------
(* The HTTP exchanges of a coordinator, each stage on its own small          *)
(* instance: a connection's way to a worker (IntakePool), the reading of its *)
(* request (HttpRead), the way of the answer out (StreamRelay), and a call   *)
(* to the platform (PlatformCall).                                           *)
EXTENDS IntakePool, StreamRelay, HttpRead, PlatformCall

VARIABLE component   \* which of them this behavior is of

\* Text, thinking and text in one event; a tool call whose head comes in two pieces, with
\* another one beside it, and arguments that go on after another call has begun.
SomeDeltas ==
    {<<Item(Text)>>, <<Item(Thinking), Item(Text)>>,
     <<Call(0, TRUE, FALSE, FALSE)>>, <<Call(0, FALSE, FALSE, TRUE)>>,
     <<Call(0, FALSE, TRUE, TRUE), Call(1, TRUE, TRUE, TRUE)>>, <<Call(1, FALSE, FALSE, TRUE)>>}
SomeBorrowed ==
    {<<>>, <<Item(Thinking), Item(Thinking), Item(Text)>>,
     <<Item(Text), Call(0, TRUE, TRUE, TRUE), Call(0, FALSE, FALSE, TRUE), Call(1, TRUE, TRUE, FALSE)>>}

\* Requests with every kind of header line, alone and beside another; bodies by length and
\* in chunks, with a size that is too small, too large, or over the limit.
Long(n) == Piece("length", n)
Chunk(n) == Piece("chunk", n)
Byte(n) == Piece("byte", n)
HeadOf(lines) == <<P("start")>> \o lines \o <<P("blank")>>
SomeHeads ==
    {<<P("garbage"), P("blank")>>} \cup
    {HeadOf(lines) : lines \in
        {<<>>, <<Long(0)>>, <<Long(2)>>, <<P("chunked")>>, <<P("coding")>>, <<P("malformed")>>,
         <<P("expect"), Long(1)>>, <<P("expect"), P("chunked")>>, <<Long(1), P("chunked")>>,
         <<Long(1), P("other"), Long(1)>>, <<Long(9), P("malformed")>>}}
SomeBodies ==
    {<<>>, <<Byte(1), Byte(2)>>}
ChunkedBodies ==
    {<<Chunk(1), Byte(1), P("crlf"), Chunk(2), Byte(2), Byte(3), P("crlf"), Chunk(0), P("other"), P("blank")>>,
     <<Chunk(1), Byte(1), Byte(2), P("crlf"), Chunk(0), P("blank")>>,
     <<Chunk(2), Byte(1), P("crlf"), Chunk(0), P("blank")>>,
     <<Chunk(0), P("length"), P("blank")>>, <<Chunk(9)>>}
SomeRequests ==
    [head : SomeHeads, body : SomeBodies] \cup
    [head : {h \in SomeHeads : \E i \in DOMAIN h : h[i].kind = "chunked"}, body : ChunkedBodies]

\* The platform is called as the program calls it: a control call, the long poll, the upload
\* of a large result, a borrowed answer under no clock but its caller's, a desktop read.
Budget(total, headers, idle, body, size) ==
    [total |-> total, headers |-> headers, idle |-> idle, body |-> body, size |-> size,
     large |-> FALSE, receipt |-> FALSE, retries |-> FALSE, leaves |-> FALSE]
SomeCalls ==
    {Budget(3, 2, 2, 3, 1), [Budget(0, 2, 2, 3, 0) EXCEPT !.receipt = TRUE],
     [Budget(0, 1, 2, 3, 1) EXCEPT !.large = TRUE],
     [Budget(0, 0, 0, 0, 1) EXCEPT !.leaves = TRUE], [Budget(3, 0, 0, 0, 0) EXCEPT !.retries = TRUE]}

\* A component that is not the behavior's own stays in one of its initial states.
ExchangeVars == <<vars, relayVars, readVars, callVars, component>>
AnyRequest == [head |-> HeadOf(<<>>), body |-> <<>>]
ExchangeInit ==
    /\ component \in {"in", "out", "read", "lookup", "call"}
    /\ Init /\ HttpReadInit /\ PlatformCallInit
    /\ \/ RelayInit /\ (component # "out" => face = "whole")
       \/ component = "out" /\ BorrowedInit
    /\ component # "read" => client.says = AnyRequest
    /\ component # "call" => call = Budget(3, 2, 2, 3, 1)
ExchangeNext ==
    /\ UNCHANGED component
    /\ \/ component = "in" /\ Next /\ UNCHANGED <<relayVars, readVars, callVars>>
       \/ component = "out" /\ RelayNext /\ UNCHANGED <<vars, readVars, callVars>>
       \/ component = "read" /\ HttpReadNext /\ UNCHANGED <<vars, relayVars, callVars>>
       \/ component = "lookup" /\ LookupStep /\ UNCHANGED <<vars, relayVars, readVars>>
       \/ /\ component = "call" /\ UNCHANGED <<vars, relayVars, readVars>>
          /\ LookupOf(Me) \/ TransferStep \/ Leave \/ CallTick
\* The relay's thread runs, and so does a call's; the engine, the caller and the platform
\* owe nothing.  IntakeFairness asks nothing while nobody connects.
RelayFairness == WF_relayVars(component = "out" /\ RelayThread)
Calling == component = "call"
CallFairness == WF_callVars(Calling /\ MyStep) /\ WF_callVars(Calling /\ CallTick)
ExchangeSpec ==
    /\ ExchangeInit /\ [][ExchangeNext]_ExchangeVars
    /\ IntakeFairness /\ RelayFairness /\ CallFairness

\* Every exchange ends: a question about the machine is answered whatever chats wait, a
\* connection is closed, an answer is out or given up, a call returns.
ExchangesEnd == ReadsAreAnswered /\ EveryConnectionCloses /\ RelayEnds /\ (Calling => CallEnds)
=============================================================================
