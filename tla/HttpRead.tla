------------------------------ MODULE HttpRead ------------------------------
(***************************************************************************)
(* How one HTTP request is read from a connection (src/src/common/http.c): *)
(* the head into a buffer that may take the beginning of the body with it, *)
(* its framing, the interim answer a client may wait for, the body by      *)
(* length or by chunks, and a refusal that must not be lost.  A request is *)
(* a sequence of pieces (a line, a byte of the body, a line end), and the  *)
(* network may deliver as many of them at a time as there are.             *)
(***************************************************************************)
EXTENDS Integers, Sequences, FiniteSetsExt

CONSTANTS
    Requests,   \* what clients send: records [head, body]
    BufferCap,  \* head_cap: pieces the buffer holds
    BodyCap,    \* IDLETOKEN_HTTP_BODY_CAP
    DrainCap    \* pieces a refusal reads away at most

\* A piece and what it says: the request line ("start"), header lines ("length", "chunked",
\* "coding" for any other coding, "expect", "other", "malformed"), a chunk's size, a byte,
\* a line end, a blank line; or a first line that is none ("garbage").
PieceKinds == {"start", "length", "chunked", "coding", "expect", "other", "malformed", "chunk", "byte", "crlf",
          "blank", "garbage"}
Pieces == [kind : PieceKinds, n : Nat]
\* A head ends with the blank line: where there is another before it, that is its end.
EndsInBlank(head) == head # <<>> /\ \A i \in DOMAIN head : head[i].kind = "blank" <=> i = Len(head)
ASSUME HttpReadAssumption ==
    /\ {BufferCap, BodyCap, DrainCap} \subseteq Nat \ {0}
    /\ \A r \in Requests : r \in [head : Seq(Pieces), body : Seq(Pieces)] /\ EndsInBlank(r.head)

VARIABLES
    client,     \* what the client sends, how much it has sent, and whether it says more
    sock,       \* pieces that have arrived and are not yet read
    inbuf,      \* pieces read into the buffer and not yet consumed
    reading,    \* what the reader does, and how many bytes it still wants
    framing,    \* what the head said of the body
    interim,    \* "100 Continue" has been sent
    bodyRead,   \* the body so far
    outcome,    \* "none", "ok", or why the request was refused
    drained     \* pieces read away after a refusal

readVars == <<client, sock, inbuf, reading, framing, interim, bodyRead, outcome, drained>>

Piece(kind, n) == [kind |-> kind, n |-> n]
P(kind) == Piece(kind, 0)

Whole(c) == c.head \o c.body
NoFraming == [length |-> -1, chunked |-> FALSE, expect |-> FALSE, error |-> "none"]
Goto(state, want) == reading' = [state |-> state, want |-> want]
EndsWith(how) == outcome' = how /\ Goto("over", 0)

HttpReadInit ==
    /\ client \in {[says |-> r, told |-> 0, more |-> TRUE] : r \in Requests}
    /\ sock = <<>> /\ inbuf = <<>> /\ reading = [state |-> "head", want |-> 0]
    /\ framing = NoFraming /\ interim = FALSE /\ bodyRead = <<>>
    /\ outcome = "none" /\ drained = 0

----------------------------------------------------------------------------
\* The client.

\* A client that asks for it keeps its body back until it is told to go on.
MaySend ==
    /\ client.more /\ client.told < Len(Whole(client.says)) /\ reading.state # "closed"
    /\ \/ client.told < Len(client.says.head) \/ interim
       \/ \A i \in DOMAIN client.says.head : client.says.head[i].kind # "expect"

ClientSends ==
    /\ MaySend
    /\ client' = [client EXCEPT !.told = @ + 1]
    /\ sock' = Append(sock, Whole(client.says)[client.told + 1])
    /\ UNCHANGED <<inbuf, reading, framing, interim, bodyRead, outcome, drained>>

\* It closes its side, or its connection stalls for good.
ClientStops ==
    /\ client.more /\ client' = [client EXCEPT !.more = FALSE]
    /\ UNCHANGED <<sock, inbuf, reading, framing, interim, bodyRead, outcome, drained>>

----------------------------------------------------------------------------
\* request_framing: line by line, and the first one that cannot be right decides.
Flaw(f, p) ==
    IF \/ p.kind \in {"malformed", "coding"}
       \/ p.kind = "length" /\ f.length >= 0
       \/ p.kind = "chunked" /\ f.chunked THEN "invalid"
    ELSE IF p.kind = "length" /\ p.n > BodyCap THEN "too large" ELSE "none"
Read1(f, p) ==
    IF f.error # "none" THEN f
    ELSE IF Flaw(f, p) # "none" THEN [f EXCEPT !.error = Flaw(f, p)]
    ELSE [f EXCEPT !.length = IF p.kind = "length" THEN p.n ELSE @,
                   !.chunked = @ \/ p.kind = "chunked", !.expect = @ \/ p.kind = "expect"]

Framing(lines) ==
    LET read[i \in 0..Len(lines)] == IF i = 0 THEN NoFraming ELSE Read1(read[i - 1], lines[i])
    IN  read[Len(lines)]
\* MUTANT: a length beside chunks is taken for a hint.
request_framing_lenient(lines) == Framing(lines)
request_framing(lines) ==
    LET f == Framing(lines)
    IN  IF f.error = "none" /\ f.chunked /\ f.length >= 0 THEN [f EXCEPT !.error = "invalid"] ELSE f

Blanks(s) == {i \in DOMAIN s : s[i].kind = "blank"}
BlankAt(s) == IF Blanks(s) = {} THEN 0 ELSE Min(Blanks(s))

\* read_until_headers_end, and what follows at once from the head.
ReadHead ==
    /\ reading.state = "head" /\ sock # <<>>
    /\ \E k \in 1..Len(sock) :
          LET got == inbuf \o SubSeq(sock, 1, k)
              at == BlankAt(got)
              f == request_framing(SubSeq(got, 2, at - 1))
          IN  /\ Len(got) <= BufferCap
              /\ sock' = SubSeq(sock, k + 1, Len(sock))
              /\ IF at = 0
                   THEN /\ inbuf' = got /\ UNCHANGED <<framing, interim>>
                        /\ IF Len(got) = BufferCap THEN EndsWith("too large")
                           ELSE UNCHANGED <<reading, outcome>>
                 ELSE /\ framing' = f
                      /\ inbuf' = SubSeq(got, at + 1, Len(got))
                      /\ interim' = (f.error = "none" /\ got[1].kind = "start"
                                       /\ f.expect /\ (f.chunked \/ f.length > 0))
                      /\ IF got[1].kind # "start" THEN EndsWith("invalid")
                         ELSE IF f.error # "none" THEN EndsWith(f.error)
                         ELSE IF f.chunked THEN Goto("size", 0) /\ UNCHANGED outcome
                         ELSE IF f.length > 0 THEN Goto("body", f.length) /\ UNCHANGED outcome
                         ELSE EndsWith("ok")
    /\ UNCHANGED <<client, bodyRead, drained>>

\* http_read_exact: what the buffer still holds comes before the socket.
MoreBody == reading.state \in {"body", "data", "ending", "size", "trailer"}
\* MUTANT: what came with the head is dropped when the body is read from the socket.
RefillOver ==
    /\ MoreBody /\ sock # <<>>
    /\ \E k \in 1..Len(sock) :
          /\ k <= BufferCap
          /\ inbuf' = SubSeq(sock, 1, k) /\ sock' = SubSeq(sock, k + 1, Len(sock))
    /\ UNCHANGED <<client, reading, framing, interim, bodyRead, outcome, drained>>
Refill ==
    /\ MoreBody /\ inbuf = <<>> /\ sock # <<>>
    /\ \E k \in 1..Len(sock) :
          /\ k <= BufferCap
          /\ inbuf' = SubSeq(sock, 1, k) /\ sock' = SubSeq(sock, k + 1, Len(sock))
    /\ UNCHANGED <<client, reading, framing, interim, bodyRead, outcome, drained>>

\* Bytes of the body or of a chunk, as many as there are and are wanted.
TakeBytes ==
    /\ reading.state \in {"body", "data"} /\ inbuf # <<>>
    /\ LET n == IF Len(inbuf) < reading.want THEN Len(inbuf) ELSE reading.want
       IN  /\ bodyRead' = bodyRead \o SubSeq(inbuf, 1, n)
           /\ inbuf' = SubSeq(inbuf, n + 1, Len(inbuf))
           /\ IF n < reading.want
                THEN Goto(reading.state, reading.want - n) /\ UNCHANGED outcome
              ELSE IF reading.state = "body" THEN EndsWith("ok")
              ELSE Goto("ending", 0) /\ UNCHANGED outcome
    /\ UNCHANGED <<client, sock, framing, interim, drained>>

\* http_read_chunked: a size line, the bytes, the line end behind them; after the last
\* size trailers, none of which may be a header the coordinator decides by.
AfterLine(p) ==
    IF reading.state = "ending" THEN IF p.kind = "crlf" THEN "size" ELSE "invalid"
    ELSE IF reading.state = "size" THEN
           IF p.kind # "chunk" THEN "invalid"
           ELSE IF p.n = 0 THEN "trailer"
           ELSE IF p.n > BodyCap - Len(bodyRead) THEN "too large" ELSE "data"
    ELSE IF p.kind = "blank" THEN "ok" ELSE IF p.kind = "other" THEN "trailer" ELSE "invalid"

TakeLine ==
    /\ reading.state \in {"size", "ending", "trailer"} /\ inbuf # <<>>
    /\ inbuf' = Tail(inbuf)
    /\ LET next == AfterLine(Head(inbuf))
       IN  IF next \in {"ok", "invalid", "too large"} THEN EndsWith(next)
           ELSE Goto(next, IF next = "data" THEN Head(inbuf).n ELSE 0) /\ UNCHANGED outcome
    /\ UNCHANGED <<client, sock, framing, interim, bodyRead, drained>>

\* The end of the stream, or the socket's own receive timeout.
NothingComes ==
    /\ reading.state \notin {"over", "drain", "closed"}
    /\ sock = <<>> /\ ~client.more /\ (reading.state = "head" \/ inbuf = <<>>)
    /\ \E how \in {"reset", "stalled"} : EndsWith(how)
    /\ UNCHANGED <<client, sock, inbuf, framing, interim, bodyRead, drained>>

----------------------------------------------------------------------------
\* handle_http_request: what is refused is answered 413, 408 or 400, and then
\* idletoken_http_finish_rejection reads away what the client still sends: closing on
\* unread bytes would reset the connection and the answer with it.
Refuse ==
    /\ reading.state = "over" /\ outcome # "ok"
    /\ Goto("drain", 0)
    /\ UNCHANGED <<client, sock, inbuf, framing, interim, bodyRead, outcome, drained>>
Drain ==
    /\ reading.state = "drain" /\ sock # <<>> /\ drained < DrainCap
    /\ sock' = Tail(sock) /\ drained' = drained + 1
    /\ UNCHANGED <<client, inbuf, reading, framing, interim, bodyRead, outcome>>
\* The end of the stream, of the wait, or of what a refusal reads.
\* MUTANT: the connection is closed on whatever is unread.
CloseNow ==
    /\ reading.state = "drain" /\ Goto("closed", 0)
    /\ UNCHANGED <<client, sock, inbuf, framing, interim, bodyRead, outcome, drained>>
CloseRefused ==
    /\ reading.state = "drain" /\ (sock = <<>> \/ drained = DrainCap)
    /\ Goto("closed", 0)
    /\ UNCHANGED <<client, sock, inbuf, framing, interim, bodyRead, outcome, drained>>

HttpReadThread == ReadHead \/ Refill \/ TakeBytes \/ TakeLine \/ NothingComes \/ Refuse \/ Drain \/ CloseRefused
HttpReadNext == ClientSends \/ ClientStops \/ HttpReadThread
HttpReadSpec == HttpReadInit /\ [][HttpReadNext]_readVars

----------------------------------------------------------------------------
\* What a request means, read in one piece and without a buffer.

Lines(r) == SubSeq(r.head, 2, Len(r.head) - 1)
LinesOf(r, kind) == {i \in DOMAIN Lines(r) : Lines(r)[i].kind = kind}
\* The lines no request may have: one that is not a header, a coding other than chunks, a
\* length or a coding given again, a length beside chunks.
Ambiguous(r) ==
    \/ r.head[1].kind # "start" \/ LinesOf(r, "malformed") # {} \/ LinesOf(r, "coding") # {}
    \/ \E kind \in {"length", "chunked"} : \E i, j \in LinesOf(r, kind) : i # j
    \/ LinesOf(r, "length") # {} /\ LinesOf(r, "chunked") # {}

\* Where the chunk whose size line stands at i is followed by the next; 0: nowhere.
NextChunk(b, i) ==
    LET at == i + b[i].n + 2
    IN  IF at <= Len(b) /\ b[at - 1].kind = "crlf" THEN at ELSE 0
\* The last chunk is behind its size line the trailers, headers nobody decides by, and a blank.
Closes(b, i) ==
    \E j \in (i + 1)..Len(b) : b[j].kind = "blank" /\ \A k \in (i + 1)..(j - 1) : b[k].kind = "other"
\* The chunks of a body: whether they are well formed to the end of the trailers, and their bytes.
Broken == [whole |-> FALSE, bytes |-> <<>>]
Joined(b) ==
    LET from[i \in 1..Len(b)] ==
            IF b[i].kind # "chunk" THEN Broken
            ELSE IF b[i].n = 0 THEN [whole |-> Closes(b, i), bytes |-> <<>>]
            ELSE IF NextChunk(b, i) = 0 THEN Broken
            ELSE [whole |-> from[NextChunk(b, i)].whole,
                  bytes |-> SubSeq(b, i + 1, i + b[i].n) \o from[NextChunk(b, i)].bytes]
    IN  IF b = <<>> THEN Broken ELSE from[1]

\* A request that is served is an unambiguous one, and its body is all of the body its
\* client sent and nothing else, however the network cut it up.
ServedIsSent ==
    outcome = "ok" =>
        LET r == client.says
            L == {Lines(r)[i].n : i \in LinesOf(r, "length")}
        IN  /\ ~Ambiguous(r)
            /\ LinesOf(r, "chunked") # {} => Joined(r.body) = [whole |-> TRUE, bytes |-> bodyRead]
            /\ LinesOf(r, "chunked") = {} =>
                  bodyRead = SubSeq(r.body, 1, IF L = {} THEN 0 ELSE CHOOSE n \in L : TRUE)

\* A client is never left waiting for a "100 Continue" by a reader that waits for its body.
HeldBodyIsAskedFor == MoreBody /\ framing.expect => interim

\* A client that has said what it has to say hears why it was refused.
RefusalIsHeard ==
    reading.state = "closed" /\ drained < DrainCap => sock = <<>>

RequestIsRead == ServedIsSent /\ HeldBodyIsAskedFor /\ RefusalIsHeard
=============================================================================
