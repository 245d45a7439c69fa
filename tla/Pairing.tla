------------------------------ MODULE Pairing ------------------------------
(***************************************************************************)
(* How a machine proves its join code to a coordinator: the handshake of   *)
(* both ends (PAIR_HELLO / PAIR_ACCEPT) on the coordinator's one join loop *)
(* and the throttle on wrong guesses, per address and for the whole        *)
(* cluster (src/src/common/discovery.c).  The code, the nonces and the     *)
(* tags are abstracted to whether the proof is of this cluster's code; a   *)
(* time is kept as what is left of it, or what has gone since, in units    *)
(* the configuration scales.                                               *)
(***************************************************************************)
EXTENDS Integers, FiniteSets, Sequences, FiniteSetsExt

CONSTANTS
    Sources,     \* the machines that connect, by address
    Holders,     \* those of them that have the cluster's code
    NSlots,      \* THROTTLE_SLOTS
    FreeTries,   \* THROTTLE_FREE_TRIES
    BaseWait,    \* THROTTLE_BASE_MS
    LongestWait, \* THROTTLE_MAX_MS
    Forget,      \* THROTTLE_FORGET_MS
    Window,      \* GLOBAL_WINDOW_MS
    MaxFails,    \* GLOBAL_MAX_FAILS
    Block,       \* GLOBAL_BLOCK_MS
    Deadline,    \* PAIR_HANDSHAKE_TIMEOUT_MS
    ListenQueue, \* how many connections wait to be accepted (16)
    MaxCount,    \* the bound of both failure counters (1000000 in the code)
    MaxWrong     \* bound: connections that do not prove the code

ASSUME PairingAssumption ==
    /\ Holders \subseteq Sources
    /\ {NSlots, BaseWait, Window, MaxFails, Block, Deadline, ListenQueue} \subseteq Nat \ {0}
    /\ {FreeTries, LongestWait, Forget, MaxCount, MaxWrong} \subseteq Nat
    /\ BaseWait <= LongestWait /\ LongestWait < Forget

VARIABLES
    slots,       \* g_throttle: what is known of a source, in at most NSlots of them
    meter,       \* g_global_*: the age of the window, its failures, what is left of a block
    backlog,     \* connections not yet accepted, in order
    serving,     \* the connection in idletoken_pair_server_auth, or NoConn
    patience,    \* how long each machine still waits for its answer; 0: it is not connected
    admitted,    \* machines whose proof was accepted and who heard so
    wrongs,      \* connections so far that did not prove the code
    owed         \* history: what is left of the wait each source's last failure earned

pairVars == <<slots, meter, backlog, serving, patience, admitted, wrongs, owed>>

NoConn == [none |-> TRUE]
Free == [used |-> FALSE]
\* "none": there is never a PAIR_HELLO to read, only nonsense, or silence, or an end of file.
Hellos == {"right", "wrong", "none"}

PairInit ==
    /\ slots = [i \in 1..NSlots |-> Free]
    /\ meter = [age |-> 0, fails |-> 0, wait |-> 0]
    /\ backlog = <<>> /\ serving = NoConn
    /\ patience = [s \in Sources |-> 0]
    /\ admitted = {} /\ wrongs = 0
    /\ owed = [s \in Sources |-> 0]

Less(n) == IF n = 0 THEN 0 ELSE n - 1
AtMost(n, cap) == IF n > cap THEN cap ELSE n

----------------------------------------------------------------------------
\* The throttle.

\* The wait after that many failures in a row: none for the free ones, then doubling.
backoff_ms(fails) ==
    IF fails <= FreeTries THEN 0
    ELSE AtMost(BaseWait * 2 ^ (fails - FreeTries - 1), LongestWait)

Entry(s) == [used |-> TRUE, addr |-> s, fails |-> 0, idle |-> 0, wait |-> 0]

LeastActive(I) == {i \in I : \A j \in I : slots[j].idle <= slots[i].idle}

\* MUTANT: the oldest record is given up whatever penalty it serves.
EvictOldest(s) ==
    LET Used == {i \in 1..NSlots : slots[i].used}
        Own == {i \in Used : slots[i].addr = s}
    IN  IF Own # {} THEN Own
        ELSE IF Used # 1..NSlots THEN {Min((1..NSlots) \ Used)}
        ELSE LeastActive(Used)
\* Where a source's record may be, or go: its own slot; else a free one; else the least
\* recently active one that serves no penalty; else the least recently active one.
throttle_slot_for(s) ==
    LET Used == {i \in 1..NSlots : slots[i].used}
        Own == {i \in Used : slots[i].addr = s}
        Idle == {i \in Used : slots[i].wait = 0}
    IN  IF Own # {} THEN Own
        ELSE IF Used # 1..NSlots THEN {Min((1..NSlots) \ Used)}
        ELSE IF Idle # {} THEN LeastActive(Idle) ELSE LeastActive(Used)

\* What is known of a source in that slot: nothing after a long silence, or if it was another's.
Known(i, s) ==
    IF slots[i].used /\ slots[i].addr = s /\ slots[i].idle <= Forget
      THEN [slots[i] EXCEPT !.idle = 0]
    ELSE Entry(s)

\* global_check_locked: a window that is over starts anew; a block outlives it.
Rolled == IF meter.age > Window THEN [meter EXCEPT !.age = 0, !.fails = 0] ELSE meter

\* MUTANT: only the failure that fills the window blocks.
WouldBlockOnce(fails) == fails = MaxFails
would_block(fails) == fails >= MaxFails

\* global_record_fail_locked
CountedFail ==
    LET m == [Rolled EXCEPT !.fails = AtMost(@ + 1, MaxCount)]
    IN  IF would_block(m.fails) THEN [m EXCEPT !.wait = Block] ELSE m

\* What a source still has to wait, for itself or with everybody.
WaitOf(i, s) == Max({Known(i, s).wait, Rolled.wait})

Displaces(i, s) ==
    /\ slots[i].used /\ slots[i].addr # s
    /\ \A j \in 1..NSlots : slots[j].used /\ slots[j].wait > 0

\* MUTANT: a connection that is refused counts as one more failure.
throttle_check_counts(i, s) ==
    /\ slots' = [slots EXCEPT ![i] = Known(i, s)]
    /\ meter' = IF WaitOf(i, s) > 0 THEN CountedFail ELSE Rolled
    /\ UNCHANGED owed
throttle_check(i, s) ==
    /\ slots' = [slots EXCEPT ![i] = Known(i, s)]
    /\ meter' = Rolled
    /\ owed' = IF Displaces(i, s) THEN [owed EXCEPT ![slots[i].addr] = 0] ELSE owed

\* A connection is judged by its proof, or for saying nothing that could be one.
throttle_record(i, s, success) ==
    IF success
      THEN /\ slots' = [slots EXCEPT ![i] = Entry(s)]
           /\ owed' = [owed EXCEPT ![s] = 0]
           /\ UNCHANGED meter
    ELSE LET fails == AtMost(Known(i, s).fails + 1, MaxCount)
         IN  /\ slots' = [slots EXCEPT ![i] =
                             [Entry(s) EXCEPT !.fails = fails, !.wait = backoff_ms(fails)]]
             /\ meter' = CountedFail
             /\ owed' = [owed EXCEPT ![s] = backoff_ms(fails)]

----------------------------------------------------------------------------
\* The machines.

\* A machine dials and sends its hello (idletoken_pair_client_auth).
Knock(s, hello) ==
    /\ s \notin admitted /\ patience[s] = 0 /\ Len(backlog) < ListenQueue
    /\ IF hello = "right" THEN s \in Holders ELSE wrongs < MaxWrong
    /\ wrongs' = wrongs + (IF hello = "right" THEN 0 ELSE 1)
    /\ patience' = [patience EXCEPT ![s] = Deadline]
    /\ backlog' = Append(backlog, [src |-> s, hello |-> hello, gone |-> FALSE])
    /\ UNCHANGED <<slots, meter, serving, admitted, owed>>

\* The answer, or the end of the connection, reaches a machine that still waits for it.
Answer(c, ok) ==
    IF c.gone THEN UNCHANGED <<patience, admitted>>
    ELSE /\ patience' = [patience EXCEPT ![c.src] = 0]
         /\ admitted' = IF ok THEN admitted \cup {c.src} ELSE admitted

----------------------------------------------------------------------------
\* The coordinator's join loop: idletoken_pair_server_auth, one connection at a time.

\* throttle_check: asked before anything is read.  The record is touched, or made, even when
\* the source is refused; a record this pushes out takes its penalty with it.
AcceptJoin ==
    /\ serving = NoConn /\ backlog # <<>>
    /\ LET c == Head(backlog)
       IN  \E i \in throttle_slot_for(c.src) :
             /\ throttle_check(i, c.src)
             /\ IF WaitOf(i, c.src) > 0
                  THEN serving' = NoConn /\ Answer(c, FALSE)
                ELSE /\ serving' = [none |-> FALSE, conn |-> c, left |-> Deadline]
                     /\ UNCHANGED <<patience, admitted>>
    /\ backlog' = Tail(backlog)
    /\ UNCHANGED wrongs

\* The hello is read and its proof compared; the reply says which.
JudgeHello ==
    /\ serving # NoConn /\ serving.conn.hello \in {"right", "wrong"}
    /\ LET ok == serving.conn.hello = "right"
       IN  /\ \E i \in throttle_slot_for(serving.conn.src) :
                 throttle_record(i, serving.conn.src, ok)
           /\ Answer(serving.conn, ok)
    /\ serving' = NoConn
    /\ UNCHANGED <<backlog, wrongs>>

\* There is no hello to judge: nonsense or an end of file, which may come at any time, or
\* the deadline, which does.  It counts as a failure and gets no reply.
HelloMissing ==
    /\ serving # NoConn /\ serving.conn.hello = "none"
    /\ \E i \in throttle_slot_for(serving.conn.src) :
          throttle_record(i, serving.conn.src, FALSE)
    /\ Answer(serving.conn, FALSE)
    /\ serving' = NoConn
    /\ UNCHANGED <<backlog, wrongs>>

\* Time passes while the loop has nothing to do but wait: for a connection, or for a hello
\* that does not come, and that not beyond the deadline.  A machine whose patience ends
\* closes its connection; what it sent stays.
JoinTick ==
    /\ IF serving = NoConn THEN backlog = <<>>
       ELSE serving.conn.hello = "none" /\ serving.left > 0
    /\ patience' = [s \in Sources |-> Less(patience[s])]
    /\ LET Leaves(c) == [c EXCEPT !.gone = @ \/ patience[c.src] = 1]
       IN  /\ backlog' = [k \in DOMAIN backlog |-> Leaves(backlog[k])]
           /\ serving' = IF serving = NoConn THEN NoConn
                         ELSE [serving EXCEPT !.left = @ - 1, !.conn = Leaves(@)]
    /\ slots' = [i \in 1..NSlots |->
                    IF slots[i].used THEN [slots[i] EXCEPT !.idle = AtMost(@ + 1, Forget + 1),
                                                           !.wait = Less(@)]
                    ELSE Free]
    /\ meter' = [meter EXCEPT !.age = AtMost(@ + 1, Window + 1), !.wait = Less(@)]
    /\ owed' = [s \in Sources |-> Less(owed[s])]
    /\ UNCHANGED <<admitted, wrongs>>

PairNext ==
    \/ \E s \in Sources, hello \in Hellos : Knock(s, hello)
    \/ AcceptJoin \/ JudgeHello \/ HelloMissing \/ JoinTick

JoinLoop == AcceptJoin \/ JudgeHello \/ HelloMissing

----------------------------------------------------------------------------

\* A source that has earned a wait is heard again only when it is over, whatever other
\* addresses connect meanwhile; only when every record there is room for serves a penalty
\* is the oldest of them given up ("the 'not currently blocked' clause is the fix").
PenaltyStands == serving # NoConn => owed[serving.conn.src] = 0

\* However many addresses guess, the cluster judges no more wrong proofs in a window than
\* the meter allows: the free ones, and then one for each block.
GuessRateBounded == meter.fails <= MaxFails + Window \div Block

PairingHolds == PenaltyStands /\ GuessRateBounded

\* A machine that has the code and tries again gets in, whoever guessed, mistyped or said nothing before it,
\* and whatever it mistyped itself.
TheRightfulGetIn == \A s \in Holders : <>(s \in admitted)
=============================================================================
