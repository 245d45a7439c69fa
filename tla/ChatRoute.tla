----------------------------- MODULE ChatRoute -----------------------------
(***************************************************************************)
(* A chat completion on a coordinator that relays to its own llama.cpp     *)
(* engine (src/src/coord/coord_main.c): the pool's hand-off queue, the     *)
(* inference gate, and the loop in which a request that found every slot   *)
(* busy keeps both options alive, the local slot and shared compute, until *)
(* one of them completes it or its client hangs up.                        *)
(*                                                                         *)
(* Each lock section of the code is one action.  A request makes one pass  *)
(* through the route; what it says is left out, but for where it came from *)
(* and how often it was forwarded before.  One round trip to the platform  *)
(* is Send followed by Answered (the platform's bill is noted), NotServed  *)
(* (refused, unreachable, or an answer that does not open), or Cancelled.  *)
(***************************************************************************)
EXTENDS Overflow, Sequences

CONSTANTS Requests,   \* connections that each carry one chat request
          Provenance, \* the [origin, hops] a request may arrive with
          Slots,      \* g_infer.slots
          Workers,    \* LLAMA_POOL_MAX_THREADS (16)
          MaxCharge,  \* the most the platform bills for one answer
          MaxRouteStarts   \* bound on coordinator starts

ASSUME ChatAssumption ==
    /\ IsFiniteSet(Requests)
    /\ Provenance \subseteq [origin : {"local", "proven", "claimed", "unattributed"}, hops : Nat]
    /\ Workers \in Nat \ {0}
    /\ Slots \in 1..Workers
    /\ MaxCharge \in Nat
    /\ MaxRouteStarts \in Nat

VARIABLES backlog, \* g_llpool: connections no worker has taken yet
          gate,    \* g_infer
          req,     \* per request: where its thread is, and what it knows
          gone,    \* clients that closed their socket
          starts   \* coordinator starts so far

routeVars == <<backlog, gate, req, gone, starts>>
chatVars == <<ovfVars, routeVars>>

Waits == {"queueing", "polling", "asking", "deciding", "borrowing", "keying", "sending",
          "posted", "replying", "pausing"}
OnWorker == Waits \cup {"tokenizing", "trying", "admitted", "serving", "served"}
\* Past should_forward()'s yes, with a charge that may still be noted.
Borrowing == {"borrowing", "keying", "sending", "posted"}

At(S) == {r \in Requests : req[r].pc \in S}
Queued == {r \in Requests : req[r].queued}
LentNow == \E r \in At(OnWorker) : req[r].from.origin = "proven"

NotArrived == [pc |-> "away", from |-> [origin |-> "local", hops |-> 0], queued |-> FALSE,
               ahead |-> 0, outcome |-> "none"]

RouteInit ==
    /\ OverflowInit
    /\ backlog = <<>>
    /\ gate = [active |-> 0, waiting |-> 0]
    /\ req = [r \in Requests |-> NotArrived]
    /\ gone = {}
    /\ starts = 1

Goto(r, pc) == req' = [req EXCEPT ![r].pc = pc]
Done(r, how) == req' = [req EXCEPT ![r] = [NotArrived EXCEPT !.pc = "done", !.outcome = how]]
WaiterRemoved == gate' = [gate EXCEPT !.waiting = IF @ > 0 THEN @ - 1 ELSE @]

-----------------------------------------------------------------------------
\* llama_pool_push(), llama_pool_worker()
Arrive(r) ==
    /\ req[r].pc = "away"
    /\ \E from \in Provenance :
          req' = [req EXCEPT ![r] = [NotArrived EXCEPT !.pc = "backlog", !.from = from]]
    /\ backlog' = Append(backlog, r)
    /\ UNCHANGED <<gate, gone, starts, ovfVars>>

HangUp(r) ==
    /\ req[r].pc \notin {"away", "done"}
    /\ r \notin gone
    /\ gone' = gone \cup {r}
    /\ UNCHANGED <<backlog, gate, req, starts, ovfVars>>

TakeUp ==
    /\ backlog # <<>>
    /\ Cardinality(At(OnWorker)) < Workers
    /\ Goto(Head(backlog), "tokenizing")
    /\ backlog' = Tail(backlog)
    /\ UNCHANGED <<gate, gone, starts, ovfVars>>

\* Readiness, translation and the token count come before admission: a request
\* that fails one is answered 400 or 503 without ever touching the gate.
Tokenize(r) ==
    /\ req[r].pc = "tokenizing"
    /\ Goto(r, "trying") \/ Done(r, "refused")
    /\ UNCHANGED <<backlog, gate, gone, starts, ovfVars>>

-----------------------------------------------------------------------------

\* infer_gate_try_acquire(); an admitted waiter then leaves the queue.
Acquire(r) ==
    /\ req[r].pc = "trying"
    /\ gate.active < Slots
    /\ gate' = [gate EXCEPT !.active = @ + 1]
    /\ Goto(r, IF req[r].queued THEN "admitted" ELSE "serving")
    /\ UNCHANGED <<backlog, gone, starts, ovfVars>>

Admitted(r) ==
    /\ req[r].pc = "admitted"
    /\ WaiterRemoved
    /\ req' = [req EXCEPT ![r].pc = "serving", ![r].queued = FALSE]
    /\ UNCHANGED <<backlog, gone, starts, ovfVars>>

Busy(r) ==
    /\ req[r].pc = "trying"
    /\ gate.active >= Slots
    /\ Goto(r, IF req[r].queued THEN "polling" ELSE "queueing")
    /\ UNCHANGED <<backlog, gate, gone, starts, ovfVars>>

\* infer_gate_waiter_add(), the first time round only.
Queue(r) ==
    /\ req[r].pc = "queueing"
    /\ gate' = [gate EXCEPT !.waiting = @ + 1]
    /\ req' = [req EXCEPT ![r].pc = "polling", ![r].queued = TRUE]
    /\ UNCHANGED <<backlog, gone, starts, ovfVars>>

\* Mutant: a client that left while it waited is still counted as a waiter.
LeaveQueueCounted(r) ==
    /\ req[r].pc \in {"polling", "pausing"}
    /\ r \in gone
    /\ Done(r, "gone")
    /\ UNCHANGED <<backlog, gate, gone, starts, ovfVars>>

\* The peer is looked at before each attempt to borrow and during each pause.
LeaveQueue(r) ==
    /\ req[r].pc \in {"polling", "pausing"}
    /\ r \in gone
    /\ WaiterRemoved
    /\ Done(r, "gone")
    /\ UNCHANGED <<backlog, gone, starts, ovfVars>>

Ahead == IF gate.active + gate.waiting < 1 THEN 1 ELSE gate.active + gate.waiting

Estimate(r) ==
    /\ req[r].pc = "polling"
    /\ r \notin gone
    /\ req' = [req EXCEPT ![r].pc = "asking", ![r].ahead = Ahead]
    /\ UNCHANGED <<backlog, gate, gone, starts, ovfVars>>

\* should_forward(): the admission tables first, then the ledger's lock.
AskOrigin(r) ==
    /\ req[r].pc = "asking"
    /\ Goto(r, IF Forwardable(req[r].from.origin, req[r].from.hops, LentNow)
               THEN "deciding" ELSE "pausing")
    /\ UNCHANGED <<backlog, gate, gone, starts, ovfVars>>

Decide(r) ==
    /\ req[r].pc = "deciding"
    /\ ovf' = Consulted
    /\ Goto(r, IF Budgeted(req[r].ahead) THEN "borrowing" ELSE "pausing")
    /\ UNCHANGED <<backlog, gate, gone, starts, haveKey, today, daySpend>>

-----------------------------------------------------------------------------
(***************************************************************************)
(* coord_overflow_relay() and idletoken_overflow_exchange()                *)
(***************************************************************************)
\* The switch is read once more, and not again.
Open(r) ==
    /\ req[r].pc = "borrowing"
    /\ Goto(r, IF ovf.on THEN "keying" ELSE "pausing")
    /\ UNCHANGED <<backlog, gate, gone, starts, ovfVars>>

\* ovf_ensure_key(): up to 15 s of network, verified or nothing is sent.
EnsureKey(r) ==
    /\ req[r].pc = "keying"
    /\ \/ Goto(r, "sending") /\ haveKey' = TRUE
       \/ ~haveKey /\ Goto(r, "pausing") /\ UNCHANGED haveKey
    /\ UNCHANGED <<backlog, gate, gone, starts, ovf, today, daySpend>>

\* A client that is already gone cancels the transfer before it starts.
Send(r) ==
    /\ req[r].pc = "sending"
    /\ Goto(r, IF r \in gone THEN "pausing" ELSE "posted")
    /\ UNCHANGED <<backlog, gate, gone, starts, ovfVars>>

Answered(r, charge) ==
    /\ req[r].pc = "posted"
    /\ NoteSpend(charge)
    /\ Goto(r, "replying")
    /\ UNCHANGED <<backlog, gate, gone, starts, haveKey, today>>

NotServed(r) ==
    /\ req[r].pc = "posted"
    /\ Goto(r, "pausing")
    /\ UNCHANGED <<backlog, gate, gone, starts, ovfVars>>

\* Mutant: the exchange never looks at the client's socket.
CancelledUnseen(r) == FALSE /\ NotServed(r)
Cancelled(r) == r \in gone /\ NotServed(r)

\* A borrowed answer that does not fit its buffer was paid for all the same.
Reply(r) ==
    /\ req[r].pc = "replying"
    /\ \/ WaiterRemoved /\ Done(r, "shared")
       \/ Goto(r, "pausing") /\ UNCHANGED gate
    /\ UNCHANGED <<backlog, gone, starts, ovfVars>>

Wake(r) ==
    /\ req[r].pc = "pausing"
    /\ r \notin gone
    /\ Goto(r, "trying")
    /\ UNCHANGED <<backlog, gate, gone, starts, ovfVars>>

-----------------------------------------------------------------------------
\* The engine answers or fails; a relay whose client went away is cut short.
EngineEnds(r) ==
    /\ req[r].pc = "serving"
    /\ Goto(r, "served")
    /\ UNCHANGED <<backlog, gate, gone, starts, ovfVars>>

Abandoned(r) == r \in gone /\ EngineEnds(r)

\* Mutant: a way out that forgets the slot.
ReleaseForgotten(r) ==
    /\ req[r].pc = "served"
    /\ Done(r, "local")
    /\ UNCHANGED <<backlog, gate, gone, starts, ovfVars>>

Release(r) ==
    /\ req[r].pc = "served"
    /\ gate' = [gate EXCEPT !.active = IF @ > 0 THEN @ - 1 ELSE @]
    /\ Done(r, "local")
    /\ UNCHANGED <<backlog, gone, starts, ovfVars>>

RouteRestart ==
    /\ starts < MaxRouteStarts
    /\ starts' = starts + 1
    /\ OverflowRestart
    /\ backlog' = <<>>
    /\ gate' = [active |-> 0, waiting |-> 0]
    /\ req' = [r \in Requests |->
                 IF req[r].pc \in {"away", "done"} THEN req[r]
                 ELSE [NotArrived EXCEPT !.pc = "done", !.outcome = "dropped"]]
    /\ UNCHANGED gone

-----------------------------------------------------------------------------
\* What the thread that carries r does by itself, in bounded time.
Thread(r) ==
    \/ Tokenize(r) \/ Acquire(r) \/ Admitted(r) \/ Busy(r) \/ Queue(r) \/ LeaveQueue(r)
    \/ Estimate(r) \/ AskOrigin(r) \/ Decide(r) \/ Open(r) \/ EnsureKey(r) \/ Send(r)
    \/ Cancelled(r) \/ Reply(r) \/ Wake(r) \/ Abandoned(r) \/ Release(r)

Platform(r) == NotServed(r) \/ \E charge \in 0..MaxCharge : Answered(r, charge)

RouteNext ==
    \/ \E r \in Requests : Arrive(r) \/ HangUp(r) \/ Thread(r) \/ Platform(r) \/ EngineEnds(r)
    \/ TakeUp
    \/ OverflowStep /\ UNCHANGED routeVars
    \/ RouteRestart

RouteSpec == RouteInit /\ [][RouteNext]_chatVars

ThreadFairness == WF_chatVars(TakeUp) /\ \A r \in Requests : WF_chatVars(Thread(r))

\* The threads are scheduled; nobody else owes anything.
ThreadSpec == RouteSpec /\ ThreadFairness

-----------------------------------------------------------------------------
\* The type invariant, with the widths of the gate: infer_gate_try_acquire() never
\* admits more than g_infer.slots, and the counters never go below zero.
RouteTypeOK ==
    /\ OverflowTypeOK
    /\ backlog \in Seq(Requests)
    /\ gate \in [active : 0..Slots, waiting : 0..Cardinality(Requests)]
    /\ req \in [Requests -> [pc : OnWorker \cup {"away", "backlog", "done"},
                             from : [origin : {"local", "proven", "claimed", "unattributed"},
                                     hops : Nat],
                             queued : BOOLEAN, ahead : Nat,
                             outcome : {"none", "local", "shared", "gone", "refused", "dropped"}]]
    /\ gone \subseteq Requests
    /\ starts \in Nat

\* The gate's counters are exactly the requests they stand for, on every way out
\* of the route: no slot is leaked or given up twice, and no waiter stays counted
\* after it left (the estimate every other request pays by).
GateExact ==
    /\ gate.active = Cardinality(At({"admitted", "serving", "served"}))
    /\ gate.waiting = Cardinality(Queued)

\* The day's ledger is exactly what the platform billed since UTC midnight, though
\* it rolls over lazily and under requests that span the midnight, as long as the
\* process is not replaced (ovf_roll_day, note_spend).
LedgerExact == starts = 1 => RollDay(ovf).spent = daySpend

\* Both books of the route: the gate's, which every other request waits by, and the day's.
BooksExact == GateExact /\ LedgerExact

\* The cap is checked before the exchange and charged after it, so it can be
\* overshot, but only by what was in flight when it was reached: one answer for
\* each worker the busy slots leave over.
OvershootBounded ==
    DailyCap > 0 => RollDay(ovf).spent <= DailyCap - 1 + (Workers - Slots) * MaxCharge

\* A request whose client hung up leaves the route without the engine or the
\* platform having to answer: "Stop is still prompt while capacity waiting
\* itself has no timeout".  (One no worker has taken yet waits for a worker.)
GoneRequestsLeave ==
    \A r \in Requests : (r \in gone /\ req[r].pc # "backlog") ~> req[r].pc = "done"

\* "The local request keeps both options alive until one completes it": every
\* request that arrived ends, however often borrowing failed, provided the engine
\* finishes what it serves and the platform answers what it was sent.
EveryRequestEnds ==
    (\A r \in Requests : WF_chatVars(EngineEnds(r)) /\ WF_chatVars(Platform(r))) =>
        \A r \in Requests : req[r].pc = "backlog" ~> req[r].pc = "done"
=============================================================================
