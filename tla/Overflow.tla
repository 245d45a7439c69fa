------------------------------ MODULE Overflow ------------------------------
(***************************************************************************)
(* What src/src/coord/overflow.c keeps between requests: the switch, the   *)
(* day's ledger and the platform key, and the predicate that decides       *)
(* whether a request may be borrowed from shared compute.  The requests    *)
(* that take these decisions are in ChatRoute.                             *)
(*                                                                         *)
(* Money is counted in small units; a UTC day is a number.  daySpend is    *)
(* history: what the platform's own answers said this machine spent today, *)
(* whichever process of it noted them.                                     *)
(***************************************************************************)
EXTENDS Integers, FiniteSets

CONSTANTS Policy,      \* g_ovf_policy: "legacy", "capability" or "strict"
          Credentials, \* a platform URL and an account key were configured
          DailyCap,    \* daily_cap_milli; 0 = no local cap
          WaitAtLeast, \* wait_ms, in whole services
          MaxDay       \* bound on UTC midnights

OVF_MAX_HOPS == 1

ASSUME OverflowAssumption ==
    /\ Policy \in {"legacy", "capability", "strict"}
    /\ Credentials \in BOOLEAN
    /\ DailyCap \in Nat
    /\ WaitAtLeast \in Nat
    /\ MaxDay \in Nat

VARIABLES ovf,      \* g_ovf
          haveKey,  \* g_ovf_key.have, and it is not about to expire
          today,    \* ovf_today()
          daySpend  \* history: noted since the day began

ovfVars == <<ovf, haveKey, today, daySpend>>

\* idletoken_overflow_configure(): the ledger starts at nothing with the process.
Configured(day) ==
    {[on |-> on, spent |-> 0, day |-> day] : on \in IF Credentials THEN BOOLEAN ELSE {FALSE}}

OverflowInit ==
    /\ today = 1
    /\ ovf \in Configured(1)
    /\ haveKey = FALSE
    /\ daySpend = 0

-----------------------------------------------------------------------------
\* ovf_roll_day(), run by every reader and writer of the ledger.
RollDay(o) == IF o.day = today THEN o ELSE [o EXCEPT !.day = today, !.spent = 0]

CapReached(o) == DailyCap > 0 /\ o.spent >= DailyCap

\* The rules of should_forward() that need no lock on the ledger, in its order:
\* where the request came from, what this machine is serving, how far it came.
Forwardable(origin, hops, platformBusy) ==
    /\ origin \notin {"proven", "claimed"}
    /\ ~(origin = "unattributed" /\ Policy = "strict")
    /\ Policy # "legacy" => ~platformBusy /\ hops < OVF_MAX_HOPS

\* The rest of it, under the lock; the ledger rolls to the present day if read.
Budgeted(est) == ovf.on /\ ~CapReached(RollDay(ovf)) /\ est >= WaitAtLeast
Consulted == IF ovf.on THEN RollDay(ovf) ELSE ovf

\* Mutant: a charge is added to whatever day the ledger was left at.
NoteSpendUnrolled(charge) ==
    /\ ovf' = [ovf EXCEPT !.spent = @ + charge]
    /\ daySpend' = daySpend + charge

\* Mutant: the relay notes again what the exchange noted.
NoteSpendTwice(charge) ==
    /\ ovf' = IF charge > 0 THEN [RollDay(ovf) EXCEPT !.spent = @ + 2 * charge] ELSE ovf
    /\ daySpend' = daySpend + 2 * charge

\* idletoken_overflow_note_spend()
NoteSpend(charge) ==
    /\ ovf' = IF charge > 0 THEN [RollDay(ovf) EXCEPT !.spent = @ + charge] ELSE ovf
    /\ daySpend' = daySpend + charge

-----------------------------------------------------------------------------
\* idletoken_overflow_set_enabled()
SwitchOff ==
    /\ ovf.on
    /\ ovf' = [ovf EXCEPT !.on = FALSE]
    /\ UNCHANGED <<haveKey, today, daySpend>>

SwitchOn ==
    /\ ~ovf.on
    /\ Credentials
    /\ ovf' = [ovf EXCEPT !.on = TRUE]
    /\ UNCHANGED <<haveKey, today, daySpend>>

KeyExpires ==
    /\ haveKey
    /\ haveKey' = FALSE
    /\ UNCHANGED <<ovf, today, daySpend>>

Midnight ==
    /\ today < MaxDay
    /\ today' = today + 1
    /\ daySpend' = 0
    /\ UNCHANGED <<ovf, haveKey>>

OverflowStep == SwitchOff \/ SwitchOn \/ KeyExpires \/ Midnight

\* The process is replaced: everything it kept is gone.
OverflowRestart ==
    /\ ovf' \in Configured(today)
    /\ haveKey' = FALSE
    /\ UNCHANGED <<today, daySpend>>

\* The ledger's part of the type invariant.
OverflowTypeOK ==
    /\ ovf \in [on : BOOLEAN, spent : Nat, day : Nat]
    /\ haveKey \in BOOLEAN
    /\ today \in Nat
    /\ daySpend \in Nat
=============================================================================
