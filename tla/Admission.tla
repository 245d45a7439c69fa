----------------------------- MODULE Admission -----------------------------
(***************************************************************************)
(* The spending side of the job-admission capability                       *)
(* (src/src/common/admission.c): one coordinator process, its pool threads,*)
(* the replay table, the in-flight marks, and the wall clock they are all  *)
(* read against.  The platform agent mints; any copy of a ticket may be    *)
(* presented any number of times.                                          *)
(*                                                                         *)
(* A thread reads the clock once, as an ARGUMENT of consume(), then checks *)
(* the MAC, the expiry and the body, and only then takes the lock that     *)
(* guards the tables: `asked` is that reading and may be old when used.    *)
(*                                                                         *)
(* Abstractions: a nonce is a model value and two mints never draw the same*)
(* one; a channel key is the number of the start that rolled it, so a MAC  *)
(* verifies iff the key numbers agree; the clock never steps backwards.    *)
(***************************************************************************)
EXTENDS Integers, FiniteSets

CONSTANTS Threads,        \* pool threads that serve requests
          Nonces,         \* one per ticket that may ever be minted
          Bodies,         \* request bodies, told apart by their hash
          SpentSlots,     \* ADM_SPENT_SLOTS (1024)
          InflightSlots,  \* ADM_INFLIGHT_SLOTS (64)
          TTL,            \* IDLETOKEN_ADM_TTL_S (120)
          InflightMax,    \* IDLETOKEN_ADM_INFLIGHT_MAX_S (900)
          MaxNow,         \* bound of the model's clock
          MaxStarts       \* bound on coordinator starts

ASSUME AdmissionAssumption ==
    /\ SpentSlots \in Nat
    /\ InflightSlots \in Nat
    /\ TTL \in Nat \ {0}
    /\ InflightMax \in Nat
    /\ MaxNow \in Nat
    /\ MaxStarts \in Nat
    /\ "none" \notin Nonces

VARIABLES now,      \* time(NULL)
          key,      \* g_adm.channel_key: the number of the current start
          minted,   \* what each nonce's ticket says; key 0 = not minted yet
          spent,    \* g_adm.spent
          inflight, \* g_adm.inflight_since; 0 = free
          th,       \* per pool thread
          admits,   \* history: admissions of each ticket
          early,    \* history: those decided before the ticket had expired
          overran   \* history: some admitted job outlived InflightMax

vars == <<now, key, minted, spent, inflight, th, admits, early, overran>>

SlotsOf(n) == 1..n
Ticket == [key : Nat, exp : Nat, body : Bodies \cup {"none"}]
FreeEntry == [nonce |-> "none", exp |-> 0]
SpentEntry == [nonce : Nonces, exp : Nat] \cup {FreeEntry}
IdleThread == [pc |-> "idle", nonce |-> "none", body |-> "none",
               asked |-> 0, slot |-> 0, since |-> 0]
BusyThread == [pc : {"asked", "checked", "running"}, nonce : Nonces, body : Bodies,
               asked : Nat \ {0}, slot : 0..InflightSlots, since : Nat]

IsFirst(i, S) == i \in S /\ \A j \in S : i <= j

Init ==
    /\ now = 1
    /\ key = 1
    /\ minted = [n \in Nonces |-> [key |-> 0, exp |-> 0, body |-> "none"]]
    /\ spent = [i \in SlotsOf(SpentSlots) |-> FreeEntry]
    /\ inflight = [i \in SlotsOf(InflightSlots) |-> 0]
    /\ th = [t \in Threads |-> IdleThread]
    /\ admits = [n \in Nonces |-> 0]
    /\ early = [n \in Nonces |-> 0]
    /\ overran = FALSE

(***************************************************************************)
(* The agent mints under the key it has attached, current or stale.        *)
(***************************************************************************)
Mint(n, k, b) ==
    /\ minted[n].key = 0
    /\ minted' = [minted EXCEPT ![n] = [key |-> k, exp |-> now + TTL, body |-> b]]
    /\ UNCHANGED <<now, key, spent, inflight, th, admits, early, overran>>

(* request_origin(): a request with a ticket reaches a pool thread, which   *)
(* evaluates time(NULL) for the call.                                       *)
Present(t, n, b) ==
    /\ th[t].pc = "idle"
    /\ minted[n].key # 0
    /\ th' = [th EXCEPT ![t] = [pc |-> "asked", nonce |-> n, body |-> b,
                                 asked |-> now, slot |-> 0, since |-> 0]]
    /\ UNCHANGED <<now, key, minted, spent, inflight, admits, early, overran>>

\* Mutant: any body is served under a ticket that is otherwise good.
AuthenticAnyBody(t) ==
    LET ticket == minted[th[t].nonce]
    IN ticket.key = key /\ ticket.exp > th[t].asked

(* The checks made before the table lock.  A refusal ends the request.      *)
Authentic(t) ==
    LET ticket == minted[th[t].nonce]
    IN /\ ticket.key = key
       /\ ticket.exp > th[t].asked
       /\ ticket.body = th[t].body

Check(t) ==
    /\ th[t].pc = "asked"
    /\ th' = [th EXCEPT ![t] = IF Authentic(t) THEN [th[t] EXCEPT !.pc = "checked"]
                                               ELSE IdleThread]
    /\ UNCHANGED <<now, key, minted, spent, inflight, admits, early, overran>>

(***************************************************************************)
(* adm_spend_nonce() and adm_inflight_take(), under one lock.              *)
(***************************************************************************)
\* Mutant: an entry is forgotten a second before its ticket expires.
AgedEarly(i, at) == spent[i].exp # 0 /\ spent[i].exp <= at + 1
Aged(i, at) == spent[i].exp # 0 /\ spent[i].exp <= at
AgedOut(upto, at) ==
    [i \in SlotsOf(SpentSlots) |-> IF i <= upto /\ Aged(i, at) THEN FreeEntry ELSE spent[i]]
Hits(n, at) == {i \in SlotsOf(SpentSlots) :
                   spent[i].exp # 0 /\ ~Aged(i, at) /\ spent[i].nonce = n}
Room(at) == {i \in SlotsOf(SpentSlots) : spent[i].exp = 0 \/ Aged(i, at)}

\* Mutant: a mark is healed at the limit instead of after it.
OverdueAtLimit(i, at) == inflight[i] # 0 /\ at - inflight[i] >= InflightMax
Overdue(i, at) == inflight[i] # 0 /\ at - inflight[i] > InflightMax
Takeable(at) == {i \in SlotsOf(InflightSlots) : inflight[i] = 0 \/ Overdue(i, at)}

\* The scan stops at the first slot that holds the nonce.
RefuseReplayed(t) ==
    /\ th[t].pc = "checked"
    /\ \E i \in SlotsOf(SpentSlots) :
          /\ IsFirst(i, Hits(th[t].nonce, th[t].asked))
          /\ spent' = AgedOut(i - 1, th[t].asked)
    /\ th' = [th EXCEPT ![t] = IdleThread]
    /\ UNCHANGED <<now, key, minted, inflight, admits, early, overran>>

\* The replay table is full of live entries: fail closed.
RefuseNoRoom(t) ==
    /\ th[t].pc = "checked"
    /\ Hits(th[t].nonce, th[t].asked) = {}
    /\ Room(th[t].asked) = {}
    /\ th' = [th EXCEPT ![t] = IdleThread]
    /\ UNCHANGED <<now, key, minted, spent, inflight, admits, early, overran>>

\* The in-flight mark: the first slot that is free or healed, or none.
TakeMark(t) ==
    LET at == th[t].asked
        Running(slot) == [th[t] EXCEPT !.pc = "running", !.slot = slot, !.since = at]
    IN \/ /\ Takeable(at) = {}
          /\ inflight' = inflight
          /\ th' = [th EXCEPT ![t] = Running(0)]
       \/ \E i \in SlotsOf(InflightSlots) :
             /\ IsFirst(i, Takeable(at))
             /\ inflight' = [inflight EXCEPT ![i] = at]
             /\ th' = [th EXCEPT ![t] = Running(i)]

Admit(t) ==
    LET n == th[t].nonce
    IN /\ th[t].pc = "checked"
       /\ Hits(n, th[t].asked) = {}
       /\ \E i \in SlotsOf(SpentSlots) :
             /\ IsFirst(i, Room(th[t].asked))
             /\ spent' = [AgedOut(SpentSlots, th[t].asked) EXCEPT
                             ![i] = [nonce |-> n, exp |-> minted[n].exp]]
       /\ TakeMark(t)
       /\ admits' = [admits EXCEPT ![n] = @ + 1]
       /\ early' = [early EXCEPT ![n] = IF now < minted[n].exp THEN @ + 1 ELSE @]
       /\ overran' = (overran \/ now - th[t].asked > InflightMax)
       /\ UNCHANGED <<now, key, minted>>

\* Mutant: one of the ways out of a request forgets request_end().
RequestEndForgotten(t) ==
    /\ th[t].pc = "running"
    /\ th' = [th EXCEPT ![t] = IdleThread]
    /\ UNCHANGED <<now, key, minted, spent, inflight, admits, early, overran>>

(* llama_pool_worker(): request_end() after every request it served.        *)
RequestEnd(t) ==
    /\ th[t].pc = "running"
    /\ inflight' = IF th[t].slot > 0 THEN [inflight EXCEPT ![th[t].slot] = 0] ELSE inflight
    /\ th' = [th EXCEPT ![t] = IdleThread]
    /\ UNCHANGED <<now, key, minted, spent, admits, early, overran>>

(* platform_busy(): counts the fresh marks, heals the overdue ones.         *)
PlatformBusy ==
    /\ \E i \in SlotsOf(InflightSlots) : Overdue(i, now)
    /\ inflight' = [i \in SlotsOf(InflightSlots) |-> IF Overdue(i, now) THEN 0 ELSE inflight[i]]
    /\ UNCHANGED <<now, key, minted, spent, th, admits, early, overran>>

(* The process ends, by itself or killed, and another start arms afresh.    *)
Restart ==
    /\ key < MaxStarts
    /\ key' = key + 1
    /\ spent' = [i \in SlotsOf(SpentSlots) |-> FreeEntry]
    /\ inflight' = [i \in SlotsOf(InflightSlots) |-> 0]
    /\ th' = [t \in Threads |-> IdleThread]
    /\ UNCHANGED <<now, minted, admits, early, overran>>

Tick ==
    /\ now < MaxNow
    /\ now' = now + 1
    /\ overran' = (overran \/ \E t \in Threads : /\ th[t].pc = "running"
                                                 /\ now' - th[t].since > InflightMax)
    /\ UNCHANGED <<key, minted, spent, inflight, th, admits, early>>

Next ==
    \/ \E n \in Nonces, k \in 1..key, b \in Bodies : Mint(n, k, b)
    \/ \E t \in Threads :
          \/ \E n \in Nonces, b \in Bodies : Present(t, n, b)
          \/ Check(t)
          \/ RefuseReplayed(t)
          \/ RefuseNoRoom(t)
          \/ Admit(t)
          \/ RequestEnd(t)
    \/ PlatformBusy
    \/ Restart
    \/ Tick

Spec == Init /\ [][Next]_vars

-----------------------------------------------------------------------------
\* Every variable has its type.
TypeOK ==
    /\ now \in Nat \ {0}
    /\ key \in Nat \ {0}
    /\ minted \in [Nonces -> Ticket]
    /\ spent \in [SlotsOf(SpentSlots) -> SpentEntry]
    /\ inflight \in [SlotsOf(InflightSlots) -> Nat]
    /\ th \in [Threads -> BusyThread \cup {IdleThread}]
    /\ admits \in [Nonces -> Nat]
    /\ early \in [Nonces -> Nat]
    /\ overran \in BOOLEAN

\* A ticket is admitted at most once before it expires, whatever the pool
\* threads' interleaving, the age of the clock reading each one spends with, and
\* whichever entries other threads have aged out of the replay table meanwhile
\* (adm_spend_nonce; consume: "verify AND consume, in one step").
SpentOnceWhileLive == \A n \in Nonces : early[n] <= 1

\* A ticket admits its body once, ever: what the mint endpoint promises.
SingleUse == \A n \in Nonces : admits[n] <= 1

\* Whatever is being served was admitted under this run's own key, for the body
\* that arrived, and with a clock reading before the expiry: nothing the checks
\* established is undone between them and the table lock (a restart kills the
\* threads that had checked under the previous key).
ServedAsMinted ==
    \A t \in Threads : th[t].pc = "running" =>
        LET ticket == minted[th[t].nonce]
        IN ticket.key = key /\ ticket.body = th[t].body /\ th[t].since < ticket.exp

\* As long as no admitted job has outlived InflightMax, each running job that
\* got a mark still owns it: platform_busy() sees it, and nobody shares it.
MarkHeldUnlessOverrun ==
    ~overran => \A t \in Threads : th[t].pc = "running" /\ th[t].slot > 0 =>
        /\ inflight[th[t].slot] = th[t].since
        /\ \A u \in Threads \ {t} : th[u].pc = "running" => th[u].slot # th[t].slot

\* A mark always stands for a request some thread is still serving, so a
\* machine never stays "busy with platform work" after the work is over
\* (llama_pool_worker: failing closed forever is still a failure).
NoPhantomMark ==
    \A i \in SlotsOf(InflightSlots) : inflight[i] # 0 =>
        \E t \in Threads : th[t].pc = "running" /\ th[t].slot = i

\* Marks and running jobs correspond, both ways: what platform_busy() reports is neither
\* late nor left behind.
MarksExact == MarkHeldUnlessOverrun /\ NoPhantomMark

-----------------------------------------------------------------------------
(***************************************************************************)
(* The inductive invariants the proofs use.                                *)
(***************************************************************************)
\* What a busy thread knows: its clock reading is not in the future, and past
\* the checks its ticket is authentic under the key of this very run.
ClockInv ==
    \A t \in Threads :
        /\ th[t].pc # "idle" => th[t].asked <= now /\ minted[th[t].nonce].key # 0
        /\ th[t].pc \in {"checked", "running"} => Authentic(t)
        /\ th[t].pc = "running" => th[t].since = th[t].asked

\* An admitted ticket that could still be presented is in the replay table, and
\* no ticket is older than its minting or newer than the coordinator.
TableInv ==
    \A n \in Nonces :
        /\ early[n] <= 1
        /\ minted[n].key <= key
        /\ early[n] > 0 => minted[n].key # 0
        /\ early[n] > 0 /\ minted[n].key = key /\ now < minted[n].exp =>
              \E i \in SlotsOf(SpentSlots) :
                  spent[i] = [nonce |-> n, exp |-> minted[n].exp]

\* Until some job outlives InflightMax, no mark of a running job is overdue.
MarkInv ==
    ~overran => \A t \in Threads : th[t].pc = "running" =>
        /\ now - th[t].since <= InflightMax
        /\ th[t].slot > 0 =>
              /\ inflight[th[t].slot] = th[t].since
              /\ \A u \in Threads \ {t} : th[u].pc = "running" => th[u].slot # th[t].slot
=============================================================================
