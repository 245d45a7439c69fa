------------------------------- MODULE Planner ------------------------------
(* The scheduler of src/src/common/plan.c: run alone, run alone with routed  *)
(* experts in RAM, split over a cluster by ratio, place exact block ranges   *)
(* (with experts in each owner's RAM), or refuse.                            *)
(*                                                                           *)
(* Ratios are exact rationals, written as integer numerators over one        *)
(* denominator; where the code converts a double to bytes the result may be  *)
(* one byte under an exact integer, which "drift" says owner by owner.       *)
EXTENDS Placement

-----------------------------------------------------------------------------
(* One machine with experts in RAM: one pass over the prefixes of blocks,    *)
(* keeping the first that fits with the largest cache it leaves room for.    *)
PrefixAt(m, need, usable, cap, p) ==
    LET ram == SumOver(m.experts, 1, p)
        g == Geometry(m, 0, p)
        gpu == Floor0(need - ram) + Staging(g)
        free == usable - gpu - CacheFixed(g)
        room == IF g.slot > 0 /\ free > 0 THEN free \div g.slot ELSE 0
    IN  [ram |-> ram, gpu |-> gpu, onGpu |-> gpu <= usable, inRam |-> ram <= cap,
         slots |-> IF room < m.nUsed THEN 0 ELSE Smaller(room, CacheTarget(m))]

NothingYet == [blocks |-> 0, slots |-> 0, short |-> 0, done |-> FALSE]

\* One prefix more, as it stands at p.
NextPrefix(s, at, p, target) ==
    LET better == s.blocks = 0 \/ at.slots > s.slots
        kept == IF better THEN [s EXCEPT !.blocks = p, !.slots = at.slots] ELSE s
    IN  IF s.done \/ ~at.onGpu THEN s
        ELSE IF ~at.inRam THEN [s EXCEPT !.short = p, !.done = TRUE]
        ELSE [kept EXCEPT !.done = kept.slots = target]
ScanPrefixes(m, need, usable, cap) ==
    LET scan[p \in 0..NumBlocks(m)] ==
          IF p = 0 THEN NothingYet
          ELSE NextPrefix(scan[p - 1], PrefixAt(m, need, usable, cap, p), p, CacheTarget(m))
    IN  scan[NumBlocks(m)]

\* The prefix chosen, or the one that would have to fit.
Chosen(s, blocks) == IF s.blocks > 0 THEN s.blocks ELSE IF s.short > 0 THEN s.short ELSE blocks
HybridOf(s, at, host) ==
    CASE s.blocks > 0 ->
           [kind |-> "single", why |-> "experts in RAM", blocks |-> s.blocks,
            slots |-> s.slots, gpu |-> at.gpu, ram |-> at.ram + host]
      [] s.blocks = 0 /\ s.short > 0 -> Refusal("RAM is short", at.gpu, at.ram + host)
      [] OTHER -> Refusal("GPU is short", at.gpu, at.ram + host)
SingleHybrid(m, node, host, need, usable) ==
    LET cap == RamCap(LessHost(node, host))
        After(s) == HybridOf(s, PrefixAt(m, need, usable, cap, Chosen(s, NumBlocks(m))), host)
    IN  After(ScanPrefixes(m, need, usable, cap))

-----------------------------------------------------------------------------
(* The split by ratio: every machine's share of what divides with the blocks *)
(* is proportional to its pool, no more than it can hold, and the machines   *)
(* with room take what the others cannot.                                    *)
Slice(q) ==
    q.m.total - (IF q.m.mtp.on THEN q.m.mtp.weights ELSE 0) + KvBytes(q.m, q.ctx)

FixedOf(q, i) ==
    Overhead + ComputeBytes(q.m, q.ctx, q.backend) + MtpCompute(q.m, q.ctx, q.backend)
    + (IF i = 1 THEN q.m.mmproj + q.hostGpu
                     + (IF q.m.mtp.on THEN q.m.mtp.weights ELSE 0)
                     + MtpBytes(q.m, q.ctx, q.backend) - MtpCompute(q.m, q.ctx, q.backend)
       ELSE 0)

Pool(q, i) == q.nodes[i].vram
Cap(q, i) == Smaller(Floor0(Pool(q, i) - FixedOf(q, i)), Slice(q))

\* Numerators of the first shares; the coordinator gets one block's share at least.
FirstShares(q) ==
    LET n == Len(q.nodes)
        all == SumSeq([i \in 1..n |-> Pool(q, i)])
        L == NumBlocks(q.m)
    IN  IF Pool(q, 1) * L >= all THEN [i \in 1..n |-> Pool(q, i)]
        ELSE [i \in 1..n |-> IF i = 1 THEN all - Pool(q, 1) ELSE Pool(q, i) * (L - 1)]

\* Water-filling.  In exact arithmetic what the first round hands over fits in the
\* room it is handed to, and the rounds after it find nothing above its cap.
Refill(want, cap, kept, excess, room, over) ==
    IF excess = 0 THEN [num |-> want, den |-> over]
    ELSE [num |-> [i \in DOMAIN want |-> kept[i] * room + excess * (cap[i] - kept[i])],
          den |-> over * room]
Capped(want, cap, over) ==
    LET From(kept) == Refill(want, cap, kept, SumSeq(want) - SumSeq(kept),
                             SumSeq(cap) - SumSeq(kept), over)
    IN  From([i \in DOMAIN want |-> Smaller(want[i], cap[i])])
Filled(q) ==
    LET Of(first, over) ==
          Capped([i \in DOMAIN first |-> first[i] * Slice(q)],
                 [i \in DOMAIN first |-> Cap(q, i) * over], over)
    IN  Of(FirstShares(q), SumSeq(FirstShares(q)))

\* Whole bytes, none beyond the slice; a double may fall just below an integer.
WholeBytes(f, drift, slice) ==
    LET share(i) == f.num[i] \div f.den
                    - (IF f.num[i] % f.den = 0 /\ f.num[i] > 0 THEN drift[i] ELSE 0)
        taken[i \in 0..Len(f.num)] ==
            IF i = 0 THEN 0 ELSE taken[i - 1] + Smaller(share(i), slice - taken[i - 1])
    IN  [i \in DOMAIN f.num |-> taken[i] - taken[i - 1]]
WholeShares(q, drift) == WholeBytes(Filled(q), drift, Slice(q))

\* The bytes lost to rounding go where there is room, the most room first; what no
\* machine has room for is put on the tightest, where the owners' check will see it.
Headroom(q, shares, i) == Floor0(Pool(q, i) - FixedOf(q, i) - shares[i])
Roomiest(q, shares) ==
    CHOOSE i \in DOMAIN shares : \A j \in DOMAIN shares :
        \/ Headroom(q, shares, i) > Headroom(q, shares, j)
        \/ Headroom(q, shares, i) = Headroom(q, shares, j) /\ i <= j
Tightest(q) ==
    CHOOSE i \in DOMAIN q.nodes : \A j \in DOMAIN q.nodes :
        Cap(q, i) < Cap(q, j) \/ (Cap(q, i) = Cap(q, j) /\ i <= j)

GiveTo(q, s) ==
    LET left == Slice(q) - SumSeq(s)
        i == Roomiest(q, s)
    IN  IF left = 0 THEN s
        ELSE IF Headroom(q, s, i) = 0 THEN [s EXCEPT ![Tightest(q)] = @ + left]
        ELSE [s EXCEPT ![i] = @ + Smaller(left, Headroom(q, s, i))]
WithRemainder(q, shares) ==
    LET lost == Slice(q) - SumSeq(shares)
        given[k \in 0..lost] == IF k = 0 THEN shares ELSE GiveTo(q, given[k - 1])
    IN  given[lost]

\* Why a ratio will not do, or "".
TooShort(q, need, bytes) ==
    LET each == DOMAIN q.nodes
    IN  IF SumSeq([i \in each |-> Pool(q, i)]) < need THEN "not enough GPU memory"
        ELSE IF Cap(q, 1) * NumBlocks(q.m) < Slice(q) THEN "the coordinator cannot hold a block"
        ELSE IF SumSeq([i \in each |-> Cap(q, i)]) < Slice(q) THEN "not enough reachable GPU memory"
        ELSE IF \E i \in each : bytes[i] > Pool(q, i) THEN "an owner is short" ELSE ""
ByRatio(q, need, why, bytes) ==
    IF why # "" THEN PlaceExactly(q, why, need)
    ELSE [kind |-> "cluster", why |-> "ratio", order |-> q.order, ranges |-> <<>>,
          slots |-> 0, shares |-> Filled(q).num, gpuOf |-> bytes,
          ramOf |-> [i \in DOMAIN q.nodes |-> 0], hybrid |-> FALSE, headLocal |-> FALSE,
          gpu |-> need, ram |-> q.hostRam]
SplitByRatio(q, need, drift) ==
    LET shares == WithRemainder(q, WholeShares(q, drift))
        Split(bytes) == ByRatio(q, need, TooShort(q, need, bytes), bytes)
    IN  Split([i \in DOMAIN q.nodes |-> FixedOf(q, i) + shares[i]])

-----------------------------------------------------------------------------
\* The coordinator first, then the strongest machine first (exchanges, in this order).
Stronger(nodes, o, i, j) ==
    IF 1 < i /\ i < j /\ nodes[o[j]].vram > nodes[o[i]].vram
    THEN [o EXCEPT ![i] = o[j], ![j] = o[i]] ELSE o
Pass(nodes, o, i) ==
    LET swapped[j \in 0..Len(nodes)] == IF j = 0 THEN o ELSE Stronger(nodes, swapped[j - 1], i, j)
    IN  swapped[Len(nodes)]
Order(nodes, coordinator) ==
    LET n == Len(nodes)
        listed == [i \in 1..n |-> IF i = 1 THEN coordinator ELSE IF i <= coordinator THEN i - 1 ELSE i]
        sorted[i \in 0..n] == IF i = 0 THEN listed ELSE Pass(nodes, sorted[i - 1], i)
    IN  sorted[n]

\* The whole decision for the machines of a list, the coordinator among them.
Plan(m, nodes, coordinator, ctx, force, drift) ==
    LET n == Len(nodes)
        me == nodes[coordinator]
        backend == RosterBackend(nodes)
        host == MtpHost(m, ctx, backend)
        hostRam == IF me.unified THEN 0 ELSE host
        NeedOn(k) == Needed(m, ctx, k, backend, me.unified)
        order == Order(nodes, coordinator)
        q == [m |-> m, nodes |-> [i \in 1..n |-> nodes[order[i]]], order |-> order,
              ctx |-> ctx, backend |-> backend,
              hostGpu |-> host - hostRam, hostRam |-> hostRam]
    IN  CASE MtpBytes(m, ctx, backend) = Unmeasured -> Refusal("draft head unmeasured", 0, 0)
          [] ComputeBytes(m, ctx, backend) = 0 -> Refusal("workspace unmeasured", 0, 0)
          [] OTHER ->
             CASE me.ram < hostRam ->
                    Refusal("no RAM for the draft head",
                            NeedOn(IF force THEN n ELSE 1), hostRam)
               [] me.ram >= hostRam /\ me.vram = 0 ->
                    Refusal("coordinator without GPU memory", NeedOn(1), hostRam)
               [] me.ram >= hostRam /\ me.vram > 0 ->
                    IF me.vram >= NeedOn(1) /\ ~(force /\ n > 1)
                    THEN [kind |-> "single", why |-> "fits", blocks |-> 0, slots |-> 0,
                          gpu |-> NeedOn(1), ram |-> hostRam]
                    ELSE IF n > 1 THEN SplitByRatio(q, NeedOn(n), drift)
                    ELSE IF m.nExpert = 0 \/ me.unified
                    THEN Refusal("GPU is short", NeedOn(1), hostRam)
                    ELSE IF ~BucketsConsistent(m)
                    THEN Refusal("expert layout unknown", NeedOn(1), hostRam)
                    ELSE SingleHybrid(m, me, hostRam, NeedOn(1), me.vram)
=============================================================================
