------------------------------ MODULE Placement -----------------------------
(* The exact placement of src/src/common/plan.c: when a split by ratio does  *)
(* not fit, every machine gets a contiguous range of whole blocks and keeps  *)
(* the experts of its first blocks in its own RAM.  A dynamic program finds  *)
(* the ranges that use the least RAM for a given expert cache, and a binary  *)
(* search the largest cache every owner can keep.                            *)
(*                                                                           *)
(* A question q holds the model q.m, the machines in order of participation  *)
(* (q.nodes, the coordinator first; q.order names them in the caller's list),*)
(* the window q.ctx, the backend it is priced for, and the draft head's host *)
(* workspace on the coordinator's side it falls on (q.hostGpu, q.hostRam).   *)
EXTENDS MemoryNeed

SumSeq(s) == SumOver(s, 1, Len(s))
Refusal(why, gpu, ram) == [kind |-> "refuse", why |-> why, gpu |-> gpu, ram |-> ram]
NumBlocks(m) == Len(m.weights)

-----------------------------------------------------------------------------
(* The exact placement: contiguous block ranges, one per machine in the order *)
(* of participation, each owner moving the shortest prefix of its own experts *)
(* into its own RAM.  What of the bytes an owner holds for blocks lo+1..hi:   *)
OwnerBytes(q, i, lo, hi) ==
    LET m == q.m IN
    Overhead + SumOver(m.weights, lo + 1, hi)
    + ComputeBytes(m, q.ctx, q.backend) + MtpCompute(m, q.ctx, q.backend)
    + CeilDiv(KvBytes(m, q.ctx) * (hi - lo), NumBlocks(m))
    + (IF i = 1 THEN m.shared + m.mmproj + q.hostGpu
                     + MtpBytes(m, q.ctx, q.backend) - MtpCompute(m, q.ctx, q.backend)
       ELSE 0)

\* An owner with the experts of lo+1..c in RAM: on its GPU, and what must fit there.
Rest(q, i, lo, hi, c) == Floor0(OwnerBytes(q, i, lo, hi) - SumOver(q.m.experts, lo + 1, c))
OnGpu(q, i, lo, hi, c) == Rest(q, i, lo, hi, c) + Staging(Geometry(q.m, lo, c))
Gate(q, i, lo, hi, c, slots) ==
    IF c = lo THEN OwnerBytes(q, i, lo, hi)
    ELSE OnGpu(q, i, lo, hi, c) + CacheNeed(Geometry(q.m, lo, c), slots)

HoldsExperts(node) == ~node.unified /\ node.backend = "cuda" /\ node.ram > 0
\* Mutant: the coordinator's RAM is offered whole beside its draft head.
OwnerWhole(q, i) == q.nodes[i]
Owner(q, i) == IF i = 1 THEN LessHost(q.nodes[1], q.hostRam) ELSE q.nodes[i]

\* The end of the prefix an owner moves, or -1 when the range cannot be its own.
ShortestFit(m, owner, lo, fits) ==
    IF lo \in fits THEN lo
    ELSE IF ~HoldsExperts(owner) \/ fits = {} THEN -1
    ELSE IF SumOver(m.experts, lo + 1, Min(fits)) > RamCap(owner) THEN -1 ELSE Min(fits)
SpillEnd(q, i, lo, hi, slots) ==
    ShortestFit(q.m, Owner(q, i), lo,
                {c \in lo..hi : Gate(q, i, lo, hi, c, slots) <= Owner(q, i).vram})

NoRange == [cost |-> -1, worst |-> 0, lo |-> -1, spillEnd |-> -1]
RangeFrom(q, i, lo, hi, c, sofar) ==
    [cost |-> sofar.cost + SumOver(q.m.experts, lo + 1, c),
     worst |-> Larger(OnGpu(q, i, lo, hi, c), sofar.worst), lo |-> lo, spillEnd |-> c]

\* Mutant: the range before is taken as short as it can be.
BestRangeGreedy(q, before, i, hi, slots) ==
    LET Cell(lo) == RangeFrom(q, i, lo, hi, SpillEnd(q, i, lo, hi, slots), before[lo])
        usable == {lo \in (i - 1)..(hi - 1) :
                      before[lo].cost >= 0 /\ SpillEnd(q, i, lo, hi, slots) >= 0}
    IN  IF usable = {} THEN NoRange ELSE Cell(Min(usable))

\* The cell of owner i ending at block hi: the least RAM, then the least worst GPU.
LeastCostly(cells) ==
    IF cells = {} THEN NoRange
    ELSE CHOOSE a \in cells : \A b \in cells :
            \/ a.cost < b.cost
            \/ a.cost = b.cost /\ a.worst < b.worst
            \/ a.cost = b.cost /\ a.worst = b.worst /\ a.lo <= b.lo
BestRange(q, before, i, hi, slots) ==
    LET Cell(lo) == RangeFrom(q, i, lo, hi, SpillEnd(q, i, lo, hi, slots), before[lo])
        usable == {lo \in (i - 1)..(hi - 1) :
                      before[lo].cost >= 0 /\ SpillEnd(q, i, lo, hi, slots) >= 0}
    IN  LeastCostly({Cell(lo) : lo \in usable})

NextRow(q, before, i, slots) ==
    [hi \in 0..NumBlocks(q.m) |->
        IF hi \in i..(NumBlocks(q.m) - (Len(q.nodes) - i))
        THEN BestRange(q, before, i, hi, slots) ELSE NoRange]
Table(q, slots) ==
    LET first == [l \in 0..NumBlocks(q.m) |-> IF l = 0 THEN [NoRange EXCEPT !.cost = 0] ELSE NoRange]
        row[i \in 0..Len(q.nodes)] ==
            IF i = 0 THEN first ELSE NextRow(q, row[i - 1], i, slots)
    IN  row

\* The boundaries read back from the last cell, and the ranges they make.
ReadBack(row, n, L) ==
    LET cut[i \in 0..n] == IF i = n THEN L ELSE row[i + 1][cut[i + 1]].lo
    IN  IF row[n][L].cost < 0 THEN <<>>
        ELSE [i \in 1..n |-> [lo |-> cut[i - 1], hi |-> cut[i],
                              spillEnd |-> row[i][cut[i]].spillEnd]]
Ranges(q, slots) == ReadBack(Table(q, slots), Len(q.nodes), NumBlocks(q.m))

\* Whether there is anything to search: experts, a sound layout, a machine with RAM.
Placeable(q) ==
    /\ q.m.nExpert > 0 /\ BucketsConsistent(q.m)
    /\ NumBlocks(q.m) >= Len(q.nodes)
    /\ q.m.mtp.on => q.m.mtp.weights <= q.m.shared
    /\ \E i \in DOMAIN q.nodes : HoldsExperts(q.nodes[i])

TryRanges(q, slots) == IF Placeable(q) THEN Ranges(q, slots) ELSE <<>>

-----------------------------------------------------------------------------
Works(q, slots) == TryRanges(q, slots) # <<>>
\* Mutant: the search stops one step early.
HalveShort(q, s) ==
    LET mid == s.lo + (s.hi - s.lo) \div 2
    IN  IF s.lo >= s.hi THEN s
        ELSE IF Works(q, mid) THEN [s EXCEPT !.lo = mid + 1, !.best = mid]
        ELSE [s EXCEPT !.hi = mid - 1]

Halve(q, s) ==
    LET mid == s.lo + (s.hi - s.lo) \div 2
    IN  IF s.lo > s.hi THEN s
        ELSE IF Works(q, mid) THEN [s EXCEPT !.lo = mid + 1, !.best = mid]
        ELSE [s EXCEPT !.hi = mid - 1]

\* The strict cache, else the largest common cache that covers a route, else none: a
\* binary search, over in fewer rounds than there are sizes.
LargestCommonCache(q) ==
    LET target == CacheTarget(q.m)
        search[k \in 0..target] ==
            IF k = 0 THEN [lo |-> q.m.nUsed + 1, hi |-> target - 1, best |-> q.m.nUsed]
            ELSE Halve(q, search[k - 1])
    IN  IF Works(q, target) THEN target
        ELSE IF q.m.nUsed < target /\ Works(q, q.m.nUsed) THEN search[target].best
        ELSE 0

\* What stays on the GPUs with every expert in RAM, for the refusal's figures.
Resident(q) ==
    LET m == q.m IN
    q.hostGpu + MtpBytes(m, q.ctx, q.backend) - MtpCompute(m, q.ctx, q.backend)
    + m.mmproj + Floor0(m.total - m.expertTotal) + KvBytes(m, q.ctx)
    + Len(q.nodes) * (ComputeBytes(m, q.ctx, q.backend)
                      + MtpCompute(m, q.ctx, q.backend) + Overhead)

\* A cut half a block before the boundary, so that no ratio falls on a block's position.
CutShares(q, ranges) ==
    LET n == Len(q.nodes)
        all == 2 * (NumBlocks(q.m) + q.m.mtp.layers + 1)
        cut == [i \in 0..n |-> IF i = 0 THEN 0 ELSE IF i = n THEN all ELSE 2 * ranges[i].hi - 1]
    IN  [i \in 1..n |-> cut[i] - cut[i - 1]]

Placed(q, why, gpu, slots, ranges) ==
    LET GpuOf(i) == OnGpu(q, i, ranges[i].lo, ranges[i].hi, ranges[i].spillEnd)
        RamOf(i) == SumOver(q.m.experts, ranges[i].lo + 1, ranges[i].spillEnd)
        each == DOMAIN q.nodes
    IN  IF ranges = <<>>
        THEN IF Placeable(q) THEN Refusal(why, Resident(q), q.m.expertTotal + q.hostRam)
             ELSE Refusal(why, gpu, q.hostRam)
        ELSE [kind |-> "cluster", why |-> "exact ranges", order |-> q.order,
              ranges |-> ranges, slots |-> slots,
              shares |-> CutShares(q, ranges), gpuOf |-> [i \in each |-> GpuOf(i)],
              ramOf |-> [i \in each |-> RamOf(i)],
              hybrid |-> \E i \in each : RamOf(i) > 0, headLocal |-> TRUE,
              gpu |-> SumSeq([i \in each |-> GpuOf(i)]),
              ram |-> SumSeq([i \in each |-> RamOf(i)]) + q.hostRam]
PlaceExactly(q, why, gpu) ==
    LET With(slots) == Placed(q, why, gpu, slots, TryRanges(q, slots))
    IN  With(LargestCommonCache(q))
=============================================================================
