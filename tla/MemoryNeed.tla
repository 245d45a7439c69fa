----------------------------- MODULE MemoryNeed -----------------------------
(* What a model needs of a machine's memory: src/src/common/plan.c.          *)
(*                                                                           *)
(* A model m is the record idletoken_llm_model_size: its file (total bytes,  *)
(* the bytes of each block, of the routed experts in it, and what no block   *)
(* owns), its cache, its measured workspaces by context tier and backend,    *)
(* its vision tower and its draft head (MTP).  A machine is a record of its  *)
(* usable memories.  Bytes are counted in a coarse unit and tokens in blocks *)
(* of 64K, where the 256-cell rounding of the DeepSeek caches is exact; the  *)
(* sums stay far below 2^64, so the code's saturating sums are plain sums.   *)
EXTENDS Integers, Sequences, FiniteSetsExt

CONSTANTS
    Overhead,      \* a CUDA context and the margin, on every machine
    PoolReserve,   \* what the engine leaves free beside an expert pool
    AllocTail      \* the tail of every allocation of the pool

ASSUME NeedAssumption == Overhead \in Nat /\ PoolReserve \in Nat /\ AllocTail \in Nat

Unmeasured == -1
Floor0(x) == IF x < 0 THEN 0 ELSE x
Larger(a, b) == IF a > b THEN a ELSE b
Smaller(a, b) == IF a < b THEN a ELSE b
CeilDiv(a, b) == (a + b - 1) \div b
SumOver(s, lo, hi) ==
    LET sum[k \in 0..Len(s)] == IF k < lo THEN 0 ELSE sum[k - 1] + s[k]
    IN  sum[hi]

-----------------------------------------------------------------------------
\* The three windows the product offers, and the measurement that prices a window.
Tiers == {2, 4, 16}
CtxTierOf(ctx) ==
    IF ctx \in 1..4 THEN Min({t \in Tiers : ctx <= t})
    ELSE IF ctx = 16 THEN 16 ELSE 0

\* An unknown backend is charged the larger figure, and nothing when one is missing.
Measured(table, ctx, backend) ==
    LET t == CtxTierOf(ctx)
    IN  IF t = 0 THEN 0
        ELSE IF backend # "unknown" THEN table[t][backend]
        ELSE IF table[t].cuda = 0 \/ table[t].metal = 0 THEN 0
        ELSE Larger(table[t].cuda, table[t].metal)

ComputeBytes(m, ctx, backend) == Measured(m.compute, ctx, backend)

MtpCompute(m, ctx, backend) ==
    IF m.mtp.on THEN Measured(m.mtp.compute, ctx, backend) ELSE 0

MtpHost(m, ctx, backend) ==
    LET t == CtxTierOf(ctx)
    IN  IF ~m.mtp.on \/ t = 0 THEN 0
        ELSE IF backend # "unknown" THEN m.mtp.host[t][backend]
        ELSE Larger(m.mtp.host[t].cuda, m.mtp.host[t].metal)

\* What the draft head adds to the file; Unmeasured when its geometry is incomplete.
MtpBytes(m, ctx, backend) ==
    IF ~m.mtp.on THEN 0
    ELSE IF \/ m.mtp.layers = 0 /\ m.mtp.external = 0
            \/ m.mtp.weights = 0 /\ m.mtp.external = 0
            \/ m.mtp.weights > m.total
            \/ m.mtp.kv = 0
            \/ MtpCompute(m, ctx, backend) = 0
    THEN Unmeasured
    ELSE m.mtp.external + MtpCompute(m, ctx, backend) + m.mtp.kv * ctx

\* One sequence's cache: linear in the window, or the three DeepSeek caches.
KvBytes(m, ctx) ==
    m.kvFixed + ctx * (IF m.raw # 0 THEN m.raw + m.csa + m.hca ELSE m.kv)

\* The workspace and the context are paid by every machine, the rest once.
Needed(m, ctx, n, backend, unified) ==
    m.total + KvBytes(m, ctx)
    + n * (ComputeBytes(m, ctx, backend) + Overhead)
    + m.mmproj + MtpBytes(m, ctx, backend)
    + (n - 1) * MtpCompute(m, ctx, backend)
    + (IF unified THEN MtpHost(m, ctx, backend) ELSE 0)

\* One backend for the whole roster, or the unknown one.
RosterBackend(nodes) ==
    IF \A i \in DOMAIN nodes : nodes[i].backend = nodes[1].backend
    THEN nodes[1].backend ELSE "unknown"

-----------------------------------------------------------------------------
\* The weight's precision decides the cache's type, and with it the cache's size:
\* halves, quarters or nothing of the f16 cells (the f32 state is left alone).
KvTierForWeight(bits) ==
    IF bits \in 1..2 THEN "q4_0" ELSE IF bits \in 3..15 THEN "q8_0" ELSE "f16"
KvScale(m, bits) ==
    LET k == CASE KvTierForWeight(bits) = "q4_0" -> 18
               [] KvTierForWeight(bits) = "q8_0" -> 34
               [] OTHER -> 64
        Scaled(b) == (2 * b * k + 64) \div 128
    IN  [m EXCEPT !.kv = Scaled(@), !.raw = Scaled(@),
                  !.csa = Scaled(@), !.hca = Scaled(@)]

-----------------------------------------------------------------------------
(* The expert cache: the geometry of the experts of blocks lo+1..hi that live *)
(* in RAM, and what a cache of so many slots over them takes of the GPU.      *)
GeometryOf(m, l) == <<m.slot[l], m.tensor[l], m.count[l]>>
GeometrySound(m, l) ==
    IF m.experts[l] = 0 THEN GeometryOf(m, l) = <<0, 0, 0>>
    ELSE /\ 0 \notin {m.slot[l], m.tensor[l], m.count[l]}
         /\ m.tensor[l] <= m.experts[l] /\ m.slot[l] <= m.experts[l]

Geometry(m, lo, hi) ==
    [slot |-> SumOver(m.slot, lo + 1, hi), weights |-> SumOver(m.count, lo + 1, hi),
     tensor |-> Max({0} \cup {m.tensor[l] : l \in (lo + 1)..hi})]

Staging(g) == IF g.weights = 0 THEN 0 ELSE g.tensor + AllocTail
CacheFixed(g) ==
    IF g.weights = 0 THEN 0 ELSE PoolReserve + g.tensor + (g.weights + 1) * AllocTail
CacheNeed(g, slots) == IF slots = 0 THEN 0 ELSE CacheFixed(g) + g.slot * slots

\* Two whole routes, or a third of the experts, whichever is more.
CacheTarget(m) ==
    IF m.nExpert = 0 \/ m.nUsed = 0 \/ m.nUsed > m.nExpert THEN 0
    ELSE Larger(Smaller(2 * m.nUsed, m.nExpert), CeilDiv(m.nExpert, 3))

\* The buckets read from the file (or spread from the manifest) must add up.
BucketsConsistent(m) ==
    LET L == Len(m.weights) IN
    /\ m.exact \/ m.estimated
    /\ m.expertTotal # 0 /\ m.expertTotal <= m.total
    /\ \A l \in 1..L : m.weights[l] >= m.experts[l] /\ GeometrySound(m, l)
    /\ SumOver(m.experts, 1, L) = m.expertTotal
    /\ m.shared + SumOver(m.weights, 1, L) = m.total
    /\ CacheTarget(m) # 0 /\ SumOver(m.slot, 1, L) > 0

\* Usable RAM, and no more of it than the GPU could page-lock when that was measured.
RamCap(node) ==
    IF node.pin > 0 THEN Smaller(node.ram, node.pin) ELSE node.ram
\* The host workspace of the draft head comes off the coordinator's RAM first.
LessHost(node, host) ==
    [node EXCEPT !.ram = @ - host,
                 !.pin = IF @ = 0 THEN 0 ELSE IF @ > host THEN @ - host ELSE 1]
=============================================================================
