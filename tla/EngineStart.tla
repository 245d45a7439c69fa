----------------------------- MODULE EngineStart ----------------------------
(* A coordinator deciding how to run a model: the plan for the machines it    *)
(* has (src/src/common/plan.c), then the engine's launch from the plan        *)
(* (src/src/coord/coord_main.c): the roster the coordinator plans on, the     *)
(* devices, ratios and overrides it names, the block ranges it tells the      *)
(* workers to validate, by the engine's own rule for placing blocks as plan.c *)
(* repeats it, and the checks before the start; and, for a pipeline of       *)
(* stages, the counts of layers.  What the answers promise is stated by brute *)
(* force: every contiguous placement, with every prefix of experts in RAM,    *)
(* is compared.                                                               *)
EXTENDS Planner, SequencesExt

CONSTANTS
    Models,         \* the models by name
    Questions       \* about the engine: a model, the machines, a window;
                    \* about a pipeline: the layers and the stages' memories

\* A model as it is described (idletoken_llm_model_size), with a block at the least, and a
\* machine (idletoken_node_mem).
Figures == [Tiers -> [cuda : Nat, metal : Nat]]
ModelSize ==
    [weights : Seq(Nat), experts : Seq(Nat), slot : Seq(Nat), tensor : Seq(Nat), count : Seq(Nat),
     shared : Nat, total : Nat, expertTotal : Nat, nExpert : Nat, nUsed : Nat,
     exact : BOOLEAN, estimated : BOOLEAN, kv : Nat, kvFixed : Nat, raw : Nat, csa : Nat, hca : Nat,
     mmproj : Nat, compute : Figures,
     mtp : [on : BOOLEAN, layers : Nat, weights : Nat, external : Nat, kv : Nat,
            compute : Figures, host : Figures]]
NodeMem ==
    [vram : Nat, ram : Nat, pin : Nat, unified : BOOLEAN, backend : {"cuda", "metal", "unknown"},
     cpu : BOOLEAN]
OfEngine ==
    [about : {"engine"}, model : DOMAIN Models, me : NodeMem, workers : Seq(NodeMem), ctx : Nat,
     force : BOOLEAN, drift : Seq({0, 1}), gpuLayers : Nat]
OfPipeline ==
    [about : {"pipeline"}, layers : Nat, vrams : Seq(Nat), reserved : Nat, perLayer : Nat \ {0},
     multiple : Nat]
ASSUME QuestionsAssumption ==
    /\ \A name \in DOMAIN Models :
          LET m == Models[name]
          IN  /\ m \in ModelSize /\ NumBlocks(m) > 0
              /\ \A s \in {m.experts, m.slot, m.tensor, m.count} : Len(s) = NumBlocks(m)
    /\ \A a \in Questions : \/ a \in OfEngine /\ Len(a.drift) = Len(a.workers) + 1
                            \/ a \in OfPipeline

-----------------------------------------------------------------------------
(***************************************************************************)
(* From a plan to the engine's command line.                               *)
(***************************************************************************)
\* The machines as the planner is given them: the coordinator, then the workers.
\* Only a discrete CUDA worker whose rpc-server offers its CPU lends its RAM.
Roster(me, workers) ==
    <<me>> \o [i \in DOMAIN workers |->
        [workers[i] EXCEPT !.ram = IF /\ workers[i].cpu
                                      /\ ~workers[i].unified
                                      /\ workers[i].backend = "cuda"
                                   THEN @ ELSE 0]]

-----------------------------------------------------------------------------
\* Where the engine puts block il (counted from 0) of so many: the first device whose
\* cumulative share lies beyond the block's position.  Blocks before the first that
\* goes to a GPU have no device.
Prefix(blocks, gpuLayers) == Floor0(blocks + 1 - gpuLayers)
DeviceOf(blocks, gpuLayers, shares, il) ==
    LET start == Prefix(blocks, gpuLayers)
        active == Smaller(gpuLayers, blocks + 1)
        beyond == {d \in DOMAIN shares :
                      (il - start) * SumSeq(shares) < SumOver(shares, 1, d) * active}
    IN  IF il < start \/ il - start >= active THEN 0
        ELSE IF beyond = {} THEN Len(shares) ELSE Min(beyond)

DeviceLayerRange(blocks, gpuLayers, shares, devices) ==
    LET own == {il \in 0..(blocks - 1) : DeviceOf(blocks, gpuLayers, shares, il) \in devices}
    IN  IF own = {} THEN [lo |-> blocks, hi |-> blocks]
        ELSE [lo |-> Min(own), hi |-> Max(own) + 1]

-----------------------------------------------------------------------------
\* The devices in the order of --device: the local GPU, then every worker's GPU and,
\* behind a worker that keeps experts, its CPU with no share.
UsesCpu(plan, i) == i > 1 /\ plan.hybrid /\ plan.ramOf[i] > 0
Devices(plan) ==
    FlattenSeq([i \in DOMAIN plan.order |->
        <<[node |-> i, kind |-> "gpu", share |-> plan.shares[i]]>>
        \o (IF UsesCpu(plan, i) THEN <<[node |-> i, kind |-> "cpu", share |-> 0]>> ELSE <<>>)])

\* Mutant: only the devices named are counted.
RpcNumberNamed(workers, plan, i, kind) ==
    LET before == {k \in 2..(i - 1) : UsesCpu(plan, k)}
    IN  (i - 2) + Cardinality(before) + (IF kind = "cpu" THEN 1 ELSE 0)

\* Registering an endpoint numbers all the devices it exposes, those not named too.
RpcNumber(workers, plan, i, kind) ==
    LET before == {k \in 2..(i - 1) : workers[plan.order[k] - 1].cpu}
    IN  (i - 2) + Cardinality(before) + (IF kind = "cpu" THEN 1 ELSE 0)

\* The engine's side of the numbering.
Registered(workers, plan) ==
    FlattenSeq([w \in 1..(Len(plan.order) - 1) |->
        <<[node |-> w + 1, kind |-> "gpu"]>>
        \o (IF workers[plan.order[w + 1] - 1].cpu THEN <<[node |-> w + 1, kind |-> "cpu"]>> ELSE <<>>)])

\* What each participant is told to hold, clamped to the model's own blocks.
Clamp(m, r) == [lo |-> Smaller(r.lo, NumBlocks(m)), hi |-> Smaller(r.hi, NumBlocks(m))]
RangeOf(m, plan, gpuLayers, i) ==
    LET devices == Devices(plan)
        mine == {d \in DOMAIN devices : devices[d].node = i}
    IN  Clamp(m, DeviceLayerRange(NumBlocks(m) + m.mtp.layers, gpuLayers,
                                  [d \in DOMAIN devices |-> devices[d].share], mine))

\* The coordinator's interval extends what the CPU keeps; every following machine
\* continues it, and the last block ends it.
IsPartition(m, ranges, prefix) ==
    LET local == IF ranges[1].lo < NumBlocks(m) THEN ranges[1].hi ELSE prefix
        next[i \in 1..Len(ranges)] ==
          IF i = 1 THEN local
          ELSE IF ranges[i].lo = ranges[i].hi THEN next[i - 1] ELSE ranges[i].hi
    IN  /\ ranges[1].lo < NumBlocks(m) => ranges[1].lo = prefix
        /\ \A i \in 2..Len(ranges) :
              ranges[i].lo # ranges[i].hi => ranges[i].lo = next[i - 1]
        /\ next[Len(ranges)] = NumBlocks(m)

\* Experts of an owner's cache the launch announces: what is left of the GPU, less
\* the pool's own fixed cost, in whole experts.
PoolExperts(m, free, lo, hi) ==
    LET g == Geometry(m, lo, hi)
        room == Floor0(free - CacheFixed(g))
    IN  IF g.slot = 0 THEN 0 ELSE Smaller(m.nExpert, room \div g.slot)
UsefulPool(m, experts) == IF experts >= m.nUsed THEN experts ELSE 0

NotStarted(why) == [started |-> FALSE, why |-> why]

\* Alone: the prefix and the expert pool reserved for it.
LaunchAlone(m, node, plan) ==
    IF m.estimated THEN NotStarted("layout only estimated")
    ELSE [started |-> TRUE, why |-> "", blocks |-> plan.blocks,
          pool |-> IF plan.blocks = 0 THEN 0
                   ELSE UsefulPool(m, PoolExperts(m, node.vram - plan.gpu, 0, plan.blocks))]

\* The launch of a cluster plan, or the reason the coordinator does not start it.
Launch(m, workers, nodes, plan, gpuLayers) ==
    LET each == DOMAIN plan.order
        ranges == [i \in each |-> RangeOf(m, plan, gpuLayers, i)]
        asPlanned == \A i \in each :
            /\ ranges[i].lo = plan.ranges[i].lo
            /\ ranges[i].hi = plan.ranges[i].hi
        Pool1(i) == UsefulPool(m, PoolExperts(m, nodes[plan.order[i]].vram - plan.gpuOf[i],
                                              plan.ranges[i].lo, plan.ranges[i].spillEnd))
    IN  CASE m.estimated -> NotStarted("layout only estimated")
          [] ~m.estimated /\ plan.order[1] # 1 -> NotStarted("layer 0")
          [] ~m.estimated /\ plan.order[1] = 1 ->
             IF \E i \in each : UsesCpu(plan, i) /\ ~workers[plan.order[i] - 1].cpu
             THEN NotStarted("worker without expert RAM")
             ELSE IF plan.hybrid /\ ~asPlanned
             THEN NotStarted("ranges moved")
             ELSE IF ~IsPartition(m, ranges, Prefix(NumBlocks(m) + m.mtp.layers, gpuLayers))
             THEN NotStarted("not a partition")
             ELSE [started |-> TRUE, why |-> "", ranges |-> ranges,
                   headOverride |-> plan.hybrid,
                   devices |-> [d \in DOMAIN Devices(plan) |->
                       LET dev == Devices(plan)[d]
                       IN  IF dev.node = 1 THEN [node |-> 1, number |-> -1, kind |-> dev.kind]
                           ELSE [node |-> dev.node, kind |-> dev.kind, number |->
                                 RpcNumber(workers, plan, dev.node, dev.kind)]],
                   experts |-> IF plan.hybrid
                               THEN [i \in each |->
                                     IF plan.ramOf[i] > 0
                                     THEN [lo |-> plan.ranges[i].lo,
                                           hi |-> plan.ranges[i].spillEnd]
                                     ELSE [lo |-> 0, hi |-> 0]]
                               ELSE [i \in each |-> [lo |-> 0, hi |-> 0]],
                   pool |-> IF plan.hybrid THEN [i \in each |-> Pool1(i)]
                            ELSE [i \in each |-> 0]]

-----------------------------------------------------------------------------
\* The split of a model's layers over pipeline stages as idletoken_plan_layers makes it:
\* proportional shares, the remainder to the front, overshoot taken from the back, the excess
\* over a stage's capacity moved where there is room, and the cuts nudged to a multiple.
Weight(vram) == IF vram = 0 THEN 1 ELSE vram
Bump(c, i, by) == [c EXCEPT ![i] = @ + by]

\* The layers a stage can hold, one at the least.
LayerCap(vram, reserved, perLayer) ==
    IF Weight(vram) <= reserved + perLayer THEN 1 ELSE (Weight(vram) - reserved) \div perLayer

Shares(layers, vrams) ==
    LET w == [i \in DOMAIN vrams |-> Weight(vrams[i])]
        share(i) == (layers * w[i]) \div SumSeq(w)
    IN  [i \in DOMAIN vrams |-> IF share(i) < 1 THEN 1 ELSE share(i)]

\* Round after round from the front while some are left over.
HandOut(c, layers) ==
    LET over == Floor0(layers - SumSeq(c))
        given[k \in 0..over] == IF k = 0 THEN c ELSE Bump(given[k - 1], 1 + ((k - 1) % Len(c)), 1)
    IN  given[over]
\* Then from the back while there are too many: a round takes one layer at the least.
TakeOne(c, i, layers) == IF SumSeq(c) > layers /\ c[i] > 1 THEN Bump(c, i, -1) ELSE c
OneRound(c, layers) ==
    LET taken[k \in 0..Len(c)] ==
            IF k = 0 THEN c ELSE TakeOne(taken[k - 1], Len(c) + 1 - k, layers)
    IN  taken[Len(c)]
ClawBack(c, layers) ==
    LET over == Floor0(SumSeq(c) - layers)
        taken[k \in 0..over] == IF k = 0 THEN c ELSE OneRound(taken[k - 1], layers)
    IN  taken[over]

\* What is over a stage's capacity goes, layer by layer, to the first stage with headroom.
MoveOne(c, caps, i) ==
    LET free == {j \in DOMAIN c : j # i /\ c[j] < caps[j]}
    IN  IF c[i] > caps[i] /\ free # {} THEN Bump(Bump(c, Min(free), 1), i, -1) ELSE c
Relieve(c, caps, i) ==
    LET eased[k \in 0..c[i]] == IF k = 0 THEN c ELSE MoveOne(eased[k - 1], caps, i)
    IN  eased[c[i]]
Repair(c, caps) ==
    LET repaired[i \in 0..Len(c)] == IF i = 0 THEN c ELSE Relieve(repaired[i - 1], caps, i)
    IN  repaired[Len(c)]

\* A cut moves to the nearest multiple when both sides stay within their bounds.
SnapCut(c, caps, k, i) ==
    LET rem == SumOver(c, 1, i) % k
        grow == Bump(Bump(c, i, k - rem), i + 1, rem - k)
        shrink == Bump(Bump(c, i, -rem), i + 1, rem)
    IN  IF rem = 0 THEN c
        ELSE IF k - rem <= rem /\ grow[i] <= caps[i] /\ grow[i + 1] >= 1 THEN grow
        ELSE IF shrink[i] >= 1 /\ shrink[i + 1] <= caps[i + 1] THEN shrink
        ELSE c
Snap(c, caps, k) ==
    LET snapped[i \in 0..(Len(c) - 1)] == IF i = 0 THEN c ELSE SnapCut(snapped[i - 1], caps, k, i)
    IN  IF k <= 1 THEN c ELSE snapped[Len(c) - 1]

PlanLayers(layers, vrams, reserved, perLayer, multiple) ==
    LET n == Len(vrams)
        caps == [i \in 1..n |-> LayerCap(vrams[i], reserved, perLayer)]
        even == ClawBack(HandOut(Shares(layers, vrams), layers), layers)
    IN  IF n = 0 \/ n > layers THEN <<>>
        ELSE Snap(Repair(even, caps), caps, multiple)

-----------------------------------------------------------------------------
VARIABLES ask, plan, launch
startVars == <<ask, plan, launch>>

Nothing == [kind |-> "none"]
M(a) == Models[a.model]
Nodes(a) == Roster(a.me, a.workers)

StartInit ==
    /\ ask \in Questions
    /\ plan = Nothing /\ launch = Nothing

Decide ==
    /\ ask.about = "engine" /\ plan = Nothing
    /\ plan' = Plan(M(ask), Nodes(ask), 1, ask.ctx, ask.force, ask.drift)
    /\ UNCHANGED <<ask, launch>>

Start ==
    /\ ask.about = "engine" /\ launch = Nothing
    /\ \/ plan.kind = "single" /\ launch' = LaunchAlone(M(ask), ask.me, plan)
       \/ plan.kind = "cluster"
          /\ launch' = Launch(M(ask), ask.workers, Nodes(ask), plan, ask.gpuLayers)
    /\ UNCHANGED <<ask, plan>>

CountLayers ==
    /\ ask.about = "pipeline" /\ plan = Nothing
    /\ plan' = [kind |-> "layers", counts |->
                PlanLayers(ask.layers, ask.vrams, ask.reserved, ask.perLayer, ask.multiple)]
    /\ UNCHANGED <<ask, launch>>

StartNext == Decide \/ Start \/ CountLayers
StartSpec == StartInit /\ [][StartNext]_startVars

-----------------------------------------------------------------------------
HostOf(a) == MtpHost(M(a), a.ctx, RosterBackend(Nodes(a)))
HostRamOf(a) == IF a.me.unified THEN 0 ELSE HostOf(a)
Blocks(a) == NumBlocks(M(a))

\* The question the exact placement answers, for machines in an order.
Placing(a, order) ==
    [m |-> M(a), order |-> order, ctx |-> a.ctx,
     nodes |-> [i \in DOMAIN order |-> Nodes(a)[order[i]]],
     backend |-> RosterBackend(Nodes(a)),
     hostGpu |-> HostOf(a) - HostRamOf(a), hostRam |-> HostRamOf(a)]

\* Every way to give the machines consecutive, nonempty ranges of blocks and keep
\* some first blocks' experts of each in its RAM, with room for so many slots.
Cuts(n, L) == {c \in [0..n -> 0..L] :
                  c[0] = 0 /\ c[n] = L /\ \A i \in 1..n : c[i - 1] < c[i]}
OwnerCan(q, i, lo, hi, c, slots) ==
    /\ Gate(q, i, lo, hi, c, slots) <= Owner(q, i).vram
    /\ c > lo => /\ HoldsExperts(Owner(q, i))
                 /\ SumOver(q.m.experts, lo + 1, c) <= RamCap(Owner(q, i))
RamUsed(q, i, lo, hi, slots) ==
    {SumOver(q.m.experts, lo + 1, c) : c \in {x \in lo..hi : OwnerCan(q, i, lo, hi, x, slots)}}
Feasible(q, slots) ==
    {c \in Cuts(Len(q.nodes), NumBlocks(q.m)) :
        \A i \in DOMAIN q.nodes : RamUsed(q, i, c[i - 1], c[i], slots) # {}}
LeastRamOf(q, c, slots) ==
    SumSeq([i \in DOMAIN q.nodes |-> Min(RamUsed(q, i, c[i - 1], c[i], slots))])

IsExact == plan.kind = "cluster" /\ plan.ranges # <<>>

\* Experts of so many bytes beside the draft head's workspace, in what a machine offers.
InRam(node, experts, host) ==
    /\ experts + host <= node.ram
    /\ node.pin > 0 => experts <= node.pin

\* A plan fits the machines it names, each named once: no owner is given more than its own GPU,
\* nor more experts than the RAM it offers and may pin, and nothing of the model is left
\* out or counted twice (plan.c: "a successful plan must fit every physical owner, not
\* merely the sum").  A pipeline's layers are all handed out, one a stage at least, and
\* no stage is over its capacity when together they have room.
SingleFits(a, p) ==
    /\ p.gpu <= a.me.vram
    /\ InRam(a.me, p.ram - HostRamOf(a), HostRamOf(a))
ClusterFits(a, p) ==
    LET q == Placing(a, p.order)
        each == DOMAIN q.nodes
    IN  /\ IsInjective(p.order)
        /\ \A i \in each :
              /\ p.gpuOf[i] <= q.nodes[i].vram
              /\ InRam(q.nodes[i], p.ramOf[i], IF i = 1 THEN q.hostRam ELSE 0)
        /\ p.ranges = <<>> =>
              SumSeq(p.gpuOf) = Needed(M(a), a.ctx, Len(q.nodes), q.backend, a.me.unified)
        /\ p.ranges # <<>> =>
              \A i \in each :
                  /\ p.ranges[i].lo < p.ranges[i].hi
                  /\ p.ranges[i].lo = IF i = 1 THEN 0 ELSE p.ranges[i - 1].hi
                  /\ i = Len(q.nodes) => p.ranges[i].hi = Blocks(a)
LayersFit(a, c) ==
    LET caps == [i \in DOMAIN c |-> LayerCap(a.vrams[i], a.reserved, a.perLayer)]
    IN  c # <<>> => /\ SumSeq(c) = a.layers
                    /\ \A i \in DOMAIN c : c[i] >= 1
                    /\ SumSeq(caps) >= a.layers => \A i \in DOMAIN c : c[i] <= caps[i]
PlanFits ==
    /\ plan.kind = "single" => SingleFits(ask, plan)
    /\ plan.kind = "cluster" => ClusterFits(ask, plan)
    /\ plan.kind = "layers" => LayersFit(ask, plan.counts)

\* The ranges found use the least RAM of all placements with the same cache, and a
\* cluster with experts to move is refused only when there is no placement at all
\* (plan.c, try_cluster_moe_hybrid: the fewest total RAM bytes).
LeastRam ==
    /\ IsExact =>
        LET q == Placing(ask, plan.order)
        IN  \A c \in Feasible(q, plan.slots) :
                SumSeq(plan.ramOf) <= LeastRamOf(q, c, plan.slots)
    /\ plan.kind = "refuse" /\ Len(Nodes(ask)) > 1 /\ ask.me.vram > 0
        /\ ComputeBytes(M(ask), ask.ctx, RosterBackend(Nodes(ask))) > 0
        /\ MtpBytes(M(ask), ask.ctx, RosterBackend(Nodes(ask))) # Unmeasured
        /\ ask.me.ram >= HostRamOf(ask) =>
        LET q == Placing(ask, Order(Nodes(ask), 1))
        IN  Placeable(q) => Feasible(q, 0) = {}

\* No placement could keep a larger useful expert cache than the one planned, up to
\* the target (plan.c, "the largest common target", the single machine's scan).
LargestCache ==
    /\ IsExact =>
        LET q == Placing(ask, plan.order)
        IN  \A s \in Larger(plan.slots + 1, M(ask).nUsed)..CacheTarget(M(ask)) :
                Feasible(q, s) = {}
    /\ plan.kind = "single" /\ plan.why = "experts in RAM" =>
        \A s \in Larger(plan.slots + 1, M(ask).nUsed)..CacheTarget(M(ask)),
           p \in 1..Blocks(ask) :
            LET at == PrefixAt(M(ask), Needed(M(ask), ask.ctx, 1, ask.me.backend, FALSE),
                               ask.me.vram, RamCap(LessHost(ask.me, HostRamOf(ask))), p)
            IN  at.inRam => at.gpu + CacheNeed(Geometry(M(ask), 0, p), s) > ask.me.vram

-----------------------------------------------------------------------------
\* A started engine holds what was planned: block 0 on the coordinator, the blocks
\* once each in the machines' order, an exact plan's ranges as planned, every RPC
\* number names the device the engine registers under it (coord_main.c, "with two new
\* workers their GPUs are RPC0 and RPC2, not RPC0 and RPC1"), and the cache the plan
\* was chosen for is announced on every machine that keeps experts in RAM.
BlocksOnce ==
    LET prefix == Prefix(Blocks(ask) + M(ask).mtp.layers, ask.gpuLayers)
        holders(b) == {i \in DOMAIN plan.order :
                          b \in launch.ranges[i].lo..(launch.ranges[i].hi - 1)}
    IN  /\ \A b \in 0..(Blocks(ask) - 1) :
              IF b < prefix THEN holders(b) = {} ELSE Cardinality(holders(b)) = 1
        /\ prefix = 0 => 1 \in holders(0)
        /\ IsExact /\ prefix = 0 =>
              \A i \in DOMAIN plan.order : /\ launch.ranges[i].lo = plan.ranges[i].lo
                                           /\ launch.ranges[i].hi = plan.ranges[i].hi
DevicesAreTheirs ==
    \A d \in DOMAIN launch.devices :
        LET dev == launch.devices[d]
        IN  dev.node # 1 => Registered(ask.workers, plan)[dev.number + 1]
                              = [node |-> dev.node, kind |-> dev.kind]
LaunchFollowsPlan ==
    launch # Nothing /\ launch.started =>
        /\ plan.kind = "single" => launch.pool >= plan.slots
        /\ plan.kind = "cluster" =>
              /\ BlocksOnce /\ DevicesAreTheirs
              /\ \A i \in DOMAIN plan.order :
                    plan.ramOf[i] > 0 => launch.pool[i] >= plan.slots
=============================================================================
