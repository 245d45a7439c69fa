------------------------------ MODULE MCMachine ------------------------------
(* What a machine keeps and decides by itself, each on its own small         *)
(* instance: the three stores of model bytes (RpcCache, ModelView,           *)
(* TensorIndex), how to run a model on the machines there are (EngineStart), *)
(* the desktop client's downloads (Downloads) and its engine processes       *)
(* (ClientEngine).                                                           *)
EXTENDS RpcCache, ModelView, TensorIndex, EngineStart, ClientEngine, Downloads, TLC

CONSTANTS A, B     \* two models with the same tensor names

\* The planner is asked about models, machines and windows whose bytes are small: one unit is
\* the overhead of a machine.
CONSTANTS
    Pools, Rams,        \* memories of one or two machines, for the central model
    FewPools, FewRams   \* for the other models, and for three machines

Flat(x) == [t \in Tiers |-> [cuda |-> x, metal |-> x + 1]]
NoMtp == [on |-> FALSE, layers |-> 0, weights |-> 0, external |-> 0, kv |-> 0,
          compute |-> Flat(0), host |-> Flat(0)]
\* No experts at all.
Dense ==
    [weights |-> <<6, 6, 6>>, experts |-> <<0, 0, 0>>, slot |-> <<0, 0, 0>>,
     tensor |-> <<0, 0, 0>>, count |-> <<0, 0, 0>>, shared |-> 2, total |-> 20,
     expertTotal |-> 0, nExpert |-> 0, nUsed |-> 0, exact |-> TRUE, estimated |-> FALSE,
     kv |-> 1, kvFixed |-> 0, raw |-> 0, csa |-> 0, hca |-> 0, mmproj |-> 0,
     compute |-> Flat(1), mtp |-> NoMtp]

\* A dense first block, then blocks of eight experts, one of them active.
Sparse ==
    [Dense EXCEPT !.weights = <<3, 9, 10, 9>>, !.experts = <<0, 8, 8, 8>>,
        !.slot = <<0, 1, 1, 1>>, !.tensor = <<0, 2, 3, 2>>, !.count = <<0, 1, 1, 1>>,
        !.shared = 1, !.total = 32, !.expertTotal = 24, !.nExpert = 8, !.nUsed = 1]
WithTower == [Sparse EXCEPT !.mmproj = 2]
WithDraft ==
    [Sparse EXCEPT !.shared = 2, !.total = 33,
        !.mtp = [on |-> TRUE, layers |-> 1, weights |-> 1, external |-> 0, kv |-> 1,
                 compute |-> Flat(1), host |-> Flat(1)]]
Undrafted == [WithDraft EXCEPT !.mtp.kv = 0]
Estimated == [Sparse EXCEPT !.exact = FALSE, !.estimated = TRUE]
Inconsistent == [Sparse EXCEPT !.experts = <<0, 8, 8, 7>>]
Unmeasured4 == [Dense EXCEPT !.compute[4] = [cuda |-> 0, metal |-> 1]]
DeepSeek == [Dense EXCEPT !.kv = 0, !.raw = 1, !.csa = 1]
ModelNamed ==
    [sparse |-> Sparse, dense |-> Dense, tower |-> WithTower, draft |-> WithDraft,
     undrafted |-> Undrafted, estimated |-> Estimated, inconsistent |-> Inconsistent,
     unmeasured |-> Unmeasured4, deepseek |-> DeepSeek, q4 |-> KvScale(WithDraft, 4)]

Machine(v, r) ==
    [vram |-> v, ram |-> r, pin |-> IF r = 16 THEN 9 ELSE 0, unified |-> FALSE,
     backend |-> "cuda", cpu |-> TRUE]
Mac == [Machine(24, 0) EXCEPT !.unified = TRUE, !.backend = "metal", !.cpu = FALSE]
OldWorker == [Machine(18, 16) EXCEPT !.cpu = FALSE]
Many == {Machine(v, r) : v \in Pools, r \in Rams} \cup {Mac, OldWorker}
Few == {Machine(v, r) : v \in FewPools, r \in FewRams} \cup {Mac, OldWorker}

Lists(s, n) == [1..n -> s]
QuestionsOf(m, s, n, forced, drifts, gpuLayers) ==
    {[about |-> "engine", model |-> m, me |-> me, workers |-> ws, ctx |-> c, force |-> f,
      drift |-> d, gpuLayers |-> g] :
        me \in s, ws \in Lists(s, n - 1), c \in {2, 4}, f \in forced,
        d \in Lists(drifts, n), g \in gpuLayers}
EngineQuestions ==
    UNION {QuestionsOf("sparse", Many, n, {FALSE}, {0}, {99}) : n \in {1, 2}}
    \cup UNION {QuestionsOf(m, Few, n, BOOLEAN, {0}, {99}) : m \in DOMAIN ModelNamed, n \in {1, 2}}
    \cup QuestionsOf("tower", Few, 2, {TRUE}, {0, 1}, {3})
    \cup QuestionsOf("sparse", Few, 3, {FALSE}, {0}, {99})
AllPipelines ==
    {[about |-> "pipeline", layers |-> l, vrams |-> v, reserved |-> 2, perLayer |-> 2, multiple |-> k] :
        l \in {4, 7}, k \in {1, 3}, v \in UNION {Lists({0, 3, 8, 12}, n) : n \in 1..3}}
AllQuestions == EngineQuestions \cup AllPipelines

VARIABLE component

TwoModels == {A, B}

\* One shared tensor and one in each of two layers; a plan may take either layer
\* or both.
SharedAndTwoLayers == <<-1, 0, 1>>
Shards == {<<0, 1>>, <<0, 2>>}

\* Downloads find nothing, what another program left under the first file's names, or the
\* file; a later file is there once a download has brought it.
File(of, len) == [of |-> of, len |-> len]
SomeFinals == {NoFile, File("other", 2), File("curated", 2)}
SomeParts == {NoFile, File("other", 2)}

Symm == Permutations(Ids) \cup Permutations(Tasks)

storeVars == <<cacheVars, viewVars, indexVars>>
MachineVars == <<storeVars, startVars, engineVars, downloadVars, component>>

\* A component that is not the behavior's own stays in one of its initial states.
MachineInit ==
    /\ component \in {"cache", "view", "index", "plan", "downloads", "engines"}
    /\ CacheInit /\ IndexInit /\ EngineInit
    /\ ViewInit /\ (component # "view" => kind = "file")
    /\ IF component = "plan" THEN StartInit
       ELSE ask = Nothing /\ plan = Nothing /\ launch = Nothing
    /\ DownloadsInit
    /\ component # "downloads" => \A f \in FilesOf : final[f] = NoFile /\ part[f] = NoFile
    /\ \A f \in FilesOf \ {1} : final[f] = NoFile /\ part[f] = NoFile

MachineNext ==
    /\ UNCHANGED component
    /\ \/ /\ \/ component = "cache" /\ CacheNext /\ UNCHANGED <<viewVars, indexVars>>
             \/ component = "view" /\ ViewNext /\ UNCHANGED <<cacheVars, indexVars>>
             \/ component = "index" /\ IndexNext /\ UNCHANGED <<cacheVars, viewVars>>
          /\ UNCHANGED <<startVars, engineVars, downloadVars>>
       \/ component = "plan" /\ StartNext /\ UNCHANGED <<storeVars, engineVars, downloadVars>>
       \/ component = "engines" /\ EngineNext /\ UNCHANGED <<storeVars, startVars, downloadVars>>
       \/ component = "downloads" /\ DownloadsNext /\ UNCHANGED <<storeVars, startVars, engineVars>>

MachineSpec == MachineInit /\ [][MachineNext]_MachineVars

\* What stands on a machine's disk under a name it is known by is that: a seeded tensor is
\* the model's the seed was for, a view that is called complete has every byte of the
\* repository's file, an index that is served is of the file and the build that serve it, and
\* what a download calls done is the curated file.
StoresSound ==
    SeededNamesAreTheirs /\ CompleteIsWhole /\ FreshIsOurs /\ MarkedIsCurated /\ DoneIsReady

\* What was fetched is kept: no tensor is fetched while the machine has its bytes, and the
\* ranges a view has covered stay covered.
StoresKeep == NothingFetchedTwice /\ CoverageStands

\* No placement the planner could have chosen is better than the one it chose.
BestPlacement == LeastRam /\ LargestCache
=============================================================================
