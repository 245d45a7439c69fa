SPECIFICATION MachineSpec
CONSTANTS
    A = A
    B = B
    Indexes <- TwoModels
    NTensors = 3
    LayerOf <- SharedAndTwoLayers
    SeedRanges <- Shards
    MaxStops = 1
    MaxLosses = 1
    NLayers = 3
    NParts = 2
    NVersions = 2
    MaxFaults = 3
    NFiles = 3
    NBuilds = 3
    MaxKills = 3
    Overhead = 1
    PoolReserve = 1
    AllocTail = 0
    Pools = {0, 8, 13, 16, 18, 20, 22, 30, 40}
    Rams = {0, 8, 16, 24}
    FewPools = {12, 16, 20}
    FewRams = {0, 8, 16}
    Models <- ModelNamed
    Questions <- AllQuestions
    Roles = {"coordinator", "agent"}
    Agent = "agent"
    Requests = {"a", "b"}
    Loops = {"k", "l"}
    MaxRestarts = 1
    MaxStarts = 2
    NumFiles = 2
    FullLen = 2
    LeastLen = 1
    Ids = {i, j}
    Tasks = {s, t}
    FoundFinals <- SomeFinals
    FoundParts <- SomeParts
    MaxTrouble = 1
SYMMETRY Symm
INVARIANTS
    StoresSound
    PlanFits
    BestPlacement
    LaunchFollowsPlan
    ChildrenAreKnown
PROPERTIES
    StoresKeep
    RefusalIsFinal
CHECK_DEADLOCK FALSE
