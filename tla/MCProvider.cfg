SPECIFICATION ProviderSpec
CONSTANTS
    Lease = 2
    Deadlines <- NearOrFar
    BatchMax = 1
    MaxFrames = 2
    MaxNow = 3
    Setups <- SomeSetups
    PoolThreads = 4
    ControlThreads = 1
    MaxConns = 2
INVARIANTS
    NoSecondProvider
    StreamArrivesWhole
    ServiceIsWhole
PROPERTIES
    LostJobIsLeft
    StopsWhenTold
CHECK_DEADLOCK FALSE
