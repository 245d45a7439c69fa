SPECIFICATION FairSpec
CONSTANTS
    one = one
    oneAgain = oneAgain
    two = two
    Procs = {one, oneAgain, two}
    MachineOf <- OneComesBack
    None = None
    Remote = 2
    SilenceLimit = 1
    JoinWait = 1
    JoinStep = 1
    CacheWait = 2
    ReadyWait = 2
    QuickRestarts = 1
    MaxFaults = 1
INVARIANTS
    NoMachineTwice
    BeatersAreHeard
PROPERTIES
    ClusterSettles
CHECK_DEADLOCK FALSE
