SPECIFICATION MeetingSpec
CONSTANTS
    Long = Long
    Short = Short
    Services <- TwoServices
    None = None
    Unlistable = Unlistable
    MaxSwaps = 2
    Sources = {a, b, c}
    Holders = {a, b}
    NSlots = 2
    FreeTries = 1
    BaseWait = 1
    LongestWait = 1
    Forget = 2
    Window = 2
    MaxFails = 2
    Block = 2
    Deadline = 1
    ListenQueue = 1
    MaxCount = 8
    MaxWrong = 4
    Coords = {x, z}
    Ours = {x}
    Account = TRUE
    Given <- GivenOrNot
    Slices = 10
    ProbeEvery = 2
    MaxStarts = 3
    MaxLosses = 1
INVARIANTS
    BeatsFollowTheEngine
    JoinsItsOwn
PROPERTIES
    OldServiceFades
    ServiceReturns
    TheRightfulJoin
CHECK_DEADLOCK FALSE
