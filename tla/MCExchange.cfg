SPECIFICATION ExchangeSpec
CONSTANTS
    Chats = {c1, c2}
    Reads = {d1}
    Workers = 1
    ControlWorkers = 1
    Deltas <- SomeDeltas
    Borrowed <- SomeBorrowed
    MaxEvents = 2
    Grace = 2
    ProbeEvery = 1
    MaxFreezes = 1
    Requests <- SomeRequests
    BufferCap = 6
    BodyCap = 4
    DrainCap = 4
    Callers = {me, other, third}
    Me = me
    MaxResolvers = 2
    Calls <- SomeCalls
    ConnectMs = 2
    Ttls = {2}
    MaxAge = 4
INVARIANTS
    HandedOverIsServed
    
    CallIsKept
PROPERTIES
    
    ExchangesEnd
CHECK_DEADLOCK FALSE
