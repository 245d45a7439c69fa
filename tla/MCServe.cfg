SPECIFICATION ServeSpec
CONSTANTS
    Policy = "strict"
    Credentials = TRUE
    DailyCap = 1
    WaitAtLeast = 2
    MaxDay = 2
    Requests = {r1, r2, r3}
    Provenance <- LocalOrPlatform
    Slots = 1
    Workers = 3
    MaxCharge = 1
    MaxRouteStarts = 2
    Handlers = {u1, u2}
    Asks <- AsksOfEach
    Machines <- SomeMachines
    MaxMints = 1
    Settings <- SomeSettings
    ArgvMax = 80
    CommandMax = 70
    Conns = {c1, c2}
    Inflight = 1
    Failures = {400, 404, 429, 500, 503}
    Nobody = Nobody
SYMMETRY Symm
INVARIANTS
    BooksExact
    OvershootBounded
    RoutesHold
    
    JobsAreServed
CHECK_DEADLOCK FALSE
