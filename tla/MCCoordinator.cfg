SPECIFICATION CoordinatorSpec
CONSTANTS
    MaxQuickRestarts = 3
    Children = {e1, e2}
    First = e1
    NoChild = NoChild
    Coords = {c1, c2, c3}
    NoCoord = NoCoord
    MaxCoordStarts = 3
    Policy = "capability"
    Credentials = TRUE
    DailyCap = 1
    WaitAtLeast = 1
    MaxDay = 1
    Requests = {r1, r2, r3}
    Provenance <- LocalOnly
    Slots = 1
    Workers = 2
    MaxCharge = 1
    MaxRouteStarts = 1
INVARIANTS
    PublicationStands
    RefusalMeansReplaced
    EngineKnown
PROPERTIES
    EngineSettles
    RequestsEnd
CHECK_DEADLOCK FALSE
