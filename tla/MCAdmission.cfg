SPECIFICATION Spec
CONSTANTS
    Threads = {t1, t2}
    Nonces = {n1, n2, n3}
    Bodies = {b1, b2}
    SpentSlots = 2
    InflightSlots = 2
    TTL = 2
    InflightMax = 1
    MaxNow = 4
    MaxStarts = 2
SYMMETRY Symm
INVARIANTS
    SpentOnceWhileLive
    ServedAsMinted
    MarksExact
CHECK_DEADLOCK FALSE
