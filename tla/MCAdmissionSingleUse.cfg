SPECIFICATION Spec
CONSTANTS
    Threads = {t1, t2}
    Nonces = {n1, n2}
    Bodies = {b1}
    SpentSlots = 2
    InflightSlots = 2
    TTL = 1
    InflightMax = 1
    MaxNow = 3
    MaxStarts = 1
INVARIANT SingleUse
CHECK_DEADLOCK FALSE
