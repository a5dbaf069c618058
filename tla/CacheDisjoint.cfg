SPECIFICATION SeenSpec
CONSTANTS
    Keys = {k1, k2, k3, k4}
    Clients = {p1, p2}
    Cleaner = cleaner
    Closers = {}
    TTLs = {0, 1}
    MaxItems = 2
    EvictDivisor = 1
    MaxTime = 1
    MaxCount = 4
    NoKey = none
SYMMETRY Symmetry
INVARIANTS
    SizeIsExact
    MaxItemsRespected
\* The cache may be closed and its callers gone: a state with no step is legal.
CHECK_DEADLOCK FALSE
