\* The cache may be closed and its callers gone: a state with no step is legal.
CHECK_DEADLOCK FALSE
SPECIFICATION FairSpec
CONSTANTS
    Keys = {k1, k2, k3}
    Clients = {p1}
    Cleaner = cleaner
    Closers = {p1}
    TTLs = {0, 1}
    MaxItems = 2
    EvictDivisor = 1
    MaxTime = 1
    MaxCount = 3
    NoKey = none
PROPERTIES
    CloseReturns
    ExpiredGoes
