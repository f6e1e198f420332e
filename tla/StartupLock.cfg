SPECIFICATION RemovableSpec
CONSTANTS
    p = p
    q = q
    r = r
    NULL = NULL
    Process = {p, q}
    Timeout = 1
    StaleAfter = 2
    MaxTime = 12
    NoProcess = NULL
CHECK_DEADLOCK FALSE
INVARIANTS
    TypeOK
    TwoServersHaveCause
    InsideHoldsLock
    OrphanedByCrashOnly
PROPERTIES
    EnsureStartedEnds
