SPECIFICATION Spec
CONSTANTS
    p = p
    q = q
    r = r
    NULL = NULL
    Process = {p, q, r}
    Timeout = 1
    StaleAfter = 2
    MaxTime = 12
    NoProcess = NULL
SYMMETRY Symmetry
CHECK_DEADLOCK FALSE
INVARIANTS
    FreshLockIsKept
