SPECIFICATION SSpec
CONSTANTS
    a = a
    u = u
    v = v
    p = p
    q = q
    NULL = NULL
    Task = {a}
    Worker = {u, v}
    Fenced = {u, v}
    Policy <- Policies
    DefaultPolicy <- Default
    Error <- Errors
    Lease = {2}
    BackoffSecs <- NoDelay
    MaxAttempts = 2
    MaxTime = 4
    MaxGeneration = 1
    NoWorker = NULL
    NoError = NULL
    Server = {p, q}
    MaxEvents = 2
CHECK_DEADLOCK FALSE
INVARIANTS
    STypeOK
    AttemptGrantedOnce
    SingleFlight
    FailureRecordedOnce
    TracesInOrder
PROPERTIES
    ImplementsDurableTask
    BeginsEnd
