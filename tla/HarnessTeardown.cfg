SPECIFICATION HSpec
CONSTANTS
    a = a
    b = b
    u = u
    v = v
    NULL = NULL
    Task = {a}
    Worker = {u, v}
    Fenced = {u, v}
    Policy <- Policies
    DefaultPolicy <- Default
    Error <- Errors
    Lease = {2}
    BackoffSecs <- Delay
    MaxAttempts = 2
    MaxTime = 9
    MaxGeneration = 2
    NoWorker = NULL
    NoError = NULL
    Kinds = {"loop"}
    RequestPolicy <- Default
    DefaultLease = 2
    Concurrency = 1
    Selections <- Everything
CHECK_DEADLOCK FALSE
INVARIANTS
    TeardownAlwaysRuns
