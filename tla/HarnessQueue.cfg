SPECIFICATION FairHSpec
CONSTANTS
    a = a
    b = b
    u = u
    v = v
    NULL = NULL
    Task = {a, b}
    Worker = {u}
    Fenced = {u}
    Policy <- Policies
    DefaultPolicy <- Default
    Error <- Errors
    Lease = {2}
    BackoffSecs <- Delay
    MaxAttempts = 2
    MaxTime = 13
    MaxGeneration = 1
    NoWorker = NULL
    NoError = NULL
    Kinds = {"loop", "pool"}
    RequestPolicy <- Default
    DefaultLease = 2
    Concurrency = 1
    Selections <- Categories
CHECK_DEADLOCK FALSE
PROPERTIES
    EveryDigestHasItsTurn
