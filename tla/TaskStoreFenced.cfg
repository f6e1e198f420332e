SPECIFICATION Spec
CONSTANTS
    a = a
    u = u
    v = v
    NULL = NULL
    Task = {a}
    Worker = {u, v}
    Fenced = {u, v}
    Policy <- Policies
    DefaultPolicy <- Default
    Error <- Errors
    Lease = {0, 2, 3}
    BackoffSecs <- Delay
    MaxAttempts = 3
    MaxTime = 7
    MaxGeneration = 1
    NoWorker = NULL
    NoError = NULL
SYMMETRY Symmetry
CHECK_DEADLOCK FALSE
INVARIANTS
    TypeOK
    SingleFlight
    OutputOfLastAttempt
    AttemptBudget
    FailureCountedOnce
    TerminalHasCause
PROPERTIES
    ResolvedIsFinal
