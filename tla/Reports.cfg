SPECIFICATION RSpec
CONSTANTS
    a = a
    b = b
    u = u
    r = r
    NULL = NULL
    Task = {a, b}
    Worker = {u}
    Fenced = {}
    Policy <- Policies
    DefaultPolicy <- Default
    Error <- Errors
    Lease = {0}
    BackoffSecs <- NoDelay
    MaxAttempts = 2
    MaxTime = 1
    MaxGeneration = 2
    NoWorker = NULL
    NoError = NULL
    Client = {r}
    Request <- Requests
    Category = {"easy", "hard"}
    NoCategory = NULL
    Config = {1}
CHECK_DEADLOCK FALSE
INVARIANTS
    CurrentDataset
    AnswerCoversRegistration
    FailuresBehindTasks
    ListFollowsRegistration
    ProgressNeverRegresses
