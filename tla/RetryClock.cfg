SPECIFICATION FairSpec
CONSTANTS
    PerSecond = 4
    WordMax = 31
    MaxExponent = 2
    Shift <- Powers
    JitterSteps = 4
    LastStamp = 15
    Policies <- SomePolicies
    Seeds = {0, 1, 7}
    MaxAttempts = 5
CHECK_DEADLOCK FALSE
INVARIANTS
    TypeOK
    DelayAsDocumented
    DelayWithinPolicy
    SleepSuffices
PROPERTIES
    NotASecondEarly
    FailedIsRetried
