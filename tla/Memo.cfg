SPECIFICATION Spec
CONSTANTS
    e1 = e1
    e2 = e2
    e3 = e3
    NULL = NULL
    EXC = EXC
    Execution = {e1, e2, e3}
    Calls = 3
    Nothing = NULL
    Raised = EXC
SYMMETRY Symmetry
CHECK_DEADLOCK FALSE
INVARIANTS
    TypeOK
    StoredIsOneHistory
PROPERTIES
    NeverPaidAgain
