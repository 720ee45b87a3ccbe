SPECIFICATION Spec
CONSTANTS
    Namings = {"own", "none"}
    Limits = {0, 2}
    Hooked = {TRUE}
    MaxBatch = 3
    MaxCalls = 3
    MaxTurns = 2
INVARIANTS
    TypeOK
    RequestsHold
    CallsAccounted
CHECK_DEADLOCK FALSE
