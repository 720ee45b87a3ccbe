SPECIFICATION Spec
CONSTANTS
    a1 = a1
    Agents = {a1}
    StartModes = {"manual"}
    Hooked = {TRUE}
    MaxTurns = 1
    MaxAsked = 2
    Wait = 1
    Left = {"manual"}
INVARIANTS
    ForcedIsAsked
CHECK_DEADLOCK FALSE
