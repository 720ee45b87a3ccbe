SPECIFICATION FairSpec
CONSTANTS
    a1 = a1
    Agents = {a1}
    StartModes = {"manual"}
    Hooked = {FALSE}
    MaxTurns = 1
    MaxAsked = 2
    Wait = 1
    Left = {"manual"}
INVARIANTS
    TypeOK
    EachRequestOnce
    GrantedIsConsented
    ModalInStep
PROPERTIES
    TimedOutWhenAway
    WaitsEnd
CHECK_DEADLOCK FALSE
