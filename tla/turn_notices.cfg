SPECIFICATION FairSpec
CONSTANTS
    Msgs = {m1}
    Shells = {}
    Notices = {n1, n2}
    ModelNotices = {n1}
    Paths = {"stop"}
    MaxErrors = 1
    MaxRounds = 2
    MaxRetries = 0
    MaxPieces = 1
    MaxCompacts = 1
    MaxClears = 0
    MaxGhosts = 1
    MaxUnread = 2
    MaxContinuations = 2
INVARIANTS
    NoticesAsHeard
PROPERTIES
    WaitingIsServed
CHECK_DEADLOCK FALSE
