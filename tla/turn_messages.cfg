SPECIFICATION Spec
CONSTANTS
    Msgs = {m1, m2}
    Shells = {c1, c2}
    Notices = {}
    ModelNotices = {}
    Paths = {"tools", "blocked", "unfinished"}
    MaxErrors = 1
    MaxRounds = 2
    MaxRetries = 0
    MaxPieces = 1
    MaxCompacts = 0
    MaxClears = 1
    MaxGhosts = 1
    MaxUnread = 3
    MaxContinuations = 1
INVARIANTS
    TypeOK
    EveryDraftInOnePlace
    SharedQueuesMirrored
    NoTurnIsStranded
    NothingWaitsAtRest
PROPERTIES
    UndoTakesTheSubmission
SYMMETRY Symmetry
CHECK_DEADLOCK FALSE
