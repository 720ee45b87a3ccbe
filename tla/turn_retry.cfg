SPECIFICATION Spec
CONSTANTS
    Msgs = {m1, m2}
    Shells = {}
    Notices = {}
    ModelNotices = {}
    Paths = {"note", "blocked", "think", "draft", "fail", "unfinished", "tools", "limit"}
    MaxErrors = 1
    MaxRounds = 2
    MaxRetries = 1
    MaxPieces = 2
    MaxCompacts = 0
    MaxClears = 0
    MaxGhosts = 0
    MaxUnread = 1
    MaxContinuations = 0
INVARIANTS
    RecordIsWhole
PROPERTIES
    EarlierTurnsStand
SYMMETRY Symmetry
CHECK_DEADLOCK FALSE
