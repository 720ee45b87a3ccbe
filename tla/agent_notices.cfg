SPECIFICATION Spec
CONSTANTS
    Calls = {"kill", "send", "chat", "stop", "esc"}
    Late = {}
    MaxRuns = 1
    MaxTurns = 2
    MaxTexts = 2
INVARIANTS
    TypeOK
    NotesAreNews
    NothingSaidIsLost
    ShownAsItIs
PROPERTIES
    StopIsFinal
CHECK_DEADLOCK FALSE
