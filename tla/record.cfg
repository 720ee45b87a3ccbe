SPECIFICATION Spec
CONSTANTS
    m1 = m1
    m2 = m2
    Models = {m1, m2}
    Tears = {"newline", "junk", "cut"}
    MaxItems = 4
    MaxFiles = 2
    MaxCrashes = 1
    MaxPicks = 1
    LastPick = 1
INVARIANTS
    TypeOK
    RecordHolds
PROPERTIES
    KeepsTheJournal
    RewoundWorkIsGone
SYMMETRY Symmetry
CHECK_DEADLOCK FALSE
