SPECIFICATION Spec
CONSTANTS
    t1 = t1
    t2 = t2
    NoThread = NoThread
    Providers <- Subscriptions
    Threads = {t1, t2}
    MaxSignIns = 2
    MaxRotations = 2
INVARIANTS
    TypeOK
    ChainIsHeld
    BearersAreCurrent
PROPERTIES
    NewestStands
SYMMETRY Symmetry
