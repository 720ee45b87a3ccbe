SPECIFICATION Spec
CONSTANTS
    l1 = l1
    l2 = l2
    c1 = c1
    Entries <- Servers
    Catalogs = {l1, l2}
    Calls = {c1}
    MaxOps = 2
    MaxFlows = 2
INVARIANTS
    TypeOK
    ToolsFollowServer
    ConnectsAsSwitched
    PageHasItsFlow
PROPERTIES
    NewerStands
SYMMETRY Symmetry
CHECK_DEADLOCK FALSE
