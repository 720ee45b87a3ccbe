SPECIFICATION Spec
CONSTANTS
    l1 = l1
    l2 = l2
    c1 = c1
    Entries <- Servers
    Catalogs = {l1}
    Calls = {}
    MaxOps = 1
    MaxFlows = 0
INVARIANT ListedAgain
CHECK_DEADLOCK FALSE
