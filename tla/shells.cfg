SPECIFICATION Spec
CONSTANTS
    Owners = {"lead", "agent"}
    MaxCalls = 2
    MaxOutput = 2
    MaxInterrupts = 1
INVARIANTS
    TypeOK
    ExitReachesOnce
    PromptIsNews
CHECK_DEADLOCK FALSE
