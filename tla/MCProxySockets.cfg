SPECIFICATION FairSpec
CONSTANTS
    MaxHandle = 3
    MaxTimeout = 1
    Timeouts <- MCTimeouts
    ForceBind = TRUE
    MaxSockets = 3
INVARIANTS HandlesAgree NoSocketLeak BlocksWithinLimits
PROPERTIES CallsReturn ConnectionEnds
