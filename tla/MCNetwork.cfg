SPECIFICATION FairSpec
CONSTANTS
    MaxSessions = 2
    MaxRequests = 3
    MaxClips = 2
INVARIANTS TypeOK NoStrayResponse NoLeak
PROPERTIES StrandedOnlyBy ClipboardWakesItsCall WaitEnds SocketsClose
CHECK_DEADLOCK FALSE
