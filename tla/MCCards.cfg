SPECIFICATION Spec
CONSTANTS
    c1 = c1
    c2 = c2
    s1 = s1
    s2 = s2
    CardIds = {c1, c2}
    SessionIds = {s1, s2}
    NoFsck = {c2}
    Overlaps <- Bound
    None = None
    Gone = Gone
INVARIANTS NobodyWaitsForEver CleanIsSound MountedOnce OwnershipSettled FatalOnlyByOverlap
PROPERTY LostOnlyByHandOver
CHECK_DEADLOCK FALSE
SYMMETRY Symmetry
