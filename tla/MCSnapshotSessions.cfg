SPECIFICATION Spec
CONSTANTS
    Sessions = {s1, s2}
    Pages = {p1, meta}
    MetaPage = meta
    CardPages = {}
    Vals = {0, 1}
    Blank = 0
    Toc = 1
    MaxErrors = 0
    OtherTabs = FALSE
    None = None
SYMMETRY SessionSymmetry
INVARIANTS SnapshotsRunningSession
PROPERTIES AtomicCheckpoints
