SPECIFICATION FairSpec
CONSTANTS
    Sessions = {s1}
    Pages = {p1, meta}
    MetaPage = meta
    CardPages = {}
    Vals = {0, 1}
    Blank = 0
    Toc = 1
    MaxErrors = 1
    OtherTabs = TRUE
    None = None
PROPERTIES LockRespected AtomicCheckpoints SnapshotEnds StopCompletes
