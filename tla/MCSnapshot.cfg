SPECIFICATION Spec
CONSTANTS
    Sessions = {s1}
    Pages = {p1, meta}
    MetaPage = meta
    CardPages = {c1}
    Vals = {0, 1}
    Blank = 0
    Toc = 1
    MaxErrors = 0
    OtherTabs = FALSE
    None = None
INVARIANTS TypeOK NoLostWrite PauseSaves
PROPERTIES AtomicCheckpoints
