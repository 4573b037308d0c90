SPECIFICATION FairSpec
CONSTANTS
    Nand = {n1}
    Sd = {}
    Ram = {}
    Vals = {e, v}
    Empty = e
    Uploads = {"nand"}
    MaxStarts = 1
    MaxWaiting = 1
    None = None
    e = e
    v = v
    n1 = n1
INVARIANT WritesKept
INVARIANT NandChecksumValid
PROPERTY StopAnswered
PROPERTY PausesWhenHidden
