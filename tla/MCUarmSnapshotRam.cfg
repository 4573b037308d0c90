SPECIFICATION Spec
CONSTANTS
    Nand = {}
    Sd = {}
    Ram = {r1, r2}
    Vals = {e, v}
    Empty = e
    Uploads = {"nor", "nand", "session"}
    MaxStarts = 1
    MaxWaiting = 1
    None = None
    e = e
    v = v
    r1 = r1
    r2 = r2
INVARIANT TypeOK
INVARIANT WritesKept
INVARIANT RamChecksumValid
INVARIANT StopHonoured
