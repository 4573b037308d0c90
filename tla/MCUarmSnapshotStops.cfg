SPECIFICATION Spec
CONSTANTS
    Nand = {}
    Sd = {}
    Ram = {r1, r2}
    Vals = {e, v}
    Empty = e
    Uploads = {"nor"}
    MaxStarts = 1
    MaxWaiting = 2
    None = None
    e = e
    v = v
    r1 = r1
    r2 = r2
INVARIANT RamChecksumValid
