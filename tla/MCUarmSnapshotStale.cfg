SPECIFICATION Spec
CONSTANTS
    Nand = {n1, n2}
    Sd = {}
    Ram = {}
    Vals = {e, v}
    Empty = e
    Uploads = {"sd"}
    MaxStarts = 1
    MaxWaiting = 1
    None = None
    e = e
    v = v
    n1 = n1
    n2 = n2
INVARIANT NandChecksumValid
