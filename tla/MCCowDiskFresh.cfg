SPECIFICATION FairSpec
CONSTANTS
    d1 = d1
    d2 = d2
    None = None
    Disks = {d1, d2}
    Blocks = {1}
    Threads = {t1}
    Versioned = {d1}
    Fresh = {d1}
    Template <- FirstBlock
    Blank = {}
    Disposable = {d1}
    Capacity = 1
    MaxDirty = 1
    BatchLimit = 1
    Ops = {"write"}
    Extents = {"patch"}
    MaxOps = 2
INVARIANTS BoundariesStore
 
CHECK_DEADLOCK FALSE
