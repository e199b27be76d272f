SPECIFICATION Spec
CONSTANTS
    d1 = d1
    None = None
    Disks = {d1}
    Blocks = {b1, b2}
    Threads = {t1, t2}
    Versioned = {d1}
    Fresh = {}
    Template = {}
    Blank = {}
    Disposable = {}
    Capacity = 1
    MaxDirty = 1
    BatchLimit = 1
    Ops = {"read", "write", "discard"}
    Extents = {"write", "patch"}
    MaxOps = 0
SYMMETRY BlockSymmetry
INVARIANTS ReadsLatest StoredWhenClean
PROPERTIES FrozenUntilWritten
CHECK_DEADLOCK FALSE
