SPECIFICATION MCSpec
CONSTANTS
    Pages = {1, 2}
    Slots = {1, 2, 3, 4}
    Payloads = {x, y}
    NoTx = NoTx
    Torn = Torn
    Hole = Hole
    Zero = Zero
    Places = {1, 2, 3, 4, 5}
    Values = {v, u}
    Blocks = {1, 2}
    Views = {v1}
    None = None
    MaxCheckpoints = 2
    MaxModify = 3
    Budget = 1
    MaxRounds = 4
SYMMETRY PayloadSymmetry
INVARIANTS
    RecoveryIsExact
    VersionsExact
PROPERTIES
    CommitIsAtomic
    ExhaustionIsReal
