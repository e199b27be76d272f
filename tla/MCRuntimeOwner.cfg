SPECIFICATION Spec
CONSTANTS
    o1 = o1
    Ops <- OneOp
    NDisks = 1
INVARIANTS
    OneLaunchOutcome
    ResourcesOutliveUsers
    BackendsOutliveCH
    ExitTellsFailure
PROPERTIES
    EndTerminates
CHECK_DEADLOCK FALSE
