SPECIFICATION Spec
CONSTANTS
    r1 = r1
    r2 = r2
    Reqs <- OneReq
    MaxInflight = 1
INVARIANTS
    FailedCaptureLeavesRunning
