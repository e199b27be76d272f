SPECIFICATION FairSpec
CONSTANTS
    r1 = r1
    r2 = r2
    Reqs <- TwoReqs
    MaxInflight = 1
INVARIANTS
    FreezeWindow
    CommittedHolds
    
PROPERTY CaptureReturns
