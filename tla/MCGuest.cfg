SPECIFICATION MCSpec
CONSTANTS
    Execs = {e1}
    Forwards = {f1}
    MaxCaptures = 2
    MaxWork = 2
    MaxSlow = 1
    Roles = {"stdout", "stderr"}
    Window = 1
    MaxWrites = 2
    MaxGens = 2
    MaxSessions = 2
    MaxFaults = 1
    MaxReqs = 1
    MaxEvents = 2
    Segments = 1
INVARIANTS
    
    OutputExact
    
    
