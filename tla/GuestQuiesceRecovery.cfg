SPECIFICATION Spec
CONSTANTS
    Execs = {e1}
    Forwards = {f1}
    MaxCaptures = 2
    MaxWork = 2
    MaxSlow = 1
INVARIANT RecoveredRuns
