SPECIFICATION Spec
CONSTANTS
    Runs = {a1}
    Workers = {w1}
    MaxLosses = 1
    NoRun = NoRun
INVARIANTS
    ToldFailedIsFailed
CHECK_DEADLOCK FALSE
