SPECIFICATION Spec
CONSTANTS
    Runs = {c1}
    Dispatchers = {d1}
    Workers = {w1}
    Limit = 1
    MaxRetries = 1
    RowSecurity = TRUE
    WaitAllowed = FALSE
    MaxFaults = 0
    NoRun = NoRun
INVARIANTS
    SettledAtRest
CHECK_DEADLOCK FALSE
