SPECIFICATION FairSpec
CONSTANTS
    Runs = {c1}
    Dispatchers = {d1, d2}
    Workers = {w1, w2}
    Limit = 1
    MaxRetries = 1
    RowSecurity = FALSE
    WaitAllowed = TRUE
    MaxFaults = 2
    NoRun = NoRun
INVARIANTS
    TypeOK
    OutboxSafety
    SettledAtRest
PROPERTIES
    RunSettles
CHECK_DEADLOCK FALSE
