SPECIFICATION FairSpec
CONSTANTS
    Runs = {a1}
    Workers = {w1, w2, w3}
    MaxLosses = 4
    NoRun = NoRun
INVARIANTS
    TypeOK
    ExecutedOnce
PROPERTIES
    DraftIsFresh
    OverIsOver
    QueuedRunEnds
CHECK_DEADLOCK FALSE
