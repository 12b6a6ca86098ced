SPECIFICATION Spec
CONSTANTS
    Requests = {q1, q2}
    Data = {d1, d2}
    MaxPerRequest = 2
    MaxOpen = 2
    MaxTime = 3
    MaxDamage = 0
SYMMETRY Symmetric
INVARIANTS
    UndamagedVerifies
CHECK_DEADLOCK FALSE
