SPECIFICATION Spec
CONSTANTS
    e1 = e1
    Emails = {e1}
    Challenges = {k1, k2}
    EmailOf <- MCEmailOf
    Requests = {r1, r2}
    MaxAttempts = 2
    MaxVersion = 2
    Nobody = Nobody
    NoChallenge = NoChallenge
SYMMETRY Symmetric
INVARIANTS
    TypeOK
    OneUseOfLastCode
    LeftoversBounded
PROPERTIES
    OverIsOver
    CoolingStands
CHECK_DEADLOCK FALSE
