CONSTANTS
    Scenes = {"ledger", "records", "custody", "sessions", "limits", "workspace", "forms", "calculators", "file",
              "evidence", "tools", "desk", "collect", "reports"}
    MaxDate = 11
    MaxCents = 130
    Sunday = 4
    Dates = {0, 1, 2, 3, 4}
    Amounts <- MCAmounts
    Decimals <- MCDecimals
    Counts = {0, 1, 2, 3, 5}
    Periods = {0, 1, 2}
    Excludable = {1, 4, 5}
    NoValue = NoValue
    Clients = {c1, c2}
    Processes = {p1}
    Intimations = {i1}
    NoProcess = NoProcess
    Bodies = {b1, b2}
    MaxSessions = 2
    Items = {e1}
    Users = {m1, m2}
    MaxBegun = 5
    MaxTogether = 2
    Limit = 2
    Span = 3
    MaxSecond = 8
    MaxIds = 4
    MaxUnderWay = 2
    MaxId = 3
    MaxOperations = 2
    MaxFlights = 2
    Customers = {k1, k2}
    Cases = {q1}
    NoLink = NoLink
    MaxEvidence = 2
    Chains = {x1, x2}
    Tools = {dns, ip}
    NoTool = NoTool
    MaxEntities = 2
    Sources = {1}
    Workers = {o1, o2}
    MaxRuns = 2
    Suits = {g1, g2}
    MaxActs = 2
    ActDays = {1, 2}
    MaxCalls = 2
    Requests = {u1, u2, u3}
    Data = {d1, d2}
    MaxPerRequest = 2
    MaxOpen = 1
    MaxTime = 4
    MaxDamage = 2
SPECIFICATION ScenesSpec
CHECK_DEADLOCK FALSE
INVARIANTS
    TypeOK UndamagedVerifies ValidIsWritten
    LaunchSafety CustodySafety AccessSafety WorkspaceSafety FormSafety CalculatorSafety FileSafety EvidenceSafety DeskSafety
