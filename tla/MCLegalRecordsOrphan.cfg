CONSTANTS
    Clients = {c1, c2}
    Processes = {p1}
    Intimations = {}
    NoProcess = NoProcess
    Bodies = {b1}
    MaxSessions = 2
INIT LegalInit
NEXT LegalNext
INVARIANTS ProcessHasLiveClient
