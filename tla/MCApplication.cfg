CONSTANTS
    Scenes = {"jobs", "query", "transparency", "auth", "audit", "commercial", "checkout",
              "agents", "lists", "page", "path", "prefs", "wizard", "calendar", "inbox",
              "money", "board", "radar", "drafts", "files"}
    Runs = {r1, r2}
    NoRun = NoRun
    Kinds = {cnpj, cep}
    NoKind = NoKind
    Sections = {"dashboard", "clients"}
    Dashboard = "dashboard"
    MaxVersions = 3
    Limits = {2, 3}
    DefaultLimit = 2
    MaxLedger = 5
    Plans = {"lite", "team"}
    Addons = {"seats", "processes"}
    Price <- MCPrice
    Packages <- MCPackages
    RawQuantities <- MCRawQuantities
    MaxQuantity = 3
    Paid = {"lite", "team"}
    MaxRequests = 2
    MaxForms = 2
    MaxAnalyses = 2
    MaxRedraws = 3
    MaxPressed = 2
    Tabs = {w1, w2}
    Areas = {"dashboard", "clients"}
    Home = "dashboard"
    MaxHistory = 4
    MaxInvestigations = 2
    DeadlineIds = {1, 2}
    AppointmentIds = {1}
    IntimationIds = {1, 2}
    EvidenceIds = {1, 2, 3}
    InvestigationIds = {v1, v2}
    MaxUrgent = 1
    MaxAlerts = 1
    MaxReviews = 2
    EntryIds = {1, 2}
    CaseIds = {q2}
    Owners = {k3, k4}
    NoCase = NoCase
    NoOwner = NoOwner
    DueDates = {0, 6, 9}
    LastDay = 8
    MaxAnnounced = 1
    MonthDays <- MCMonthDays
    MonthsShown = 2
    EntryMonths = {2, 3}
    EntryAmount <- MCEntryAmount
    Targets = {"", "cnpj", "text"}
    MaxPartners = 1
    Findings = {f1}
    Checks = 2
    MaxHypotheses = 2
    MaxRows = 2
    MaxBatches = 2
    MaxBatchSize = 2
SPECIFICATION Spec
CHECK_DEADLOCK FALSE
INVARIANTS
    JobSafety PanelsAreTrue AuthSafety SendsWhatWasChosen InterfaceSafety ScreensAgree
PROPERTIES
    StepsAreOrderly WaitsEnd
