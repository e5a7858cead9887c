CONSTANTS
    Auths = {"a", "b"}
    Crews <- RefreshCrews
    MaxTokens = 2
    MaxFaults = 1
    Credentials = {"a"}
    RefreshWorkers = {1}
    JobBuffer = 1
    PendingBackoff = 1
    MaxClock = 2
    MaxChanges = 2
    Uuids = {"x", "y"}
    Threads = {"t"}
    MaxVersion <- CacheVersions
    Flows = {"f", "g"}
    FlowKinds = {"callback", "device"}
    Polls = {"p"}
    RegClients = {"a", "b", "c"}
    RegModels = {"m"}
    RegProviders = {"", "p", "q"}
    MaxListed = 2
    Collectors = {"h1", "h2"}
    ProbeLease = 1
    Freshness = 1
    Backoffs = {1}
    ActivityWindow = 1
    MaxProbeTime = 2
    Lifetimes = {1, 2}
    Revisions = {1, 2}
    MaxParts = 2
    MaxBytes = 3
    Headers = {"a", "b"}
    Bodies <- InFlightBodies
    Views = {1, 2, 3}
    Totals = {0, 3}
    RowBatch = 4
    ViewBatch = 2
    PageSize = 2
    Readers = {"r", "s"}
    Keys = {1, 2}
    Clients = {1, 2}
    MaxValue = 0
    MaxNow = 2
    Executions = {1, 2}
    Deliveries = {1, 2}
    WindowLength = 1
    MaxBillTime = 2
    MaxAdmin = 1
    Identities <- PriceIdentities
    ImportTargets <- PriceTargets
    Callers = {1, 2}
    MaxRules = 2
    MaxEdits = 2
    MaxImportTime = 2
    PreviewTTL = 0
    OperationRetention = 1
    TokenCounts = {0, 1, 2}
INIT Init
NEXT Next
CONSTRAINT Bound
VIEW FocusView
INVARIANTS
    GrantSubmittedOnce OperatorsWin
    NoCredentialForgotten
    CacheFollowsTable
    RegistryConsistent
    SnapshotsAreWhole
    PagesAreKept
    ReadsWhatWasWritten NoLockCycle
    AccountsAreExact
    MostSpecificRuleWins
    ChargeIsExact
PROPERTIES
    LoginSettlesOnce
    
    ImportsAreExact
CHECK_DEADLOCK FALSE
