\* One CPA node, two Homes with their cleanup loops, two lifetimes: crashes, takeovers and
\* hanging fences in the midst of rounds.
CONSTANTS
    Incarnations = {h1, h2}
    NoHome = NoHome
    SQLite = FALSE
    Capabilities = {TRUE}
    Fingerprints = {f1}
    Protocols = {1}
    MaxLifetime = 2
    MaxLifecycleRevision = 1
    Credentials = {}
    Models = {}
    Limits = {0}
    MaxSlots = 0
    MaxBarrier = 0
SPECIFICATION CleanupSpec
CONSTRAINT NobodyJoins
PROPERTY CancellationEnds
CHECK_DEADLOCK FALSE
