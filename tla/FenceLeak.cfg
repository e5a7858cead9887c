\* A connection closed by a fence before it follows its subscription.
CONSTANTS
    Incarnations = {h1}
    NoHome = NoHome
    SQLite = FALSE
    Capabilities = {TRUE}
    Fingerprints = {f1}
    Protocols = {1}
    MaxLifetime = 2
    MaxLifecycleRevision = 1
    Connections = {x1, x2}
    NoConnection = NoConnection
CONSTRAINT FenceBound
SPECIFICATION Spec
INVARIANTS ClosedIsUntracked
CHECK_DEADLOCK FALSE
