\* One Home serving one CPA node over two connections and its lifetime.
CONSTANTS
    Incarnations = {h1}
    NoHome = NoHome
    SQLite = FALSE
    Capabilities = {TRUE}
    Fingerprints = {f1}
    Protocols = {1}
    MaxLifetime = 1
    MaxLifecycleRevision = 1
    Connections = {x1, x2}
    NoConnection = NoConnection
SPECIFICATION FairSpec
PROPERTIES FenceEnds
CHECK_DEADLOCK FALSE
