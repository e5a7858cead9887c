\* One Home serving one CPA node over two connections and two lifetimes.
CONSTANTS
    Incarnations = {h1}
    NoHome = NoHome
    SQLite = FALSE
    Capabilities = {TRUE}
    Fingerprints = {f1}
    Protocols = {1}
    MaxLifetime = 2
    MaxLifecycleRevision = 1
    Connections = {x1, x2}
    NoConnection = NoConnection
SPECIFICATION Spec
CONSTRAINT FenceBound
SYMMETRY ConnectionSymmetry
INVARIANTS AcknowledgedIsDrained
PROPERTIES NoGrantAfterReclaim
CHECK_DEADLOCK FALSE
