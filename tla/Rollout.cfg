\* Old and new Homes and CPA nodes together with two policies: the activation gate.
CONSTANTS
    Incarnations = {h1, h2}
    NoHome = NoHome
    SQLite = TRUE
    Capabilities = {TRUE, FALSE}
    Fingerprints = {f1}
    Protocols = {0, 1}
    MaxLifetime = 1
    MaxLifecycleRevision = 1
    Credentials = {c1, c2}
    Models = {m1}
    Limits = {0, 1}
    MaxSlots = 0
    MaxBarrier = 2
SPECIFICATION Spec
SYMMETRY HomeSymmetry
INVARIANTS GateCountsActivePolicies NobodyUnawareOfLimits
CHECK_DEADLOCK FALSE
CONSTRAINT RolloutBound
