\* One CPA node through two lifetimes with two Homes: subscription, takeover, cancellation,
\* recovery, two revisions of the safety durations, and slots of one credential held across
\* all of it; and two CPA nodes that compete for those slots.
CONSTANTS
    Incarnations = {h1, h2}
    NoHome = NoHome
    SQLite = FALSE
    Capabilities = {TRUE}
    Fingerprints = {f1, f2}
    Protocols = {1}
    MaxLifetime = 2
    MaxLifecycleRevision = 2
    Credentials = {c1}
    Models = {m1}
    Limits = {0, 1}
    MaxSlots = 2
    MaxBarrier = 1
SPECIFICATION Spec
SYMMETRY HomeSymmetry
CONSTRAINT MembershipBound
INVARIANTS TypeOK CountersCoverRunningWork SlotAccounting ClosedHoldsNoSlot
           LifecycleRevisionPinned QuiescenceSetComplete OnlyOwnerParticipates
PROPERTIES GrantsStayWithinLimits ReclaimOnlyWhenQuiet NothingRevives
CHECK_DEADLOCK FALSE
