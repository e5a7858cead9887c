\* Two CPA nodes on one Home or apart, two leaders: moves and exchanges that are claimed,
\* retried and outlived, and Homes and CPA nodes that are lost in between.
CONSTANTS
    Homes = {h1, h2}
    Leaders = {h1, h2}
    NoLeader = NoLeader
    Nodes = {n1, n2}
    Placements <- Settled
    PlanIds = {1, 2}
    MaxLifetime = 2
    MaxTerm = 2
    MaxActive = 4
    PlanTTL = 1
    Interval = 1
    Cooldown = 1
    SwapCooldown = 1
    MinBackoff = 2
    MaxBackoff = 2
    Evidence = 2
SPECIFICATION Spec
SYMMETRY Symmetry
INVARIANT NoHalfSwapOffered
PROPERTY DecisionsStand
CHECK_DEADLOCK FALSE
CONSTRAINT FailuresOfOnePlan
