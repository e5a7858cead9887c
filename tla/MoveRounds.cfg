\* Five CPA nodes on one of three Homes, moved in rounds that overlap: three moves are
\* wanted and two may be active.
CONSTANTS
    Homes = {h1, h2, h3}
    Leaders = {h1, h2, h3}
    NoLeader = NoLeader
    Nodes = {n1, n2, n3, n4, n5}
    Placements <- Together
    PlanIds = {1, 2, 3}
    MaxLifetime = 1
    MaxTerm = 1
    MaxActive = 2
    PlanTTL = 3
    Interval = 1
    Cooldown = 1
    SwapCooldown = 1
    MinBackoff = 1
    MaxBackoff = 1
    Evidence = 9
SPECIFICATION Spec
SYMMETRY Symmetry
INVARIANT PlansAreBounded
CHECK_DEADLOCK FALSE
CONSTRAINT FirstRounds
