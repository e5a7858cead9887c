\* One plan of a CPA node that never has to answer; Homes and heartbeats may fail, and a
\* second leader may follow the first.
CONSTANTS
    Homes = {h1, h2}
    Leaders = {h1, h2}
    NoLeader = NoLeader
    Nodes = {n1, n2}
    Placements <- Together
    PlanIds = {1}
    MaxLifetime = 1
    MaxTerm = 2
    MaxActive = 4
    PlanTTL = 1
    Interval = 1
    Cooldown = 1
    SwapCooldown = 1
    MinBackoff = 1
    MaxBackoff = 1
    Evidence = 9
SPECIFICATION FairSpec
CONSTRAINT OneSilentInSecondTerm
PROPERTY PlansEnd
CHECK_DEADLOCK FALSE
