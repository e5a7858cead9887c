\* Two Homes that start, beat, stall, stop, crash and come back, until nothing fails any more.
CONSTANTS
    Homes = {1, 2}
    Timeout = 2
    MaxStarts = 2
    MaxTerm = 2
SPECIFICATION FairSpec
INVARIANT MastersAgree
PROPERTY GateIsLeadership
PROPERTY ElectionSettles
CHECK_DEADLOCK FALSE
