SPECIFICATION Spec
CONSTANTS
    p1 = p1
    p2 = p2
    p3 = p3
    Agents <- ThreeAgents
    Ids = {1, 2}
    Groups <- PairAndAll
    Limits = {2}
    StaleThreshold = 0
    Iterations = 1
    Lines = 0
    MaxTick = 2
    Ending = TRUE
INVARIANTS
    MembershipIsLive TurnOrder StaleBound
CHECK_DEADLOCK FALSE
