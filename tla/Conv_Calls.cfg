SPECIFICATION Spec
CONSTANTS
    p1 = p1
    p2 = p2
    p3 = p3
    Agents <- ThreeAgents
    Ids = {1, 2}
    Groups <- NoGroups
    Limits = {}
    StaleThreshold = 1
    Iterations = 1
    Lines = 1
    MaxTick = 3
    Ending = FALSE
SYMMETRY Symmetry
INVARIANTS
    RightToSpeakHeld
PROPERTIES
    ImplementsExchange
CHECK_DEADLOCK FALSE
