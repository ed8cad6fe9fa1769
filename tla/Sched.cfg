SPECIFICATION MCSpec
CONSTANTS
    ActiveFrom = 0
    ActiveTo = 0
    Period = 0
    Cooldown = 0
    Quota <- NoLimit
    Hour = 3
    PerTick = 3
    PerHour = 5
    Lifetime = 12
    Policy = "pause"
    Costs = {1, 3}
    ChatCosts = {}
    ChatCap = 0
    Iterations = 2
    MaxTick = 8
INVARIANTS
    OverrunIsOneIteration
    OneIterationPastLife
PROPERTIES
    RoutineIsKept
CHECK_DEADLOCK FALSE
