SPECIFICATION Spec
CONSTANTS
    ActiveFrom = 0
    ActiveTo = 0
    Period = 0
    Cooldown = 0
    Quota = 2
    Hour = 3
    PerTick <- NoLimit
    PerHour <- NoLimit
    Lifetime <- NoLimit
    Policy = "pause"
    Costs = {1, 3}
    ChatCosts = {}
    ChatCap = 0
    Iterations = 2
    MaxTick = 8
INVARIANTS
    QuotaIsHourly
CHECK_DEADLOCK FALSE
