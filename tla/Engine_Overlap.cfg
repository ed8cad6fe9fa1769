CONSTANTS
    p1 = p1
    p2 = p2
    c1 = c1
    Persons <- OnePerson
    Controls = {}
    MaxTicks = 3
    Iterations = 1
    Policy <- NoBudget
    Loops = {1, 2}
    LoopErrors = FALSE
    HostApi = {"pause", "resume"}
    MaxHostCalls = 2
SPECIFICATION Spec
INVARIANTS
    OneTickAtATime
CHECK_DEADLOCK FALSE
