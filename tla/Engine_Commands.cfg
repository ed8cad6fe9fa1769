CONSTANTS
    p1 = p1
    p2 = p2
    c1 = c1
    Persons <- OnePerson
    Controls <- OneControl
    MaxTicks = 2
    Iterations = 1
    Policy <- NoBudget
    Loops = {1}
    LoopErrors = FALSE
    HostApi = {}
    MaxHostCalls = 0
SPECIFICATION Spec
INVARIANTS
    CommandsTakeEffect
CHECK_DEADLOCK FALSE
