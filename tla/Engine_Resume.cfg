CONSTANTS
    p1 = p1
    p2 = p2
    c1 = c1
    Persons <- OnePerson
    Controls <- OneControl
    MaxTicks = 2
    Iterations = 1
    Policy <- ControlPausedByBudget
    Loops = {1, 2}
    LoopErrors = FALSE
    HostApi = {"pause", "resume", "pauseAgent"}
    MaxHostCalls = 4
SPECIFICATION Spec
INVARIANTS
    ClockWithinMaxTicks
    RunningWorldHasLoop
CHECK_DEADLOCK FALSE
