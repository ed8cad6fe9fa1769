CONSTANTS
    p1 = p1
    p2 = p2
    c1 = c1
    Persons <- TwoPersons
    Controls = {}
    MaxTicks = 2
    Iterations = 2
    Policy <- StoppedByBudget
    Loops = {1}
    LoopErrors = TRUE
    HostApi = {"pause", "stop", "pauseAgent", "resumeAgent", "stopAgent"}
    MaxHostCalls = 2
SPECIFICATION Spec
INVARIANTS
    DecisionsStick AppliedBetweenTicks OneLateAction StopIsThorough
PROPERTIES
    LoopsEnd ImplementsClock
CHECK_DEADLOCK FALSE
