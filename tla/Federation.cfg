CONSTANTS
    Worlds = {a, b}
    Transports = {"memory", "redis"}
    Writers = {a, b}
    Stoppable = {b}
    MaxLetters = 2
    Broadcasts = {2}
SPECIFICATION Spec
INVARIANTS
    ReachedOrGone
PROPERTIES
    QueuedLettersAreTaken ImplementsPost
CHECK_DEADLOCK FALSE
