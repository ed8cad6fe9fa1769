SPECIFICATION Spec
CONSTANTS
    anna = anna
    bruno = bruno
    carla = carla
    radio = radio
    rumour = rumour
    null = null
    Placeholder = null
    Agents <- Three
    Emitters <- Radio
    Modes <- Worlds
    Retention = 3
    Novelty = 2
    Faint = 20
    Delay <- Slow
    TopicWindow = 1
INVARIANTS
    HeardWhileKept ReceiptsMatchTheBus AnswersStayInTheThread
PROPERTIES
    CauseBeforeEffect
CHECK_DEADLOCK FALSE
