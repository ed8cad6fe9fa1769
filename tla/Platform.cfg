SPECIFICATION PlatformSpec
CONSTANTS
    N = 5 MaxConcurrent = 2
    anna = anna bruno = bruno s1 = s1 s2 = s2 u = u v = v
    Undefined = Undefined
    Agents <- Two Thinkers <- Two Grounds <- Yards Plans <- Bootstraps Parlours <- Tables Desks <- Rooms WireSize = 1
    Callers <- Two Offices <- Companies Actors <- Two Nets <- Chains Nobody = Nobody Minds <- Heads MaxLoops = 10 Iterations = 3
INVARIANTS
    BatchIsSafe MindsAreServed ExchangesAreWhole HooksAreKept StudioIsTrue MirrorIsTrue
    EntitiesAreHeard ClientsAreKept PhonesAreHonest
PROPERTIES
    EveryWaitEnds
CHECK_DEADLOCK FALSE
