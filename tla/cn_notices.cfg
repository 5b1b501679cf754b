SPECIFICATION FairSpec
CONSTANTS
    a = a
    b = b
    c = c
    Tasks = {a, b, c}
    GoalTasks = {c}
    Rank <- Created
    MaxTurns = 2
    FailureLimit <- RetryForA
    BatchLimit = 2
    MaxFaults = 1
    MaxDrains = 2
    None = None
INVARIANTS
    TypeOK
    NotesToldOnce
    AnnouncedAgainOnlyUnrecorded
    OutcomesInOrder
PROPERTIES
    OutcomesNotified
CHECK_DEADLOCK FALSE
