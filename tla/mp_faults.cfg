SPECIFICATION FairSpec
CONSTANTS
    t1 = t1
    t2 = t2
    Tasks = {t1}
    MaxQueue = 2
    MaxRetries = 2
    MaxClaims = 2
    MaxFaults = 14
    MaxRestarts = 1
    MaxForeign = 0
    MayAbort = TRUE
    NoTask = NoTask
INVARIANTS
    TypeOK
PROPERTIES
    OutcomeIsFinal
    WorkerDrains
CHECK_DEADLOCK FALSE
