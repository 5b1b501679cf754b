SPECIFICATION FairSpec
CONSTANTS
    t1 = t1
    t2 = t2
    Tasks = {t1, t2}
    MaxQueue = 8
    MaxRetries = 3
    MaxClaims = 1
    MaxFaults = 2
    MaxRestarts = 1
    MaxForeign = 1
    MayAbort = FALSE
    NoTask = NoTask
INVARIANTS
    PanelMirrorsQueue
PROPERTIES
    CompletionReachesHost
CHECK_DEADLOCK FALSE
