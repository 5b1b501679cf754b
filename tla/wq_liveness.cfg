SPECIFICATION FairSpec
CONSTANTS
    t1 = t1
    t2 = t2
    key = key
    d1 = d1
    d2 = d2
    Tasks = {t1, t2}
    Dispatchers = {d1, d2}
    Claimers = {"gateway:host"}
    Claimer <- OneClaimer
    Keys = {key}
    Key <- NoKeys
    Limit <- DefaultLimit
    NoClaim = NoClaim
    NoRun = NoRun
    NoKey = NoKey
    NoTask = NoTask
    Rank <- OlderFirst
    MaxSpawn = 1
    MayLink <- T1BeforeT2
    BootRecovery = TRUE
    RunnerMayFail = FALSE
    Controls = FALSE
    MaxCrashes = 1
PROPERTIES
    EnqueuedCompletes
