SPECIFICATION FairSpec
CONSTANTS
    t1 = t1
    t2 = t2
    key = key
    d1 = d1
    d2 = d2
    Tasks = {t1}
    Dispatchers = {d1}
    Claimers = {"gateway:host"}
    Claimer <- OneClaimer
    Keys = {key}
    Key <- NoKeys
    Limit <- DefaultLimit
    NoClaim = NoClaim
    NoRun = NoRun
    NoKey = NoKey
    NoTask = NoTask
    Rank <- OnlyT1
    MaxSpawn = 1
    MayLink = {}
    BootRecovery = FALSE
    RunnerMayFail = TRUE
    Controls = FALSE
    MaxCrashes = 0
PROPERTIES
    ReadyIsDispatched
