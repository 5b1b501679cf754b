SPECIFICATION Spec
CONSTANTS
    t1 = t1
    t2 = t2
    key = key
    d1 = d1
    d2 = d2
    Tasks = {t1, t2}
    Dispatchers = {d1, d2}
    Claimers = {"gateway:host"}
    Claimer <- OneClaimer
    Keys = {key}
    Key <- SameKey
    Limit <- DefaultLimit
    NoClaim = NoClaim
    NoRun = NoRun
    NoKey = NoKey
    NoTask = NoTask
    Rank <- OlderFirst
    MaxSpawn = 2
    MayLink = {}
    BootRecovery = TRUE
    RunnerMayFail = TRUE
    Controls = TRUE
    MaxCrashes = 2
PROPERTIES
    LiveClaimTaken
    
SYMMETRY AnyDispatcher
