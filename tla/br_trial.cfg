SPECIFICATION FairSpec
CONSTANTS
    c1 = c1
    c2 = c2
    c3 = c3
    c4 = c4
    c5 = c5
    Calls = {c1, c2, c3, c4, c5}
    Threshold = 2
    MaxAttempts = 2
    None = None
INVARIANTS
    TypeOK
    SingleTrial
PROPERTIES
    TrialEnds
CHECK_DEADLOCK FALSE
