SPECIFICATION Spec
CONSTANTS
    g1 = g1
    g2 = g2
    k1 = k1
    Gates = {g1, g2}
    Keys = {k1}
    MaxLog = 4
    MaxFaults = 2
    Torn = Torn
    None = None
SYMMETRY AnyGate
INVARIANTS
    TypeOK
    RequestsSurviveRestart
PROPERTIES
    DecisionsChangeOnlyBlindly
    RefreshCatchesUp
