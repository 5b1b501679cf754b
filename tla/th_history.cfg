SPECIFICATION Spec
CONSTANTS
    r1 = r1
    r2 = r2
    r3 = r3
    t1 = t1
    t2 = t2
    Requests = {r1, r2, r3}
    TurnIds = {t1, t2}
    TurnOf <- TwoOfOneTurn
    ClientIds = {r3}
    FullLimit = 3
    MaxCrashes = 1
    MaxOthers = 1
    None = None
SYMMETRY SameTurn
INVARIANTS
    TypeOK
    AnswerReadable
PROPERTIES
    AnswersStayReadable
