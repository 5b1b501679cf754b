SPECIFICATION FairSpec
CONSTANTS
    r1 = r1
    r2 = r2
    t1 = t1
    Requests = {r1, r2}
    TurnIds = {t1}
    TurnOf <- SameTurn
    Asking = {r1, r2}
    None = None
INVARIANTS
    TypeOK
    TableNamesRunningTurn
    ClaimantStaysReachable
    ToolsNeedApproval
PROPERTIES
    StreamsEnd
    CancelledTurnsEnd
