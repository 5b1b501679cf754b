SPECIFICATION FairSpec
CONSTANTS
    m1 = m1
    m2 = m2
    Missions = {m1, m2}
    Events <- FourEvents
    MissionOf <- Alternate
    At <- Shared
    Pos <- InOrder
    Limit = 3
    MaxProcessed = 3
    MaxFaults = 2
    NoEvent = NoEvent
INVARIANTS
    TypeOK
    NoActionPassedOver
    RequestedOncePerFault
PROPERTIES
    RequestsInOrder
    ActionsHandled
