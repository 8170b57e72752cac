SPECIFICATION FairSpec
CONSTANTS
    m1 = m1
    m2 = m2
    Messages = {m1, m2}
    Cases <- AllCases
    Handlers = {h1, h2}
    Ids = {1, 2}
    MaxRedeliveries = 2
    Capacity = 1
    MaxBreaks = 1
    NoMessage = NoMessage
    NoId = NoId
INVARIANT
    TypeOK
    AckedWasHandled
PROPERTY
    EveryMessageSettles
    EvictedIsOldest
    ContractSpec
CHECK_DEADLOCK FALSE
