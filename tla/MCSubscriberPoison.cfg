SPECIFICATION Spec
CONSTANTS
    m1 = m1
    m2 = m2
    Messages = {m1, m2}
    Cases <- StrictOnly
    Handlers = {h1, h2}
    Ids = {1, 2}
    MaxRedeliveries = 2
    Capacity = 2
    MaxBreaks = 2
    NoMessage = NoMessage
    NoId = NoId
INVARIANT
    PoisonIsCapped
CHECK_DEADLOCK FALSE
