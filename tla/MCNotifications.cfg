SPECIFICATION FairSpec
CONSTANTS
    Api = Api
    Worker = Worker
    MaxRequests = 2
    MaxAtWork = 1
    Schedules = {s1}
    Severities = {info}
    Plain = info
    MaxAttempts = 2
    MaxFaults = 1
INVARIANTS
    TypeOK
    SentWasDelivered
    RowsAreExact
    DuplicatesBounded
    RunsBounded
    NothingLost
PROPERTIES
    Settles
