SPECIFICATION Spec
CONSTANTS
    Handlers = {h1}
    Reconcilers = {r1}
    Cleaners = {c1}
    NoActor = NoActor
    Batches <- DriveMessages
    InitialStores <- Empty
    Confirm = 1
    Silence = 2
    MaxLag = 0
    MaxAge = 1
INVARIANTS
    TypeOK
    OneSession
    SpeedFallbackOff
PROPERTY
    TableIsKept
