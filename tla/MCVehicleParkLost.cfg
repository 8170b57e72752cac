SPECIFICATION Spec
CONSTANTS
    Handlers = {h1}
    Reconcilers = {}
    Cleaners = {}
    NoActor = NoActor
    Batches <- CarMessages
    InitialStores <- Empty
    Confirm = 1
    Silence = 2
    MaxLag = 0
    MaxAge = 1
PROPERTY
    ParkIsKept
