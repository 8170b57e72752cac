SPECIFICATION Spec
CONSTANTS
    Handlers = {h1}
    Reconcilers = {}
    Cleaners = {c1}
    NoActor = NoActor
    Batches <- AllMessages
    InitialStores <- Empty
    Confirm = 2
    Silence = 2
    MaxLag = 1
    MaxAge = 2
INVARIANT
    SubFsmsFollowState
PROPERTY
    ParkIsConfirmed
