SPECIFICATION Spec
CONSTANTS
    Rows = {r1, r2}
    Dispatchers = {d1, d2}
    NoRow = NoRow
    BatchSize = 2
    MaxAttempts = 2
    BackoffBase = 1
    BackoffMax = 2
    LeaseTicks = 6
    PublishTicks = 1
    DbTicks = 1
    MaxFaults = 1
SYMMETRY Symmetry
INVARIANTS
    Exclusive
    LeaseOutlastsBatch
PROPERTIES
    SettledIsFinal
    ContractSpec
