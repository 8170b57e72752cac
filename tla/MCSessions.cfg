SPECIFICATION FairSpec
CONSTANTS
    Drives = {d1, d2}
    Charges = {c1}
    Handlers = {h1}
    Kinds <- Fields
    MergeWindow = 1
    ZeroTimeout = 0
    Stale = 1
    Fresh = 1
    DriveLimit = 2
    ChargeLimit = 2
    DriveHorizon = 2
    ChargeHorizon = 2
    StartCap = 3
    MaxLag = 1
    MaxFaults = 1
    None = None
INVARIANTS
    TypeOK
    OrphansBounded
    CanonicalStart
    OverlapIsLate
PROPERTIES
    OrphansClose
    SilentDriveEnds
