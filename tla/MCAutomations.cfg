SPECIFICATION FairSpec
CONSTANTS
    a1 = a1
    s1 = s1
    s2 = s2
    Automations = {a1}
    Schedules = {s1, s2}
    Owner <- SmallOwner
    NoSchedule = NoSchedule
    Editors = {e1}
    Actions = 2
    MaxFires = 1
    Window = 1
    MaxRuns = 2
    MaxReloads = 1
    MaxFaults = 1
INVARIANTS
    TypeOK
    ScheduleIsCurrent
    NoStrayJob
    SuccessIsComplete
    HistoryIsComplete
    RapidFireBounded
PROPERTIES
    Settles
