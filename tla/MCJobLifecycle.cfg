SPECIFICATION Spec
CONSTANTS
    j1 = j1
    j2 = j2
    w1 = w1
    Jobs <- TwoJobs
    Windows <- OneWindow
    Window <- SameWindow
    Origin <- FetchAndSchedule
    Faults <- UserFaults
    Actors <- CancelOnly
    MaxRetries = 1
    MaxLosses = 1
INVARIANTS
    TypeOK
    FetchExclusive
PROPERTIES
    CancelsOnlyActive
CHECK_DEADLOCK FALSE
