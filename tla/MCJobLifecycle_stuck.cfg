SPECIFICATION FairSpec
CONSTANTS
    j1 = j1
    j2 = j2
    w1 = w1
    Jobs <- OneJob
    Windows <- OneWindow
    Window <- SameWindow
    Origin <- AllFetch
    Faults <- NoFaults
    Actors <- SweepOnly
    MaxRetries = 0
    MaxLosses = 0
PROPERTIES
    EventuallySettled
CHECK_DEADLOCK FALSE
