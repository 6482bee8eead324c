SPECIFICATION FairSpec
CONSTANTS
    j1 = j1
    j2 = j2
    w1 = w1
    Jobs <- TwoJobs
    Windows <- OneWindow
    Window <- SameWindow
    Origin <- PresetAndSchedule
    Faults <- LossFaults
    Actors <- SweepAndDelete
    MaxRetries = 0
    MaxLosses = 1
PROPERTIES
    DeletedStaysDeleted
    EventuallySettled
