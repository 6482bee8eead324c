SPECIFICATION Spec
CONSTANTS
    Listeners = {"a", "b"}
    MAX_RETRIES = 2
    MaxSockets = 3
    MaxRequests = 1
    Ids = {1, 2}
    Ends = {"completed", "failed"}
    MaxWork = 3
    PageWork = 1
    ListLimit = 1
    BarLimit = 1
    Filters = {"All", "Running"}
    MaxNotes = 2
    ShownRows = 1
    LogLimit = 2
    MaxLines = 4
    MaxLosses = 1
INVARIANTS
    StatusIsTrue
    NoLineMissing
PROPERTIES
    NothingUndone
    ShellSettles
