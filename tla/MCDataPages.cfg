SPECIFICATION Spec
CONSTANTS
    MaxRequests = 2
    MaxRules = 2
    MaxSaved = 2
    MaxComposites = 3
    CompositePage = 2
    MaxCollections = 2
    Selections = {s1, s2}
INVARIANTS
    DataPagesTypeOK
    RequestsServable
    ReportsAreTrue
    LateAnswersDoNoHarm
    ReloadRestoresWork
PROPERTIES
    PagesComeBack
CHECK_DEADLOCK FALSE
