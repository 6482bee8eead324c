SPECIFICATION Spec
CONSTANTS
    Jobs = {"a", "b"}
    FailureThreshold = 2
    MaxRetries = 2
    MaxCalls = 3
    MaxRequests = 1
    maxRetries = 2
    MaxWrites = 1
    Fields = {"fps"}
    Values = {1, 2, 3}
    Valid = {1, 2}
    Versions = {10, 11, 20}
    Routes = {"/", "/settings"}
    MaxVisits = 1
    MAX_QUEUE = 1
    MaxErrors = 2
    MaxReads = 2
    PerPage = 1
    StudioSatellites = {"GOES-16", "GOES-19"}
    FirstSatellite = "GOES-16"
    MaxItems = 1
    Urls = {"u1", "u2"}
INVARIANTS
    PreviewIsDrawn
CHECK_DEADLOCK FALSE
