SPECIFICATION Spec
CONSTANTS
    MaxScan = 2
    MaxPosts = 2
    MaxAsks = 2
    Views = {"v", "w"}
    MaxScans = 3
    MaxFailures = 1
INVARIANTS
    LiveTypeOK
    GoesBandServable
PROPERTIES
    FollowsTheRightJob
    ControlsAreTrue
    ComparisonIsOfThisView
CHECK_DEADLOCK FALSE
