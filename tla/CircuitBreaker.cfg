SPECIFICATION FairSpec
CONSTANTS
    Threads = {t1, t2, t3}
    failure_threshold = 3
    half_open_max_calls = 1
    max_retries = 3
    Errors = {"transient", "client", "unlisted"}
INVARIANTS
    TypeOK
    ClosedBelowThreshold
    ProbeInFlight
PROPERTIES
    RecoveryIsTested
    Recovers
