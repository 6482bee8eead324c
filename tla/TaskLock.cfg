SPECIFICATION FairSpec
CONSTANTS
    Deliveries = {d1, d2, d3}
    TASK_IDEMPOTENCY_TTL_SECONDS = 5
    task_time_limit = 5
INVARIANTS
    TypeOK
    KeyOutlivesRun
PROPERTIES
    MutexSpec
    LockIsTemporary
