SPECIFICATION FairSpec
CONSTANTS
    Threads = {t1, t2}
    failure_threshold = 2
    half_open_max_calls = 1
    max_retries = 2
    Errors = {"transient", "client", "unlisted"}
PROPERTIES
    HealsWithS3
