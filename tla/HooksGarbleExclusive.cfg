\* a tick is a little more than three seconds
SPECIFICATION Spec
CONSTANTS
    Runs = {r1, r2}
    MILLISECS_PER_BLOCK = 2
    DEADLINE = 3
    LOCK_TIMEOUT_EXPIRATION = 3
    LOCK_BLOCK_EXPIRATION = 3
    MaxQueue = 1
    MaxJobs <- HooksMaxJobs
    MaxCrashes = 0
INVARIANT GarbleExclusive
