\* a tick is a little more than three seconds
SPECIFICATION FairSpec
CONSTANTS
    Runs = {r1, r2}
    MILLISECS_PER_BLOCK = 2
    DEADLINE = 3
    LOCK_TIMEOUT_EXPIRATION = 3
    LOCK_BLOCK_EXPIRATION = 3
    MaxQueue = 2
    MaxJobs <- HooksMaxJobs
    MaxCrashes = 1
INVARIANTS
    TypeOK
    CircuitsExclusiveUnlessLate
    GarbleExclusiveUnlessLate
PROPERTY JobTaken
