SPECIFICATION FairSpec
CONSTANTS
    LOCK_BLOCK_EXPIRATION = 1
    Runs = {r1, r2}
    VerilogCids = {}
    NbDigits = {2}
    Users = {bob}
    SignerAccounts = {}
    Executors <- BothExecutors
    EnvVars <- AllEnvVars
    None = None
    MaxJobs = 2
    MaxBlock = 4
    MaxCrashes = 1
PROPERTY PendingJobTaken
