SPECIFICATION FairSpec
CONSTANTS
    LOCK_BLOCK_EXPIRATION = 3
    Runs = {r1, r2}
    VerilogCids = {v}
    NbDigits = {2}
    Users = {bob}
    SignerAccounts = {alice}
    Executors <- NativeOnly
    EnvVars <- AllEnvVars
    None = None
    MaxJobs = 2
    MaxBlock = 3
    MaxCrashes = 0
PROPERTY ResultIsPublished
