SPECIFICATION Spec
CONSTANTS
    LOCK_BLOCK_EXPIRATION = 1
    Runs = {r1, r2}
    VerilogCids = {v}
    NbDigits = {2}
    Users = {alice, bob}
    SignerAccounts = {alice}
    Executors <- BothExecutors
    EnvVars <- AllEnvVars
    None = None
    MaxJobs = 2
    MaxBlock = 3
    MaxCrashes = 1
SYMMETRY RunSymmetry
INVARIANTS
    TypeOK
    CalledJobIsGone
    MutualExclusion
    LockHasOwner
    NewestJobAccounted
    AttemptsBounded
    PublishedOncePerAttempt
    PackageFromOneJob
PROPERTY ImplementsLifecycle
