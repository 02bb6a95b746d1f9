SPECIFICATION Spec
CONSTANTS
    LOCK_BLOCK_EXPIRATION = 0
    Runs = {r1, r2}
    Users = {bob}
    SignerAccounts = {alice}
    None = None
    Radix = 2
    NbMessageDigits = 1
    MAX_NUMBER_PENDING_CIRCUITS_PER_ACCOUNT = 1
    NonceModulus = 4
    MaxJobs = 2
    MaxBlock = 2
SYMMETRY RunSymmetry
INVARIANTS
    TypeOK
    PendingCodeIsChecked
    CallbackAllOrNothing
    SeedsDistinct
PROPERTY ImplementsLifecycle
