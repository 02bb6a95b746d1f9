SPECIFICATION Spec
CONSTANTS
    Accounts = {alice, bob}
    Cids = {cid, long}
    LongCids = {long}
    MessageVectors <- MCMessageVectors
    PinpadVectors <- MCPinpadVectors
    Inputs <- MCInputs
    NonUtf8 <- MCNonUtf8
    MaxDigits = 3
    LogInfo = TRUE
    MaxVerdicts = 2
    None = None
INVARIANTS
    TypeOK
    PassesWhatSpellsMessage
    OneCodePasses
