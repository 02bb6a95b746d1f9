SPECIFICATION Spec
CONSTANTS
    Accounts = {alice, bob}
    KeyLengths <- MCKeyLengths
    KeyNames = {k1, k2}
    None = None
    MIN_PUB_KEY_LEN = 32
    MAX_PUB_KEY_LEN = 256
    MaxRegistrations = 3
INVARIANTS
    TypeOK
    EventPerRegistration
    StoredIsLastAccepted
