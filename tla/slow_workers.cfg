CONSTANTS
    NoOwner = NoOwner
    Workers = {w1,w2}
    NItems = 2
    NLangs = 2
    LEASE_TTL = 1
    MAX_ITEM_RETRIES = 2
    BatchSize = 2
    SaveEvery = 2
    SaveMayFail = FALSE
    MaxAttempts = 6
    MaxCompleted = 3
    MaxTears = 0
    MaxFaults = 0
SYMMETRY Symmetric
SPECIFICATION Spec
INVARIANTS
    LeaseAgreement
    NoOrphanLease
PROPERTIES
    DoneIsFinal
