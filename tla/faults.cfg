CONSTANTS
    NoOwner = NoOwner
    Workers = {w1,w2}
    NItems = 1
    NLangs = 2
    LEASE_TTL = 0
    MAX_ITEM_RETRIES = 2
    BatchSize = 1
    SaveEvery = 2
    SaveMayFail = FALSE
    MaxAttempts = 6
    MaxCompleted = 3
    MaxTears = 2
    MaxFaults = 2
SYMMETRY Symmetric
SPECIFICATION Spec
INVARIANTS
    TypeOK
    DoneHasOutput
