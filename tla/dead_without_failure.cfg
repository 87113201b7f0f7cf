CONSTANTS
    NoOwner = NoOwner
    Workers = {w1,w2}
    NItems = 1
    NLangs = 1
    LEASE_TTL = 0
    MAX_ITEM_RETRIES = 2
    BatchSize = 1
    SaveEvery = 3
    SaveMayFail = FALSE
    MaxAttempts = 6
    MaxCompleted = 4
    MaxTears = 0
    MaxFaults = 2
SYMMETRY Symmetric
SPECIFICATION Spec
INVARIANTS
    DeadOnlyAfterFailures
