CONSTANTS
    NoOwner = NoOwner
    Workers = {w1,w2}
    NItems = 2
    LEASE_TTL = 1
    MAX_ITEM_RETRIES = 2
    BatchSize = 1
    SaveEvery = 3
    SaveMayFail = TRUE
    MaxAttempts = 4
    MaxCompleted = 4
SYMMETRY Symmetric
SPECIFICATION Spec
INVARIANTS
    TypeOK
    RetryBudget
    HandedIsTracked
    CleanMeansRecoverable
    BoundedLoss
PROPERTIES
    LiveLeaseKept
    ImplementsStore
