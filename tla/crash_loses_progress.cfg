CONSTANTS
    NoOwner = NoOwner
    Workers = {w1}
    NItems = 1
    LEASE_TTL = 0
    MAX_ITEM_RETRIES = 2
    BatchSize = 1
    SaveEvery = 3
    SaveMayFail = FALSE
    MaxAttempts = 2
    MaxCompleted = 3
SPECIFICATION Spec
PROPERTIES
    DoneSurvivesDowntime
