CONSTANTS
    NWorkers = 1
    NRows = 1
    ROWS_PER_SHARD = 1
    MaxRows = 1
    MaxFaults = 0
    TEST_ROWS = 1
    VALIDATION_ROWS = 1
    SHARE = 2
SPECIFICATION Spec
INVARIANT
    CardIsTrue
