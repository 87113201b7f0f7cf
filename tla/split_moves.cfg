CONSTANTS
    NWorkers = 1
    NRows = 3
    ROWS_PER_SHARD = 3
    MaxRows = 3
    MaxFaults = 0
    TEST_ROWS = 1
    VALIDATION_ROWS = 1
    SHARE = 2
SPECIFICATION Spec
PROPERTIES
    SplitIsStable
