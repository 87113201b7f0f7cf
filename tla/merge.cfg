CONSTANTS
    NWorkers = 1
    NRows = 2
    ROWS_PER_SHARD = 2
    MaxRows = 3
    MaxFaults = 2
    TEST_ROWS = 1
    VALIDATION_ROWS = 1
    SHARE = 2
SPECIFICATION Spec
INVARIANTS
    TypeOK
    ShardSizes
    DamageBounded
    DatasetComplete
    RowsOnce
