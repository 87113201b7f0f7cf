CONSTANTS
    MAX_ATTEMPTS = 2
    MayRemove = TRUE
    MaxFaults = 2
SPECIFICATION FairSpec
INVARIANTS
    ReadyIsTrue
PROPERTIES
    HandBuiltKept
    GateOpens
