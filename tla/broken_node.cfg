CONSTANTS
    MAX_ATTEMPTS = 2
    MayRemove = FALSE
    MaxFaults = 1
SPECIFICATION Spec
PROPERTY
    BrokenNodeIdles
