CONSTANTS
    MAX_ATTEMPTS = 2
    MayRemove = TRUE
    MaxFaults = 0
SPECIFICATION Spec
INVARIANT
    HealthyHasModel
