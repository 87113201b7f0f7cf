CONSTANTS
    MAX_ATTEMPTS = 2
    MayRemove = FALSE
    MaxFaults = 0
SPECIFICATION Spec
PROPERTY
    NeverClobbered
