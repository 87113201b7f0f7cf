CONSTANTS
    Scanners = {"coordinator"}
    Content <- SameContent
    NText = 2
    NBatches = 0
    MaxFaults = 0
SPECIFICATION Spec
INVARIANT
    IdListedOnce
