CONSTANTS
    Scanners = {"coordinator"}
    Content <- TwoBatches
    NText = 2
    NBatches = 2
    MaxFaults = 1
SPECIFICATION Spec
INVARIANT
    FetchContinues
