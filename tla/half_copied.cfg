CONSTANTS
    Scanners = {"coordinator"}
    Content <- OneFile
    NText = 1
    NBatches = 0
    MaxFaults = 0
SPECIFICATION Spec
INVARIANT
    ChunkListedOnce
