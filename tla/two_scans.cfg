CONSTANTS
    Scanners = {"coordinator", "hand"}
    Content <- OneRow
    NText = 1
    NBatches = 0
    MaxFaults = 3
SPECIFICATION Spec
INVARIANTS
    TypeOK
    NothingMissed
PROPERTY
    ManifestGrows
