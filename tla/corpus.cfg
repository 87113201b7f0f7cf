CONSTANTS
    Scanners = {"coordinator"}
    Content <- TwoBatches
    NText = 2
    NBatches = 2
    MaxFaults = 2
SPECIFICATION FairSpec
INVARIANTS
    AckedIsOnDisk
    LostBounded
    ListedOnce
    NothingMissed
PROPERTY
    StartsIfSound
