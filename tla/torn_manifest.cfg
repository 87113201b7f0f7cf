CONSTANTS
    Scanners = {"coordinator"}
    Content <- OneRow
    NText = 1
    NBatches = 0
    MaxFaults = 1
SPECIFICATION FairSpec
PROPERTY
    ComesBack
