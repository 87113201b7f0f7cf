CONSTANTS
    MIN_CHARS = 3
    MAX_CHARS = 4
    WRAPPING = 1
    MaxLength = 8
    MaxParagraphs = 5
SPECIFICATION Spec
CHECK_DEADLOCK FALSE
INVARIANTS
    SizeBounded
    CutsAreGreedy
PROPERTY
    EarlierChunksStay
