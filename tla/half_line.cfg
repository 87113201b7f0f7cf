CONSTANTS
    MIN_CHARS = 4
    MAX_CHARS = 7
    WRAPPING = 5
    MaxLength = 9
    MaxParagraphs = 5
SPECIFICATION Spec
CHECK_DEADLOCK FALSE
PROPERTY
    ScannedChunkIsThere
