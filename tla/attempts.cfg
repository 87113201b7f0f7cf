CONSTANTS
    Workers = {w1, w2}
    Modalities = {"text", "audio"}
    NLangs = 2
    MAX_RETRIES = 2
    BACKOFF = 5
    MaxFaults = 1
SPECIFICATION FairSpec
INVARIANTS
    FreshConversation
    NotGivenUpEarly
    RetriesBounded
    TempsBounded
    TranscribedOnce
PROPERTIES
    AttemptEnds
    ImplementsAttempts
