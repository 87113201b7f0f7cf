CONSTANTS
    Workers = {w1}
    Modalities = {"audio"}
    NLangs = 1
    MAX_RETRIES = 1
    BACKOFF = 5
    MaxFaults = 1
SPECIFICATION Spec
INVARIANT
    CachedIsWhole
