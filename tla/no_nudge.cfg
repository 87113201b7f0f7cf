CONSTANTS
    Workers = {w1}
    Modalities = {"text"}
    NLangs = 1
    MAX_RETRIES = 3
    BACKOFF = 5
    MaxFaults = 0
SPECIFICATION Spec
INVARIANT
    Nudged
