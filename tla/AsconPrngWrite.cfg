CONSTANTS
    RESEED_LIMIT = 4
    SEED_SIZE = 2
    FetchSizes = {1, 3, 5}
    ReadFaults = FALSE
    WriteFaults = TRUE
    MaxBoots = 3
    MaxOps = 3
SPECIFICATION Spec
CHECK_DEADLOCK FALSE
INVARIANT NeverRepeats
