CONSTANTS
    RESEED_LIMIT = 4
    SEED_SIZE = 2
    FetchSizes = {1, 3, 5}
    ReadFaults = TRUE
    WriteFaults = TRUE
    MaxBoots = 3
    MaxOps = 2
SPECIFICATION Spec
CHECK_DEADLOCK FALSE
INVARIANTS RepeatsOnlyIfAllFails SeedsStaySecret ReseededInTime
