CONSTANTS
    Args = 1
    TAG_SIZE = 2
    BUFSIZ = 4
    MAX_FILE_SIZE = 4
    PlainLengths = {0, 1, 4, 5}
    WriteFaults = TRUE
    OtherFaults = TRUE
SPECIFICATION Spec
CHECK_DEADLOCK FALSE
INVARIANT DecryptedIsWhole
