CONSTANTS
    Args = 2
    TAG_SIZE = 2
    BUFSIZ = 4
    MAX_FILE_SIZE = 4
    PlainLengths = {0, 1, 4, 5}
    WriteFaults = FALSE
    OtherFaults = TRUE
SPECIFICATION Spec
CHECK_DEADLOCK FALSE
INVARIANTS SuccessIsExact FailureLeavesNoOutput
PROPERTY Terminates
