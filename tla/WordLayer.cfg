SPECIFICATION WordsSpec
CONSTANTS
    Offsets = {0, 3, 8, 13, 32}
    Sizes = {0, 1, 5, 8, 11, 16, 27}
    KnownRounds = {0, 4, 6, 11, 12}
    MaxCalls = 1
    PartialSizes = {0, 3, 5, 7}
    MaskedRounds = {6, 11}
    MaxMaskedCalls = 2
    MEM_SIZE = 768
    MAX_STEPS = 100000
    MaxStatements = 2
    AvrRounds = {0, 11}
\* A run ends when its calls are used up.
CHECK_DEADLOCK FALSE
INVARIANTS
    BytesAreState
    PermutationIsAscon
    ValueKept
    NoSubsetReveals
    RandomizedAfresh
    EmittedCodeDoesIt
    GeneratedIsAscon
