SPECIFICATION ModesSpec
CONSTANTS
    WORD = 2
    BASE = 2
    BITS = 2
    Algorithms <- MCNone
    Pieces = {0, 1, 3}
    MaxText = 6
    AdLengths = {0, 1, 4}
    MaxStarts = 2
    Profiles <- MCConstructed
    Texts <- MCTexts
    StartNonces <- MCStartNonces
    MAX_OUTLEN = 20
    HASH_SIZE = 2
    COUNTERS = 4
    KeyedKinds <- MCNone
    Givens <- MCGivens
    InfoLengths = {0, 3}
    InPieces <- MCInPieces
    MaxIn <- MCMaxIn
    OutPieces = {0, 1, 3, 5}
    MaxOut = 8
    MaxPhases = 2
    MaxExpands = 3
    Functions <- MCNone
    Counts = {0, 1, 2, 3}
    CallLengths <- MCCallLengths
    MaxCalls = 2
INVARIANT UsesTheKeyGiven
\* The sessions end when their packets are used up.
CHECK_DEADLOCK FALSE
