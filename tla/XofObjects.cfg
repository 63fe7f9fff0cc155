CONSTANTS
    WORD = 2
    Variants = {"xof", "xofa"}
    MAX_OUTLEN = 20
    Objects = {x1, x2}
    x1 = x1
    x2 = x2
    Lengths = {0, 1, 3, 5}
    OutLengths = {3, 8, 20}
    NameLengths = {0, 9}
    CustomLengths = {0, 1}
    MaxPermutes = 6
    MaxPairPermutes = 2
    MaxPhaseStart = 3
SPECIFICATION Spec
SYMMETRY ObjectSymmetry
INVARIANTS StateIsReference OutputIsStream OneShotAgrees ParametersSeparate
