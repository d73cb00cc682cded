SPECIFICATION Spec
CONSTANTS
    P = 509
    T = 9
    MulMax = 3
    NB = 2
    d = 297
    sqrtm1 = 208
    BaseX = 10
    BaseY = 205
    L = 61
    Seeds = {3, 1234}
    Messages = {1, 2}
    Scalars = {8, 2184, 65535}
    MaxMoves = 2
    A24 = 274
    Secrets = {0, 65535, 12345, 4321}
    FeW = 1
    ScW = 2
CHECK_DEADLOCK FALSE
INVARIANTS
    PairsMatch
    VerifyIsEquation
    LadderWalks
    PowersAreRight
    FeProductsFit
    FeWrittenLeast
    ScReducesFully
