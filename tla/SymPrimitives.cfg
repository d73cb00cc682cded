SPECIFICATION MCSpec
CONSTANTS
    StateLen = 7
    DigestLens = {1, 2}
    MaxMsg = 13
    MaxOut = 7
    Block = 6
    LenLen = 1
    Width = 16
    RoundK <- MCRoundK
    RoundInputs <- MCRoundInputs
    KeccakStarts <- MCStarts
    N = 3
    MaskAt = {1}
    Key = {1, 3, 4, 6}
    AdBytes = {{0, 2, 5}}
    PtBytes = {{7}, {0, 1, 2, 3, 4, 5, 6, 7}}
    MaxAd = 4
    MaxPt = 7
    E4_ID_LEN = 2
    MemLen = 10
    Ids <- MCIds
    Encodings <- MCEncodings
CHECK_DEADLOCK FALSE
INVARIANTS
    Sha3IsSponge
    Sha512DigestIsFips
    KeccakIsFips
    Sha512RoundsAreFips
    AesIsFips
    SivIsRfc
    StringsFit
