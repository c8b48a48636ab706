SPECIFICATION Spec
CONSTANTS
    BlockSize = 4
    WordSize = 1
    LoModulus = 8
    HiModulus = 2
    MaxPiece = 17
    MaxMessage = 20
INVARIANTS
    TypeOK
    NothingLost
    HashIsStandard
