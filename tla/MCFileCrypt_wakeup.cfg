CONSTANTS
    BlockSize = 2
    ReadDataSize = 2
    CryptDataSize = 1
    UpLimitSize = 2
    DownLimitSize = 3
    Lengths = {9, 10}
    FaultSets <- NoFault

SPECIFICATION Spec

PROPERTY
    NonEmptyFileCompletes

\* The program ends when Wait has returned.
CHECK_DEADLOCK FALSE
