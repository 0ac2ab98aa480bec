CONSTANTS
    BlockSize = 2
    ReadDataSize = 2
    CryptDataSize = 1
    UpLimitSize = 2
    DownLimitSize = 3
    Lengths = {0}
    FaultSets <- NoFault

SPECIFICATION Spec

PROPERTY
    FileCompletes

\* The program ends when Wait has returned.
CHECK_DEADLOCK FALSE
