CONSTANTS
    BlockSize = 2
    ReadDataSize = 2
    CryptDataSize = 1
    UpLimitSize = 2
    DownLimitSize = 3
    Lengths = {0, 1, 2, 9, 10}
    FaultSets <- NoThread

SPECIFICATION Spec

PROPERTIES
    BacklogStaysBounded
    Completes
    SleepersWake
    WriterCompletes
    ImplementsTransform
    ImplementsChain

\* The program ends when Wait has returned.
CHECK_DEADLOCK FALSE
