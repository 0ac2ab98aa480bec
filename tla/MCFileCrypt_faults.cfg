CONSTANTS
    BlockSize = 2
    ReadDataSize = 2
    CryptDataSize = 1
    UpLimitSize = 2
    DownLimitSize = 3
    Lengths = {0, 7, 8}
    FaultSets <- AnyFault

SPECIFICATION Spec

INVARIANTS
    TypeOK
    InOrder
    WholeOnReturn
    SleeperHasNotifier
    AllReleased

PROPERTIES
    StopReachesRead

\* The program ends when Wait has returned.
CHECK_DEADLOCK FALSE
