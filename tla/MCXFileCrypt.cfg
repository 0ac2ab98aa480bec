CONSTANTS
    NumFiles = 3
    Files <- SmallFiles
    Directories <- SmallDirectories
    Limit <- SmallLimit
    Cores = {1, 3}

SPECIFICATION Spec

INVARIANTS
    TypeOK
    FewFilesUnheld
    SleeperIsServed
    WaitedIsWritten
    TotalsAreSums

PROPERTIES
    OthersAreWritten
    OneThreadIsEnough

\* The program ends when it has waited for all files.
CHECK_DEADLOCK FALSE
