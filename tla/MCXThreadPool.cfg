CONSTANTS
    Workers = {w1, w2, w3}
    NumTasks = 3

SPECIFICATION Spec

INVARIANTS
    TypeOK
    OnceInOrder
    NoTaskStranded
    StoppedClean

PROPERTIES
    AddedIsTaken
    StopEndsOutsideWindow

\* The program ends: after Stop nothing is left to do, and it hangs when a task threw.
CHECK_DEADLOCK FALSE
