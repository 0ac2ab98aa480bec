CONSTANTS
    Workers = {w1, w2}
    NumTasks = 1

SPECIFICATION Spec

INVARIANT
    InitStartsAll

\* The program ends: after Stop nothing is left to do.
CHECK_DEADLOCK FALSE
