CONSTANTS
    Workers = {w1, w2}
    NumTasks = 1

SPECIFICATION Spec

PROPERTY
    StopEnds

\* The program ends: after Stop nothing is left to do.
CHECK_DEADLOCK FALSE
