\* Every dependency graph on three tasks and every combination of start rows.
SPECIFICATION LoopSpec
CONSTANTS
    t1 = t1
    t2 = t2
    t3 = t3
    Task <- MCTask
    Order <- MCOrder
    Graphs <- MCGraphs
    StartRows <- MCStartRows
CHECK_DEADLOCK FALSE
INVARIANTS LoopReachesLeastClosedSet
PROPERTY LoopEnds
