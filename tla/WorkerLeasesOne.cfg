\* Two threads of one process with one store object.
SPECIFICATION Spec
CONSTANTS
    w1 = w1
    w2 = w2
    w3 = w3
    op1 = op1
    auto = auto
    operator = operator
    c1 = c1
    c2 = c2
    s1 = s1
    Worker = {w1, w2, w3, op1}
    MayUse <- MCMayUse
    Lane = {auto, operator}
    LaneOf <- MCLaneOf
    Cap <- MCCap
    Caller = {c1, c2}
    Store = {s1}
    StoreOf <- OneProcess
    NoCaller = NoCaller
    Duration = 2
    MaxTime = 4
CHECK_DEADLOCK FALSE
PROPERTIES FreshGrantWithinCap OnlyHolderReleases
