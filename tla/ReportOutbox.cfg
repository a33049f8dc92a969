\* Two processes on one database, one report with a URL and one without.
SPECIFICATION Spec
CONSTANTS
    k1 = k1
    k2 = k2
    p1 = p1
    p2 = p2
    s1 = s1
    s2 = s2
    Key = {k1, k2}
    HasUrl = {k1}
    MaxAttempts = 2
    Proc = {p1, p2}
    Store = {s1, s2}
    StoreOf <- TwoProcesses
    NoProc = NoProc
    MaxPosts = 4
CHECK_DEADLOCK FALSE
INVARIANTS TypeOK SentWasAccepted GivenUpAfterMaxAttempts OneCreator
