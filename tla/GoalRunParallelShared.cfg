\* Two processes on one store, two calls, crashes anywhere.
SPECIFICATION ParSpec
CONSTANTS
    a = a
    b = b
    c = c
    Task = {a, b}
    DependsOn <- Pair
    HasCommand = {a, b}
    Idempotent = {a}
    Uncertain = {}
    MaxAttempts = 2
    RetryLimit = 3
    TicketRetry = 3
    MaxTime = 1
    Proc = {p1, p2}
    NoTask = NoTask
    Ticketed = FALSE
    MaxRuns = 2
    LaneCap = 1
    LeaseTime = 1
SYMMETRY Swap
CHECK_DEADLOCK FALSE
INVARIANTS VerifiedTruth RealWorkOnRealWork
