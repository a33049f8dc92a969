\* One process at a time, two calls, crashes anywhere.
SPECIFICATION FairParSpec
CONSTANTS
    a = a
    b = b
    c = c
    Task = {a, b, c}
    DependsOn <- Flat
    HasCommand = {a}
    Idempotent = {}
    Uncertain = {}
    MaxAttempts = 2
    RetryLimit = 3
    TicketRetry = 3
    MaxTime = 2
    Proc = {p1}
    NoTask = NoTask
    Ticketed = FALSE
    MaxRuns = 2
    LaneCap = 2
    LeaseTime = 1
CHECK_DEADLOCK FALSE
INVARIANTS LaneWithinCap NoReadyTaskMissed NothingLeftRunning NoRepeatedSideEffect
PROPERTIES EveryCallReturns
