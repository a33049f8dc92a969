\* One process at a time, three calls, crashes anywhere.
SPECIFICATION FairSpec
CONSTANTS
    a = a
    b = b
    c = c
    Task = {a, b, c}
    DependsOn <- Fan
    HasCommand = {a, b, c}
    Idempotent = {a, c}
    Uncertain = {c}
    MaxAttempts = 2
    RetryLimit = 3
    TicketRetry = 3
    MaxTime = 1
    Proc = {p1}
    NoTask = NoTask
    Ticketed = TRUE
    MaxRuns = 3
CHECK_DEADLOCK FALSE
INVARIANTS TypeOK NoRepeatedSideEffect RetryWithinBudget GatesAfterWork NoReadyTaskLeft
PROPERTIES CompletedIsFinal EveryCallReturns
