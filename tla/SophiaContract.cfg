\* A submission and its run, or a resume, while others call the contract.
SPECIFICATION SophiaSpec
CHECK_DEADLOCK FALSE
CONSTANTS
    once = once
    again = again
    Task = {once, again}
    DependsOn <- MCDependsOn
    HasCommand = {once, again}
    Idempotent = {again}
    Uncertain = {}
    MaxAttempts = 2
    RetryLimit = 2
    TicketRetry = 2
    MaxTime = 1
    Proc = {p1}
    NoTask = none
    Ticketed = FALSE
    MaxRuns = 2
    Desk = {d1, d2}
    MaxCalls = 3
SYMMETRY MCSymmetry
INVARIANTS
    ClaimIsEarned
    ReconcileNeverDuplicates
PROPERTIES
    ApprovalFailsClosed
