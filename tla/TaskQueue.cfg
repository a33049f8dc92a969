\* Two workers of one process, leases of two time units, retries, dead letters.
SPECIFICATION FairSpec
CHECK_DEADLOCK FALSE
CONSTANTS
    t1 = t1
    t2 = t2
    Task = {t1, t2}
    Worker = {u1, u2}
    NoWorker = none
    Priority <- MCPriority
    MaxRetries <- MCMaxRetries
    Limit = 1
    Duration = 1
    BaseDelay = 1
    MaxWait = 1
INVARIANTS
    DeadAfterFailures
PROPERTIES
    ImplementsAtomicQueue
    OrphanReclaimed
    CallReturns
