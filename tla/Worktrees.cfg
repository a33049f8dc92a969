\* One process, an idempotent task and another, two attempts, three files of
\* which no listing shows one.
SPECIFICATION MCSpec
CHECK_DEADLOCK FALSE
CONSTANTS
    again = again
    once = once
    Task = {again, once}
    Idempotent = {again}
    File = {f1, f2, cache}
    Ignored = {cache}
    Runner = {r1}
    MaxAttempts = 2
INVARIANTS
    
    
    ManifestIsOwnWork
