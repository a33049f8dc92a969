----------------------------- MODULE MCTaskQueue -----------------------------
(* Two tasks of different urgency; the urgent one may be retried once.     *)
EXTENDS TaskQueue

CONSTANTS t1, t2

MCPriority == [t \in Task |-> IF t = t1 THEN 0 ELSE 2]
MCMaxRetries == [t \in Task |-> IF t = t1 THEN 1 ELSE 0]
=============================================================================
