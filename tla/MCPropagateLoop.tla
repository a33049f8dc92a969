--------------------------- MODULE MCPropagateLoop ---------------------------
(* All dependency graphs on three tasks, cyclic ones included.             *)
EXTENDS PropagateLoop

CONSTANTS t1, t2, t3

MCTask == {t1, t2, t3}
MCOrder == <<t3, t1, t2>>
MCGraphs == [MCTask -> SUBSET MCTask]

\* Rows the engine really writes: untouched, retry after a crash, done,
\* failed, waiting for approval, running.
MCStartRows == {Row("PENDING", "PLANNED", 0), Row("COMPLETED", "VERIFIED_SUCCESS", 1),
                Row("FAILED", "EXECUTION_FAILED", 1), Row("RUNNING", "RUNNING", 1)}
=============================================================================
