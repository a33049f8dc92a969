---------------------------- MODULE MCReportOutbox ----------------------------
EXTENDS ReportOutbox

CONSTANTS k1, k2, p1, p2, s1, s2

\* Two threads, each in a process of its own.
TwoProcesses == [p \in Proc |-> IF p = p1 THEN s1 ELSE s2]
=============================================================================
