-------------------------- MODULE MCTicketAdmission --------------------------
(* Two events, three threads, the third in a process of its own.           *)
EXTENDS TicketAdmission

CONSTANTS e1, e2, t1, p1, p2, p3, s1, s2

TwoProcesses == [p \in Proc |-> IF p = p3 THEN s2 ELSE s1]

\* Every event is redelivered.
Redelivery == [e \in Key |-> 2]

SameTicket == [e \in Key |-> t1]
=============================================================================
