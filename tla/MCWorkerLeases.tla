---------------------------- MODULE MCWorkerLeases ----------------------------
(* The two lanes of the engine with their real capacities.                 *)
EXTENDS WorkerLeases

CONSTANTS w1, w2, w3, op1, auto, operator, c1, c2, s1

MCLaneOf == [w \in Worker |-> IF w = op1 THEN operator ELSE auto]
MCCap == [l \in Lane |-> IF l = auto THEN 2 ELSE 1]

\* Two coordinators of different goals; the second also acts as operator.
MCMayUse == [c \in Caller |-> IF c = c1 THEN {w1, w3} ELSE {w2, op1}]

\* Both callers are threads of one process.
OneProcess == [c \in Caller |-> s1]
=============================================================================
