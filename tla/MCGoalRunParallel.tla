-------------------------- MODULE MCGoalRunParallel --------------------------
(* Goals of two or three tasks, at most two of them in flight.             *)
EXTENDS GoalRunParallel, TLC

CONSTANTS a, b, c

\* Two tasks, one that waits for the other.
Pair == [t \in {a, b} |-> IF t = b THEN {a} ELSE {}]

\* Tasks without dependencies.
Flat == [t \in Task |-> {}]

\* The processes are interchangeable.
Swap == Permutations(Proc)
=============================================================================
