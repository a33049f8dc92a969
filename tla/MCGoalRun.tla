------------------------------ MODULE MCGoalRun ------------------------------
(* A small goal: two tasks that wait for a third.                        *)
EXTENDS GoalRun

CONSTANTS a, b, c

\* The planner's shape in small: two tasks on one, as backend and infra are
\* on architect.
Fan == [t \in {a, b, c} |-> IF t = a THEN {} ELSE {a}]
=============================================================================
