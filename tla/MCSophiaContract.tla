--------------------------- MODULE MCSophiaContract ---------------------------
(* A task, and one that depends on it and may be repeated.                 *)
EXTENDS SophiaContract, TLC

CONSTANTS once, again

MCDependsOn == [t \in Task |-> IF t = again THEN {once} ELSE {}]

MCSymmetry == Permutations(Desk)
=============================================================================
