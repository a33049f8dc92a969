----------------------------- MODULE MCWorktrees -----------------------------
(* A task that may be repeated, or one that may not: they share nothing,   *)
(* so a behaviour has work for one of them only.                           *)
EXTENDS Worktrees

CONSTANTS again, once

MCSpec == (\E t \in Task : InitFrom({t})) /\ [][Next]_vars
=============================================================================
