------------------------------ MODULE TaskGraph ------------------------------
(***************************************************************************)
(* The dependency rules of a goal's task graph: which PENDING tasks become *)
(* BLOCKED because something upstream failed, and which may be started.    *)
(* Models the class TaskGraph of goal_engine/models.py as pure operators   *)
(* over the rows of the tasks table.                                       *)
(*                                                                         *)
(* A row is [status, truth, attempts].  Text fields (summary, reason,      *)
(* stdout, timestamps) decide nothing and are left out.                    *)
(***************************************************************************)
EXTENDS Naturals

CONSTANT Task   \* the task ids of one goal

TaskStatus == {"PENDING", "RUNNING", "COMPLETED", "FAILED", "BLOCKED", "SKIPPED"}

TruthStatus == {"PLANNED", "SIMULATED", "QUEUED", "RUNNING", "WAITING_APPROVAL",
                "RETRY_WAIT", "VERIFIED_SUCCESS", "EXECUTION_FAILED",
                "VERIFICATION_FAILED", "BLOCKED", "CANCELLED", "UNAVAILABLE"}

TaskRow == [status : TaskStatus, truth : TruthStatus, attempts : Nat]

Row(status, truth, attempts) ==
    [status |-> status, truth |-> truth, attempts |-> attempts]

\* The truth values that make a task count as failed for its dependants.
FailureTruth == {"EXECUTION_FAILED", "VERIFICATION_FAILED", "BLOCKED",
                 "CANCELLED", "WAITING_APPROVAL"}

\* The tasks that have failed in rows ts, before anything is propagated.
FailedOrBlocked(ts) ==
    {t \in Task : ts[t].status \in {"FAILED", "BLOCKED"} \/ ts[t].truth \in FailureTruth}

\* S holds the failed tasks and every PENDING task with a dependency in S.
ClosedUnderFailure(deps, ts, S) ==
    /\ FailedOrBlocked(ts) \subseteq S
    /\ \A t \in Task : ts[t].status = "PENDING" /\ deps[t] \cap S # {} => t \in S

\* What the loop of propagate_failures reaches: the least such S.
Doomed(deps, ts) ==
    {t \in Task : \A S \in SUBSET Task : ClosedUnderFailure(deps, ts, S) => t \in S}

\* The tasks propagate_failures changes (its return value).
NewlyBlocked(deps, ts) == Doomed(deps, ts) \ FailedOrBlocked(ts)

\* The rows propagate_failures leaves in memory.
PropagateFailures(deps, ts) ==
    [t \in Task |-> IF t \in NewlyBlocked(deps, ts)
                    THEN [ts[t] EXCEPT !.status = "BLOCKED", !.truth = "BLOCKED"]
                    ELSE ts[t]]

\* Mutant of SatisfyingTruth: simulated dependencies always count.
SatisfyingTruthLax(allowSimulated) ==
    {"VERIFIED_SUCCESS", "UNAVAILABLE", "SIMULATED", "PLANNED"}

\* The truth values with which a COMPLETED dependency counts as satisfied.
SatisfyingTruth(allowSimulated) ==
    {"VERIFIED_SUCCESS", "UNAVAILABLE"} \cup
    (IF allowSimulated THEN {"SIMULATED", "PLANNED"} ELSE {})

Satisfied(ts, allowSimulated) ==
    {t \in Task : ts[t].status = "COMPLETED" /\ ts[t].truth \in SatisfyingTruth(allowSimulated)}

\* ready_tasks on rows that have been propagated.
ReadyTasks(deps, ts, allowSimulated) ==
    {t \in Task : ts[t].status = "PENDING" /\ deps[t] \subseteq Satisfied(ts, allowSimulated)}
=============================================================================
