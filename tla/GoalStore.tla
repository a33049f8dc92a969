------------------------------ MODULE GoalStore ------------------------------
(***************************************************************************)
(* The rows of one goal in the SQLite store that every process shares: the *)
(* goals row, the tasks rows, the leases of the goal's tasks.  Each store  *)
(* method is one transaction, so one operator here is one atomic change;   *)
(* what a caller reads in one call and writes in a later one is not.       *)
(*                                                                         *)
(* A lease row is the time it expires at; NoLease is an absent row.  The   *)
(* idempotence flags a lease row carries are copies of the task's flags.   *)
(***************************************************************************)
EXTENDS TaskGraph

CONSTANTS
    DependsOn,      \* task -> the tasks it depends on
    HasCommand,     \* the tasks with a command to execute
    Idempotent,     \* the tasks with is_idempotent
    Uncertain,      \* the tasks with side_effect_uncertain
    MaxAttempts,    \* GoalTask.max_attempts
    RetryLimit,     \* Goal.retry_limit
    TicketRetry,    \* least retry_budget of the goal's tickets
    MaxTime         \* bound: the clock stops here

GoalStatus == {"CREATED", "PLANNED", "RUNNING", "VERIFYING", "SATISFIED",
               "BLOCKED", "CANCELLED", "FAILED"}

GoalRow == [status : GoalStatus, truth : TruthStatus]

GoalIs(status, truth) == [status |-> status, truth |-> truth]

NoLease == 0

ASSUME GraphAssumption ==
    /\ DependsOn \in [Task -> SUBSET Task]
    /\ HasCommand \subseteq Task
    /\ Idempotent \subseteq Task
    /\ Uncertain \subseteq Task

ASSUME BudgetAssumption ==
    /\ MaxAttempts \in Nat
    /\ RetryLimit \in Nat
    /\ TicketRetry \in Nat
    /\ MaxTime \in Nat

VARIABLES
    goal,           \* the goals row
    tasks,          \* the tasks rows
    leases,         \* task -> expiry of the lease autoworker_<goal>_<task>
    clock           \* time.time()

storeVars == <<goal, tasks, leases, clock>>

\* create_goal has saved the goal as PLANNED and every task as PENDING.
StoreInit ==
    /\ goal = GoalIs("PLANNED", "PLANNED")
    /\ tasks = [t \in Task |-> Row("PENDING", "PLANNED", 0)]
    /\ leases = [t \in Task |-> NoLease]
    /\ clock = 1

\* save_tasks: the stored rows of the tasks in S are replaced, whole.
SaveTasks(S, rows) ==
    tasks' = [t \in Task |-> IF t \in S THEN rows[t] ELSE tasks[t]]

\* Mutant of Orphans: any task that is not PENDING counts as one.
OrphansNotPending(ts, ls, now) ==
    {t \in Task : ts[t].status # "PENDING" /\ ls[t] <= now}

\* The RUNNING tasks of rows ts that no unexpired lease covers.
Orphans(ts, ls, now) ==
    {t \in Task : ts[t].status = "RUNNING" /\ ls[t] <= now}

\* An orphan may be retried: repeating it is harmless, its outcome is not in
\* doubt, and it has attempts left.
Retriable(t, row) ==
    /\ t \in Idempotent
    /\ t \notin Uncertain
    /\ row.attempts < MaxAttempts
    /\ row.attempts < RetryLimit
    /\ row.attempts < TicketRetry

\* Mutant of ReconciledRow: the idempotence of the task is not looked at.
ReconciledRowAlways(t, row) ==
    IF row.attempts < MaxAttempts
    THEN Row("PENDING", "RETRY_WAIT", row.attempts)
    ELSE Row("BLOCKED", "WAITING_APPROVAL", row.attempts)

\* Mutant of ReconciledRow: the attempts already made are not counted.
ReconciledRowNoBudget(t, row) ==
    IF t \in Idempotent /\ t \notin Uncertain
    THEN Row("PENDING", "RETRY_WAIT", row.attempts)
    ELSE Row("BLOCKED", "WAITING_APPROVAL", row.attempts)

\* Mutant of ReconciledRow: status and truth are swapped.
ReconciledRowSwapped(t, row) ==
    IF Retriable(t, row)
    THEN Row("RETRY_WAIT", "PENDING", row.attempts)
    ELSE Row("WAITING_APPROVAL", "BLOCKED", row.attempts)

\* What reconcile_orphaned_running_tasks makes of an orphan.
ReconciledRow(t, row) ==
    IF Retriable(t, row)
    THEN Row("PENDING", "RETRY_WAIT", row.attempts)
    ELSE Row("BLOCKED", "WAITING_APPROVAL", row.attempts)

\* The rows reconcile_orphaned_running_tasks is going to save.
Reconciled(ts, ls, now) ==
    [t \in Task |-> IF t \in Orphans(ts, ls, now) THEN ReconciledRow(t, ts[t]) ELSE ts[t]]

\* The stop policy of governance/stop_conditions.py.
RetriesExhausted(ts) ==
    \E t \in Task : ts[t].status = "FAILED" /\ ts[t].attempts >= MaxAttempts

StoreTypeOK ==
    /\ goal \in GoalRow
    /\ tasks \in [Task -> TaskRow]
    /\ leases \in [Task -> Nat]
    /\ clock \in Nat
=============================================================================
