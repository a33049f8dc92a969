# mekong-cli in TLA+

TLA+ models, TLC checks and TLAPS proofs of the parts of mekong-cli that
decide what work is done, what is claimed about it, who is told and who pays:
the goal engine (`src/mekongcli/core/goal_engine`) with its SQLite store and
worktrees, the contract through which Sophia drives it
(`src/core/contracts`), the webhook adapter (`src/core/buzz_*`) that feeds it,
the older task queue (`src/core/task_queue.py`), and prepaid missions
(`src/raas`). Paths below are relative to the root of the repository.

## 1. The system

### Components, their state and operations

| Component | Source | State | Operations |
|---|---|---|---|
| Task graph | `goal_engine/models.py` | rows of the tasks of one goal | `propagate_failures`, `ready_tasks` |
| Goal engine | `goal_engine/service.py` | none of its own between calls; a `Goal` object and task rows in memory during one | `create_goal`, `run_goal`, `run_goal_parallel`, `resume_goal`, `verify_goal`, `cancel_goal` |
| Goal store | `goal_engine/store.py` | tables goals, tasks, worker_leases, runtime tickets, report_outbox, audit tables | one method per statement or group of statements; `threading.RLock` per store object |
| Stop policy | `core/governance/stop_conditions.py` | none | `should_stop_for_retries` |
| Verification gates | `core/verification/gates.py` | none | run a pipeline, combine its results |
| Webhook adapter | `src/core/buzz_runtime_adapter.py`, `buzz_adapter.py` | the ticket table, the outbox, sessions | `assign_mission`, `send_update`, approvals, cancellation |
| Worktrees | `goal_engine/worktree_manager.py` | one directory per task, preserved artifacts and recovery copies; the snapshot of an allocation in memory | `allocate`, `harvest_artifacts`, `preserve_recovery_worktree`, `finalize_worktree`, `cleanup` |
| Sophia contract | `src/core/contracts/sophia_integration_v1.py` | none of its own: goal, tasks and ticket through the store | `submit_task`, `get_status`, `request_cancel`, `report_approval_required`, `resume_reconcile`, five more that only read |
| Task queue | `src/core/task_queue.py`, class `TaskQueue` | tasks with state, lease, due time and retry count; a `threading.Lock` | enqueue, lease, heartbeat, complete, fail, reclaim, dead letters |
| RaaS credits and missions | `src/raas/credits.py`, `mission_store.py`, `missions*.py`, `checkout_router.py`, `src/api` | the balance with its totals, the transactions with their keys, the missions | charge, credit, submit, run, cancel and refund a mission |
| Planner, local executor, adapters, CLI | `goal_engine/planner.py`, `core/execution`, `src/core/adapters`, `src/cli` | none | build a plan, run one command with a timeout, format answers |
| Core runtime, PEV harness | `src/core/runtime_adapter.py`, `src/harness/pev` | mission trace | plan, execute, verify, repair |
| DAG scheduler, in-memory priority queue, daemon | `src/core/dag_scheduler.py`, `task_queue.py`, `src/daemon` | queues, circuit breaker, dead letters | schedule and dispatch |
| Invoices, subscriptions, payment providers | the rest of `src/raas` | rows of their own | bill |
| Gateway, promise jobs, OPC packs, vertical commands, TypeScript packages | `src/gateway.py`, `src/core/promise`, `src/opc`, `src/mekong`, `packages`, `apps` | various | I/O around the above, generated commands, user interface |

### How they interact

A webhook becomes a ticket (`assign_mission`, `admit_ticket`); the runtime runs
its mission; the ticket gets the status the mission ended with; `send_update`
puts a report into the outbox and makes one attempt to deliver it. A goal is created with all its
tasks, run by `run_goal` (one task at a time) or `run_goal_parallel` (a thread
pool, each task under a lease and in a worktree), and verified by `verify_goal`
at the end of the run. Sophia submits, cancels, holds and reconciles the same
goals through the contract, whose operations are several store calls each.
The task queue and the credit store have databases of their own: threads take
tasks from the one under a lock, requests and background tasks move credits in
the other in exclusive transactions. Everything durable is in SQLite, and the processes - a CLI call, a server,
a second CLI call that resumes after a crash - meet only there. A store method
is atomic at most per SQL transaction; what the engine reads in one call and
writes in a later one is not.

### What is hard, and what must be right

* **Stale memory.** The engine keeps `Goal` and task objects while others
  write. *A verdict must be earned by what was executed, not by what a stale
  row says; work must not be built on work that was not done.*
* **Crashes.** A process dies between marking a task RUNNING and saving its
  result. *A resume must not repeat a side effect, nor retry past a budget.*
* **Ordering.** Gates run before rows are read; a lease is deleted before the
  result is saved; propagation walks the list once per pass. *No task is
  missed, no result lost, no verdict based on earlier gates.*
* **Leases.** Count and insert, select and update are two statements, and the
  clock is read before the lock. *A lane has at most its capacity, an unexpired
  lease is not taken from its holder, no task is leased twice or left behind.*
* **Partial failure.** Harvest, preserve and delete are steps, as are deduct,
  create, run and refund; any may fail or be the last. *No file is lost before
  it is kept, no credit is lost or paid back without a reason.*
* **Claims from several reads.** The contract mirrors truths from memory and
  answers from reads that do not belong together; its callers share no lock.
  *What it lets Sophia claim was earned; what is held for approval stays held.*
* **Delivery.** Webhooks are redelivered, the transport loses answers, two
  processes enqueue the same report. *A mission runs at most once, a report
  follows the end of its mission and agrees with its ticket, SENT means accepted,
  dead letters had their attempts.*
* **Termination.** *Every call returns: the loop over ready tasks ends, the
  lock is let go of on every path.*

`PROJECT.json` lists each hazard with its line and the property that covers it.

## 2. Modules

| Module | Models | Notes |
|---|---|---|
| `TaskGraph` | the class `TaskGraph` | operators; propagation as the least closed set |
| `PropagateLoop` | the loop in `propagate_failures` | one action per iteration, to justify that least set |
| `GoalStore` | goals, tasks and leases of one goal; reconciliation; stop policy | the variables the next modules act on |
| `GoalRun` | `run_goal`, `resume_goal`, `verify_goal`, `cancel_goal` | processes that may crash anywhere |
| `GoalRunParallel` | `run_goal_parallel` | extends `GoalRun`: its processes may do either |
| `WorkerLeases` | `acquire_worker_lease`, `release_worker_lease`, lease deletion by the reconciler | statement by statement, clock read before the lock |
| `ReportOutbox` | `enqueue_outbox`, `process_outbox_delivery` | statement by statement, per-process lock |
| `TicketAdmission` | `assign_mission`, `admit_ticket`, `update_ticket_truth_status`, `send_update` | extends `ReportOutbox` |
| `SophiaContract` | `submit_task`, `get_status`, `request_cancel`, `report_approval_required`, `resume_reconcile` | extends `GoalRun`: the goal runs while the contract's operations go on |
| `Worktrees` | the worktree of a task from `allocate` to `finalize_worktree`, as the engine calls them | files with contents; crashes and failures between the steps |
| `AtomicQueue` | - | what the docstring of the task queue promises, operations in one step |
| `TaskQueue` | class `TaskQueue` | statement by statement, lock, clock; implements `AtomicQueue` |
| `CreditLedger` | - | what the credit store promises of an account |
| `MissionCredits` | `CreditStore`, missions, both ways to buy one, cancellation, keyed credits and debits | transaction by transaction; implements `CreditLedger` |
| `GoalRunProofs`, `GoalRunParallelProofs`, `SophiaContractProofs`, `WorktreesProofs`, `TaskQueueProofs`, `MissionCreditsProofs` | - | theorems about the modules they are named for |
| `TicketAdmissionProofs` | - | theorems about `ReportOutbox`, then about `TicketAdmission`, which extends it |
| `AtomicStepProofs` | - | theorems about `PropagateLoop` and `WorkerLeases`: what the goal engine's modules take as one step |
| `MC*` | - | finite instances |

### From code to model

**Rows.** A task row is `[status, truth, attempts]`, a goal row
`[status, truth]`: the fields some branch of the code reads. Summaries, reasons,
output, timestamps, the checkpoints, criteria, memory and event tables are
written and never decide anything, so they are left out. A lease row is its expiry; no
row is expiry 0, which is also how an expired row behaves.

**Processes (`GoalRun`).** `proc[p].pc` names the next store call of process
`p`; the rest of the record is the Python locals that survive until then:
`snap` (the rows as read and changed in memory), `todo` (the remaining for
loop), `cur`, `progressed` (`completed_any`), `verdict` (the `Goal` object
about to be saved). One action is one store call with the computation up to the
next. `Enter` is the check at the top of `run_goal`, `Announce` saves RUNNING,
`Scan` and `EndPass` read rows and compute the ready list, `StartTask`,
`Execute` or `Direct`, and `Record` are one task, `ReadForBlocking` and
`SaveBlocked` the failure path, `Decide` the final branches, and `ReadForVerify`,
`MarkVerifying`, `RunGates`, `Judge`, `Finish` are `verify_goal`. `CallResume`
and `SaveReconciled` are `resume_goal` up to its call of `run_goal`.

*Choices.* The ready list is walked in any order (the code's order is one of
them). Two reads with nothing but local computation between them are one step
in `EndPass` and in `CallResume`. A command is started and ends in one action;
a crash while it runs is a crash after it, before its result is saved, with
either outcome lost. An exception out of a store call (a database locked for
longer than its timeout) ends the call as `Crash` does. A ticket that refuses work is a flag that changes at any
time (`RecordCost`), as costs are recorded by others; it stands for the hash of the
mandate and for the budget.

**Thread pool (`GoalRunParallel`).** Worker threads execute commands and touch
no store; the coordinator makes every store call. `pool[p]` holds
`active_futures`, the rows as submitted, the batch returned by
`concurrent.futures.wait` and `saturated_wait`. `ReleaseLease` precedes
`RecordFuture` because the code deletes the lease before it saves the result.
Here a lease is granted in one step; `WorkerLeases` takes that step apart.

**Leases.** `Begin` reads the clock, `EnterStore` waits for the lock of the
store object, `Select` counts and refuses, `Upsert` writes. The lock is a
`threading.RLock`: callers with another store object are not excluded (see
section 4). A caller asks only for worker ids of the tasks it runs and does not
hold yet.

**Outbox and admission.** The lock is held across the HTTP call, so `Post` is
between `DeliverSelect` and `Update` with the lock taken. A failed post may have
been accepted (an answer lost, or an exception after sending). `Insert` and
`Admit` include the `IntegrityError` path. In `TicketAdmission` the outbox key of
an event's report is the event itself: the code's key is the string
`source_id:ticket_id:outcome` (`buzz_runtime_adapter.py:275`), and a mission that
runs once has one outcome. `RunMission` ends with any of the twelve values of
`ExecutionTruthStatus`, as a result without an error names its own in
`metadata["truth_status"]`. Sessions, approvals, cancel flags and the authority
policy are not modelled.

**Sophia contract.** `submit` is the one `submit_task` in progress and the
process it runs in. `desk[d]` is the operation another caller `d` is in, with the
rows or the truth it carries to its next store call; callers share no lock, in
one process or in several, so their operations overlap in any way. `held` and
`clobbered` are histories: what was held while nothing ran and no other caller
was about to undo it (`Holdable`), and whether an approval wrote over a newer
row. `RunStep` is a step of
`GoalRun`, and hands the truth of a goal that finished to `submit_task`. The
actions of an operation are named for it: `ApprovalRead`, `ApprovalRows`,
`ApprovalGoal`, then `DeskTicket`. `get_status` is three reads and an answer;
`VerificationOutcome` and `ClaimPermitted` are what `_derive_outcomes` and the
envelope make of them. A ticket is its truth: its admission is `TicketAdmission`.

**Worktrees.** A file is one the commands create, its content the number of the
attempt that wrote it; so the model can tell whose work is in a directory, in
the artifacts, in a recovery copy. `base` is the snapshot of `allocate`, held in
memory and lost in a crash. A snapshot is one of `Listings`: it passes over any
files, as `_snapshot_tree_hashes` does over those whose hash raises `OSError`, and
always over `Ignored` ones, which are under `.mekong`, `node_modules`,
`__pycache__` and the like, or links. `finalize_worktree` lists the directory to
see whether it changed (`FinalizeSuccess`), `harvest_artifacts` lists it again
(`HarvestList`); `missed` is a history of what the listings passed over. A directory that cannot be deleted keeps some of
its files, as `shutil.rmtree(ignore_errors=True)` leaves them. What a step
raises goes where the code sends it: a failed harvest to preservation, a failed
preservation out of `finalize_worktree` (`Escapes`).

**Task queue.** Times of a row are kept relative to the clock (`left`, `due`),
so that the clock itself need not be bounded, and floor at the values no call
can tell apart. A call acts on a time up to `MaxWait` old. The two holds of
`lease_tasks` are `LeaseReclaim` and `LeaseSelect`; the second one lasts until
`LeaseUpdate`. `fail_task` is `FailRead` and `FailWrite`. `mine` is what a
worker was given: it reports on each task at most once and never on others.
`GetStatus`, `RetryDlq` and `ClearDlq` are one hold of the lock each.

**Credits.** One tenant. Each mission has a thread that submits and runs it,
other requests have callers. Both ways to buy a mission keep it in one table, so
`Cancel` takes a queued mission of either; `StartRead` and `StartSave` are the
two transactions of `start`, with a cancellation between them or before.
`BeginExclusive` to `EndTransaction` is a
transaction of `deduct` or `add_credits`, which read the balance and write a
new one; `writer` is the thread in it. `add` is one upsert. `Raises` is a
`RuntimeError` out of a store, and goes where the code catches it; `Dies` ends a
thread, or the transaction of a caller. `debits`, `refunds`, `recalls`
(cancellations that marked a mission) and `hurt` are histories. What executes a mission is an outcome: success, failure, exception.

## 3. Runs

Deadlock is not checked in any run: the number of calls, the clock, the posts
or the attempts are bounded, and a bounded system stops (the task queue, which
is not bounded so, may stop when all tasks are purged). Counters bounded by a
guard: `MaxRuns` (calls of a run), `MaxTime` (clock), `MaxPosts` (transport
calls), `MaxWebhooks`, `MaxAttempts` of `Worktrees`, `MaxCalls` (requests of
callers; in `SophiaContract` runs count as well), `MaxFaults` (store calls that
raise), `MaxWait` (age of the time a call of the task queue acts on; a thread
that waits longer is not modelled).

| Run | Instance | Question and answer |
|---|---|---|
| `propagate_loop` | all 512 graphs on 3 tasks, all start rows of 4 kinds | The loop blocks exactly the least closed set and ends within one pass per task plus one, on cyclic graphs too. Three tasks are enough for a failure to travel against the list order twice. |
| `goal_solo` | 1 process, 3 tasks (one that two wait for, one idempotent, one uncertain), 3 calls, ticket | No repeated side effect, retries within the least of three budgets, gates after work, no ready task left, results final, every call returns. Three calls are a run that crashes, a resume that crashes, and a third. |
| `parallel` | 1 process, 3 independent tasks, lane of 2, 2 calls, clock 2 | The restarted coordinator respects leases of its dead predecessor; no future unrecorded, no task missed. |
| `parallel_shared` | 2 interchangeable processes, 2 dependent tasks, 2 calls | With concurrent writers, sequential or parallel, the verdict is still earned and no work starts on undone work. Interchangeable: `Proc` occurs only under quantifiers and as an index. |
| `leases_one` | 2 threads of one process, 4 workers, lanes of 2 and 1, clock 4 | A fresh grant stays within capacity although the clock is stale; only holders give leases up. |
| `outbox` | 2 processes, 2 reports, 2 attempts, 4 posts | SENT was accepted; dead letters had their attempts; one creator. |
| `admission` | 3 threads, 2 processes, 2 events with one ticket_id, the first delivered twice, missions that end with any of 12 statuses | A mission runs at most once, its report follows its end and agrees with its ticket, every call returns. |
| `task_queue` | 2 workers of 1 process, 2 tasks of different urgency, one of them with a retry, smallest delays | Every behaviour is one of `AtomicQueue`; dead letters had their failures; orphans are taken back; calls return. Two tasks are enough to pass one over, two workers to lease one twice; the smallest delays let every expiry happen within one call's wait. |
| `worktrees` | 1 process, an idempotent or another task, 2 attempts, 3 files, one of them never listed; 2.8 million states | No file is lost, success was handed over, a manifest lists its own attempt's work, but for what listings pass over. Two files that can be listed are a half-done harvest, or one seen and one not; two attempts a directory that outlives its own. |
| `sophia` | 1 process, 2 tasks (one idempotent, which waits for the other), 2 interchangeable callers, 3 calls of which 2 may be runs; 3.6 million states | Claims are earned, approval fails closed, a reconciliation repeats nothing. Three calls are two approvals that overlap and a run, an approval and a reconciliation and a run, or a run that crashes, a reconciliation or approval, and the run or resume that finds its orphans. |
| `credits` | a mission bought each way (1 and 3 credits), 2 callers, a license key of 2, a deduction of 1, balance 3, 3 requests, 2 faults | The account is a ledger; open missions are paid, failed ones paid back; missions end. The balance covers either mission, not both; the activation changes that while they compete. Two callers can cancel one mission while its task starts. |

The run that refutes a statement of the repository (`findings`):

| Run | What TLC finds |
|---|---|
| `cancel_resume` | The goal is cancelled while nothing runs. `verify_goal`, which does not look at the status, saves VERIFYING over CANCELLED (`service.py:678-679`); its process dies. The next `run_goal` refuses CANCELLED only (`service.py:88`) and starts a command of the goal. |

`tests/mekongcli/test_goal_engine.py:90` expects that a cancelled goal does not
run. `resume_goal`, which saves BLOCKED over CANCELLED when it finds an orphan
that waits for approval (`service.py:640`), is another way to the same end, longer
than the one TLC reports.

Some properties hold only with one process at a time, and say so:
`NoRepeatedSideEffect`, `RetryWithinBudget`, `GatesAfterWork`, `CompletedIsFinal`.
Nothing in the engine keeps two sequential runs of one goal apart
(`run_goal` takes no lease), so with two processes they are not promised. The
run `sophia` has one running process for the same reason; the reconciliations of
the contract's callers are the other actors, which is why
`ReconcileNeverDuplicates` is worth checking.

A crash between the admission of a ticket and its mission leaves it RUNNING,
and every redelivery is ignored: the mission is run *at most* once, and may be
lost. `MissionRunsOnce` is what the code promises; no property asks for more.

The type invariants of `GoalRun`, `ReportOutbox` and `MissionCredits` are
checked by runs and proved; those of the other modules are proved inside their
inductive invariants (`LoopInv`, `ParShape`, `LeaseInv`, `WorktreeInv`,
`SophiaInv`, `QueueInv`), but for `AdmissionTypeOK`: `AdmissionTypeCorrect`.

### Fairness

`FairSpec` of `GoalRun` assumes weak fairness of each process's steps taken
together: SQLite calls return and `LocalExecutor` ends every command by its
timeout. `FairParSpec` adds the worker threads, for the same reason.
`FairAdmissionSpec` assumes that a thread that can take the lock and move does,
and that the runtime and the transport (which has a timeout of 5 s) return.
`FairSpec` of `TaskQueue` assumes strong fairness of the calls (a
`threading.Lock` that is free again and again is got), of the clock and of
`get_status`, which monitors poll; no worker need report or renew. `FairSpec`
of `MissionCredits` assumes weak fairness of each thread: one that waits for the
database waits for transactions that end, as there are finitely many requests.
Nothing is fair about calls, crashes, cancellations, costs or, elsewhere, the
clock. `PropagateLoop` is sequential code that runs.

### Mutants

Each property of a passing run has a mutant in the module it names: a
definition with a plausible bug (a swapped order, a dropped guard, a missing
reset) under which TLC finds the property violated. They are the definitions
commented "Mutant of", and no specification uses them.

## 4. Known disagreements

Where code and documentation, or code and expectation, part. One of them,
`cancel_resume`, is a finding with a run. The others are described here; the
properties are stated so as not to claim what the code does not do.

*Goal engine and adapter*
* `cancel_goal` during a run is overwritten by the run's next `save_goal`, and
  the tasks are not touched; `docs/sophia-integration-contract.md:35` has
  `request_cancel` cancel "goal & tasks".
* Two processes with one database may exceed a lane: the count and the insert of
  `acquire_worker_lease` (`store.py:869`) are kept together only by the lock of
  the store object, while its docstring (`store.py:865`) promises a bound.
* A new event that reuses a ticket_id is answered `duplicate_ignored`
  (`store.py:680`); `docs/buzz-runtime-adapter.md:19-20` keys duplicates on
  `(source_id, event_id)`.
* `docs/buzz-runtime-adapter.md:26-28` gives the ticket VERIFIED_SUCCESS, SIMULATED,
  CANCELLED or EXECUTION_FAILED in the end. The code takes any
  `ExecutionTruthStatus` that the result names (`buzz_runtime_adapter.py:236-238`),
  RUNNING, PLANNED or WAITING_APPROVAL included, stores it and reports it with the
  outcome `completed`. `ReportAfterTruth` therefore does not say that the status
  is a final one: it says that the mission has ended and the ticket and the
  report agree.
* A callback that failed once stays FAILED_RETRYABLE: nothing delivers it again
  (`buzz_adapter.py:717`), so that DEAD_LETTER (`docs/buzz-runtime-adapter.md:22-23`)
  is reached only by callers of the store who deliver by hand.

*Sophia contract*
* `report_approval_required` saves all rows of the goal as it read them. A task
  that finished meanwhile gets its old row back and may be started again;
  `ReconcileNeverDuplicates` excepts these behaviours (`clobbered`).
* Nor does it hold a lock between its read and its save
  (`sophia_integration_v1.py:750-757`). Of two approvals of different tasks that
  overlap, the later save takes the task the earlier one held back to PENDING, and
  a run starts it; the docstring promises a "fail-closed checkpoint". The same is
  done by a reconciliation in another process that had read the task RUNNING and
  saves it as PENDING (`store.py:951-1008`). `ApprovalFailsClosed` is about tasks
  held while no run was under way and no other caller had read the rows before;
  without that last condition (`Undoes`) TLC refutes it.
* `verification_outcome` is VERIFIED_SUCCESS after a run of the profile "none",
  which has no gates. The claim itself is not permitted then (`ClaimIsEarned`).

*Worktrees*
* With two processes `ManifestIsOwnWork` does not hold: the second one's resume
  takes a live RUNNING task for an orphan and deletes its directory. The run has
  one process.
* `_snapshot_tree_hashes` passes over links, over everything under the names of
  `_IGNORED_SEED_NAMES` and, without a word, over a file it cannot read
  (`worktree_manager.py:133-144`). A success's file that the last listing passes over
  is not harvested and is deleted with the worktree; a leftover of an earlier
  attempt, or a file of the workspace, that only the first listing passed over is
  harvested as the attempt's own. The three properties except exactly these files
  (`missed`). The recovery copy of a failure passes over nothing but `.git`.
* The fallback "if no baseline was captured" (`worktree_manager.py:261-263`) adds
  nothing: without a baseline every listed file counts as changed already.
* A file rewritten with the same content counts as unchanged and is not
  harvested; nothing is lost by it.

*Task queue*
* `fail_task` ignores `worker_id` and ends the lease of whoever holds it.
* A task whose worker dies each time is reclaimed for ever: reclaiming counts no
  retry.
* Two processes have two locks, and the UPDATE of `lease_tasks` does not test
  the state: a task could be leased twice, or one completed meanwhile come back.
  The docstring's "atomic worker leases" are checked, and proved, for one process.
* Failures that race write one `retry_count` twice: some retries are not counted,
  which is why `DeadAfterFailures` has no converse.

*Credits*
* `cancel_mission` takes any queued mission of the table, and between its read
  and its save (`missions.py:160-168`) the mission may change. Two cancellations
  that both read `queued` pay back twice. A mission of the API that is cancelled
  before or while its background task starts is executed all the same (`start`
  passes over it or overwrites the mark, `mission_lifecycle.py:127-132`): it is
  delivered and paid back, or paid back by the cancellation and again by `fail`.
  `OpenIsPaid` and `FailureIsPaidBack` therefore allow one refund for every
  cancellation that marked the mission, and no more.
* If `fail` raises after its refund, the except clause calls it again and refunds
  again; `FailureIsPaidBack` is about missions no store call of which raised.
* If `submit` raises after `deduct` (the mission cannot be inserted, or the
  balance cannot be read for `credits.low`), the credits are gone, or the
  mission stays queued for ever; `create_mission` marks a mission whose file
  could not be written as failed and keeps the credits.
* `/mcu/deduct` looks at the balance before it looks at the key: a repeated
  request may be refused for the balance. The NOWPayments handler looks for no
  key in the credit store.

## 5. Proofs

Every invariant and every action property that a passing run checks is also
proved, for all values of the constants the assumptions allow. The assumptions
of the modules only give constants their types (and a positive limit, price or
duration, finitely many tasks or callers, distinct threads, where the module says
so). Three
more are hypotheses of the theorems that need them:

* `OneProcess` (`\A p, q \in Proc : p = q`): one process at a time drives the
  goal. It may crash between any two store calls and be started again, in
  sequential or parallel mode; its worker threads are not counted. `run_goal`
  takes no lease, so nothing in the code provides more (section 3).
* `OneStore` (`WorkerLeases`): the callers use one store object, hence one
  `RLock`. That is one process with any number of threads; with several the
  bound fails (section 4).
* `OneRunner` (`Worktrees`): as `OneProcess`, for the directory of a task.

The other theorems hold for any number of processes and threads.

### What propagation computes

`LoopReachesLeastClosedSetHolds` (`AtomicStepProofs`): for every graph, order of
the list and start, `propagate_failures` returns with the rows of
`PropagateFailures`, which all other modules use in its place. `LoopInv` says
that what the loop has found so far is in every closed set, that rows are
changed where something was found and nowhere else, and that a pass without
progress has settled the tasks behind it; at the end of such a pass the set
found is closed, hence the least.

### The goal engine, any number of processes

`GoalRunProofs`: `TypeCorrect`, `EvidenceCorrect`, `VerifiedTruthHolds`,
`RealWorkOnRealWorkHolds`. `VerifiedTruth` is not inductive: the goal row is
written from memory, after the rows it was judged on may have changed.
`EvidenceInv` therefore also bounds what every *memory* claims. `RowsOK` says
that rows - stored or remembered - claim VERIFIED_SUCCESS only of tasks whose
command did succeed, and never UNAVAILABLE, which `ready_tasks` would accept of
a dependency. `GoalRowOK` says the same of a goal row. `MemoryOK` puts both on
the memory of a process and adds what its program counter implies: dependencies
of tasks it may still start are done, a success being recorded is a success, a
pipeline that passed with gates is on record. The argument is monotonicity:
evidence (`ranOk`, a passed pipeline) is only added, so `MemoryMonotone` carries
every *other* process through a step, `LocalStep` reduces a step without new
evidence to what one process saves and remembers, and only `Execute` and
`RunGates` add evidence. `ReadyOK` is the heart of `RealWorkOnRealWork`: in an
executing run a satisfied dependency is VERIFIED_SUCCESS, hence done.

`GoalRunParallelProofs` extends this to the thread pool (`ParVerifiedTruthHolds`,
`ParRealWorkOnRealWorkHolds`): `ParShape` says when a pool exists and what a
batch may hold, `WorkBacked` that a future's success is one and that what
executes, or is about to, has its dependencies done. `LaneWithinCapHolds` is
about leases alone: finitely many are active (`LaneInv`), a grant looks at
`LaneFull` and adds one, time and releases only take away. In that module a
grant is one step, so for coordinators in several processes, which do not share
a lock, it promises nothing; `FreshGrantWithinCapHolds` below is the theorem
about the statements themselves.

### The goal engine, one process at a time

`SoloInv` (`GoalRunProofs`) is what a process may rely on when nobody else
writes: `UpToDate` says label by label which remembered rows are the stored
ones, `BudgetKept` that starts are covered by the attempts in the rows and that
a PENDING row was never started or may be retried, `FreshGates` that a claim of
success is not older than the last command. A crash loses the memory and keeps
the rows, so `BudgetKept` must hold between any two store calls; it does because
the attempt is counted in the save *before* the command starts. From it follow
`NoRepeatedSideEffectHolds`, `RetryWithinBudgetHolds`, `GatesAfterWorkHolds`,
`NoReadyTaskLeftHolds` and `CompletedIsFinalHolds`.

`CoordInv` (`GoalRunParallelProofs`) adds the coordinator: a task with a future
is RUNNING in the store with the attempt the future was submitted with; a task
whose future was recorded has its result, and no lease, although the lease is
deleted before the result is saved; what was read to be started is still
PENDING. `NoReadyTaskMissedHolds` and `NothingLeftRunningHolds` follow, and of
the five properties above all but the one about the sequential loop hold with
parallel runs too (`ParNoRepeatedSideEffectHolds`, `ParRetryWithinBudgetHolds`,
`ParGatesAfterWorkHolds`, `ParCompletedIsFinalHolds`).

### The Sophia contract

Every step a process makes under `SophiaSpec` is a step of `GoalRun`, so
`TypeStep` and `EvidenceStep` apply as they are. `SophiaInv` adds that rows
carried by the callers are backed (`RowsOK`), and that a VERIFIED_SUCCESS held by
ticket, submission or a caller was earned. `GoalStep` is about the steps that run
the goal, `SaveStep` about those that save rows from a caller's memory;
`RunKeeps` hands on a verdict, of which `MemoryOK` speaks. `ClaimIsEarnedHolds`
follows: the reads of an envelope need not agree for its claim to be earned,
since a success once earned stays earned.

`ApprovalFailsClosedHolds`, for any number of processes and of callers: `HeldInv`
says that a held task is `Off` (its row BLOCKED, nobody has it in hand), and that
no caller `Undoes` it, that is, carries its row to a save as anything but BLOCKED.
Both are kept by whatever begins later: an approval reads the row as BLOCKED, a
reconciliation takes RUNNING rows only (`ReadsRows`). What began before is why
`held` counts only what was `Holdable`: no run under way, which would have the
task in hand, and no caller that had read the row before the hold. `IdleMemory`
says that a process between calls has nothing in hand.

`ReconcileNeverDuplicatesHolds`, for one process and any number of callers:
`SoloInv` cannot be used, as callers write rows behind the back of the process.
`OnceInv` asks for less: the single start of a task that must not be repeated is
still to come in one place (a PENDING row, the list of the loop, or the command
about to start) or is over, and neither the process nor a caller that changes its
row is going to save it as PENDING.
`RunKeepsAll` proves both invariants for all steps of the engine at once, one
lemma per step that reads or saves rows (`Kept`), the rest by `QuietStep`.

### Worker leases, admission, reports, worktrees

`AtomicStepProofs`, with `OneStore`: `FreshGrantWithinCapHolds` and
`OnlyHolderReleasesHolds`. `LeaseInv` says that who is between two statements
has the lock, and what it selected is still what the table holds at the time it
has read; that time is never ahead of the clock, so a stale reading counts more
leases as active, never fewer.

`TicketAdmissionProofs`: about `ReportOutbox`, `OutboxTypeCorrect`,
`SentWasAcceptedHolds`, `GivenUpAfterMaxAttemptsHolds`, `OneCreatorHolds`.
`OutboxInv` strengthens the invariants by what a thread between two statements
knows: the outcome it is about to write was accepted (`OutcomeAccepted`), the
attempts it is about to write were made (`AttemptsPosted`), and a key without a
row has no creator (`NoRowNoCreator`). No conjunct mentions the lock: these
promises do not need it, which is why they hold across processes whose locks do
not exclude each other. About `TicketAdmission`, whose delivery steps are the
outbox's: `AdmissionKeepsOutbox` (`OutboxInv` holds there too),
`MissionRunsOnceHolds` and `ReportAfterTruthHolds`. `AdmissionInv`
says that only the thread whose INSERT made the row owns the event (`OneOwner`),
how far the ticket is at each of its labels (`OwnerKnows`), and that a report is
on its way only of a mission that has ended, with the ticket saying what it ended
with (`ReportConcluded`): after that no thread writes the ticket again. No lock here
either: the primary key decides.

`WorktreesProofs`, with `OneRunner`: `NothingLostHolds`, `SuccessHandedOverHolds`,
`ManifestIsOwnWorkHolds`. `TaskOK` is what crashes leave of a task: attempts are
counted, what was made carries its attempt, what the latest attempt made is not
lost. `PhaseAt` is what the runner knows at each label: before the command the
attempt made nothing, after it the directory holds what was made, harvested
files have their contents, and only when everything is kept, or passed over by
the last listing, comes the removal.

### The task queue and the credits

`TaskQueueProofs`: `DeadAfterFailuresHolds`, and `AtomicQueueImplemented`, that
`Spec` implements `AtomicQueue`. `QueueInv` has three parts: types; `LeaseOK`,
that between SELECT and UPDATE a worker holds the lock, and what it saw is still
pending, within the limit, and no less urgent than what was due for it
throughout; `FailureOK`, that no retry count, stored or remembered, exceeds the
failures on record. In the refinement a step that only reads, takes the lock or
is refused is a stutter, the UPDATE is `Lease`, a tick is `TimePasses`; each
action has its own step.

`MissionCreditsProofs`: `TypeCorrect`, `BooksBalanceHolds`, `LedgerImplemented`,
`OpenIsPaidHolds`, `FailureIsPaidBackHolds`. `LedgerInv` says that whoever is
about to commit is the writer and has read the balance that is stored
(`WriterOK`), and that its key is not used yet (`CallersOK`); so a commit is a
`Credit` or a `Debit` of the ledger. `PaidAt` says for every label of a mission's
thread how often it has been paid for and paid back, counting a cancellation that
is between its mark and its refund, of which there are finitely many as callers
are; `CancelOK` says that a caller pays back only what is marked; `BackAt` follows
a failing mission to its refund.

### Only model-checked

Liveness: `EveryCallReturns`, `LoopEnds`, `AssignReturns`, `OrphanReclaimed`,
`CallReturns`, `MissionSettles`. That `LoopEnds` within one pass per task needs
an induction over the list; that the loop is right when it ends, above, does not.

## 6. Not modelled

* The planner's text, the executor's subprocess, the single gates: they appear as
  an arbitrary graph, an arbitrary outcome, a pipeline that passes or not.
* Schema migration, snapshots, checkpoints and audit tables of the store: written
  once or never read by a decision. Recorded costs are the flag `refused`.
* Of the worktrees: deletions and the git patch that records them, path checks,
  names that sanitising makes equal, and files under `.git`, which not even the
  recovery copy takes (`worktree_manager.py:385`).
* Of the contract: the operations that only read, and the fields of the envelope
  that are not about success.
* Of the adapter: sessions, approvals, cancel flags and the authority policy.
* The in-memory `PriorityTaskQueue`; invoices, subscriptions, payment providers
  and `billing_idempotency.py`.
* The DAG scheduler, the daemon, the core runtime and the PEV harness: separate
  subsystems, the first two next in the plan.
* Gateway, promise jobs, OPC packs, generated vertical commands and the
  TypeScript packages: I/O, generated code or user interface. They are most of
  the repository's lines.

## 7. Plan

Done, in this order: `TaskGraph`, `PropagateLoop`, `GoalStore`, `GoalRun`,
`GoalRunParallel`, `WorkerLeases`, `ReportOutbox`, `TicketAdmission`,
`Worktrees`, `SophiaContract`, `AtomicQueue` and `TaskQueue`, `CreditLedger` and
`MissionCredits`, and the theorems of section 5. Next:

1. The DAG scheduler with its worker threads; the daemon's worker pool with
   circuit breaker and dead letters.
2. Abstract specifications: a lane as a set of at most `Cap` holders that
   `WorkerLeases` of one store implements; an outbox as a report that is new,
   accepted or given up, implemented by `ReportOutbox`; a mission that is
   received, run once and reported, implemented by `TicketAdmission`.
3. The ticket budget and its mandate as state (`record_ticket_cost`), in place
   of the flag `refused`.

Theorems: step simulation for the refinements of item 2, on the invariants of
section 5. A run that covers a new question absorbs an existing one, so that each
stays a question of its own: `admission` can carry the outbox's properties.
