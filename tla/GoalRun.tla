------------------------------- MODULE GoalRun -------------------------------
(***************************************************************************)
(* Running a goal one task at a time: run_goal, resume_goal, verify_goal   *)
(* and cancel_goal of goal_engine/service.py, called by processes that     *)
(* share one store and may crash between any two of their store calls.     *)
(*                                                                         *)
(* proc[p].pc names the next store call (or command) of process p.  What   *)
(* p keeps in memory meanwhile is the rest of the record; it is lost in a  *)
(* crash and goes stale when another process writes the store.             *)
(***************************************************************************)
EXTENDS GoalStore

CONSTANTS
    Proc,           \* processes that may drive the goal
    NoTask,         \* no current task
    Ticketed,       \* runs carry a ticket whose budget is enforced
    MaxRuns         \* bound: calls of run/resume/verify altogether

ASSUME ProcAssumption == NoTask \notin Task /\ Ticketed \in BOOLEAN /\ MaxRuns \in Nat

VARIABLES
    proc,           \* process -> its program counter and memory
    refused,        \* the ticket is over budget, or its mandate fails the hash
    runs,           \* calls made so far
    launches,       \* history: task -> times its command was started
    ranOk,          \* history: tasks whose command exited with success
    gatesPassed,    \* history: whether a pipeline with real gates ever passed,
                    \* and whether no command was started since ("fresh")
    cancelledIdle   \* history: cancel_goal was called while no process ran

procVars == <<proc, runs>>
history == <<launches, ranOk, gatesPassed, cancelledIdle>>
vars == <<goal, tasks, leases, clock, proc, refused, runs,
          launches, ranOk, gatesPassed, cancelledIdle>>

PC == {"idle", "reconcile", "enter", "announce", "scan", "pick", "exec", "record",
       "blockread", "blocksave", "conclude",
       "verify", "mark", "gates", "judge", "finish"} \cup
      \* the store calls of run_goal_parallel, see GoalRunParallel
      {"pscan", "pblock", "pfill", "pstart", "pwait", "prelease", "precord",
       "pblockread", "pblocksave", "pconclude"}

\* A process between calls: nothing in memory.
IdleProc ==
    [pc |-> "idle",
     workers |-> 0,             \* effective_workers; 0 in run_goal
     execute |-> FALSE,         \* execute_commands
     gates |-> FALSE,           \* the profile has gates (it is not "none")
     snap |-> [t \in Task |-> Row("PENDING", "PLANNED", 0)],  \* rows read, as changed
     todo |-> {},               \* tasks of the for loop still to come, or rows to save
     leased |-> {},             \* orphans whose lease row is to be deleted
     cur |-> NoTask,            \* task being executed
     ok |-> FALSE,              \* its command (or the pipeline) succeeded
     progressed |-> FALSE,      \* completed_any
     verdict |-> GoalIs("PLANNED", "PLANNED")]  \* goal row about to be saved

ProcState ==
    [pc : PC, workers : Nat, execute : BOOLEAN, gates : BOOLEAN, snap : [Task -> TaskRow],
     todo : SUBSET Task, leased : SUBSET Task, cur : Task \cup {NoTask}, ok : BOOLEAN,
     progressed : BOOLEAN, verdict : GoalRow]

Init ==
    /\ StoreInit
    /\ proc = [p \in Proc |-> IdleProc]
    /\ refused = FALSE
    /\ runs = 0
    /\ launches = [t \in Task |-> 0]
    /\ ranOk = {}
    /\ gatesPassed = "never"
    /\ cancelledIdle = FALSE

At(p, label) == proc[p].pc = label

\* p returns to its caller, or an exception ends the call.
Leave(p) == proc' = [proc EXCEPT ![p] = IdleProc]

\* p is about to save the goal with this status and truth, and return.
Conclude(p, status, truth) ==
    proc' = [proc EXCEPT ![p] = [IdleProc EXCEPT !.pc = "finish",
                                                 !.verdict = GoalIs(status, truth)]]

TicketRefuses == Ticketed /\ refused

(***************************************************************************)
(* Entering a run                                                          *)
(***************************************************************************)

\* A caller invokes a run, or verify_goal, with some mode and profile.
Call(p, label, workers, execute, gates) ==
    /\ At(p, "idle")
    /\ runs < MaxRuns
    /\ runs' = runs + 1
    /\ proc' = [proc EXCEPT ![p].pc = label, ![p].workers = workers,
                            ![p].execute = execute, ![p].gates = gates]
    /\ UNCHANGED <<storeVars, refused, history>>

\* `goal verify` passes simulated_run = None, which counts as an executed run.
CallRun(p) == \E execute, gates \in BOOLEAN : Call(p, "enter", 0, execute, gates)
CallVerify(p) == \E gates \in BOOLEAN : Call(p, "verify", 0, TRUE, gates)

\* resume_goal begins: reconcile_orphaned_running_tasks has read the tasks
\* and the leases and decided.
CallResume(p) ==
    /\ At(p, "idle")
    /\ runs < MaxRuns
    /\ runs' = runs + 1
    /\ LET orphans == Orphans(tasks, leases, clock)
       IN \E execute, gates \in BOOLEAN :
            proc' = [proc EXCEPT ![p].pc = "reconcile",
                                 ![p].execute = execute,
                                 ![p].gates = gates,
                                 ![p].snap = Reconciled(tasks, leases, clock),
                                 ![p].todo = orphans,
                                 ![p].leased = {t \in orphans : leases[t] # NoLease}]
    /\ UNCHANGED <<storeVars, refused, history>>

\* The reconciled rows are saved, their leases released.  With one of them
\* WAITING_APPROVAL the goal is blocked, otherwise resume_goal goes on to
\* run_goal.
SaveReconciled(p) ==
    /\ At(p, "reconcile")
    /\ SaveTasks(proc[p].todo, proc[p].snap)
    /\ leases' = [t \in Task |-> IF t \in proc[p].leased THEN NoLease ELSE leases[t]]
    /\ IF \E t \in proc[p].todo : proc[p].snap[t].truth = "WAITING_APPROVAL"
       THEN Conclude(p, "BLOCKED", "WAITING_APPROVAL")
       ELSE proc' = [proc EXCEPT ![p].pc = "enter", ![p].todo = {}, ![p].leased = {}]
    /\ UNCHANGED <<goal, clock, runs, refused, history>>

\* run_goal, and run_goal_parallel, read the goal; a cancelled one, or a
\* ticket that fails its mandate or budget, is refused with an exception.
Enter(p) ==
    /\ At(p, "enter")
    /\ IF goal.status = "CANCELLED" \/ TicketRefuses
       THEN Leave(p)
       ELSE proc' = [proc EXCEPT ![p].pc = "announce"]
    /\ UNCHANGED <<storeVars, runs, refused, history>>

\* The goal is saved as RUNNING.
Announce(p) ==
    /\ At(p, "announce")
    /\ goal' = GoalIs("RUNNING", "RUNNING")
    /\ proc' = [proc EXCEPT ![p].pc = IF proc[p].workers = 0 THEN "scan" ELSE "pscan"]
    /\ UNCHANGED <<tasks, leases, clock, runs, refused, history>>

(***************************************************************************)
(* The task loop                                                           *)
(***************************************************************************)

\* The rows p reads, propagated in memory only, and the tasks ready in them.
ReadGraph(p, label) ==
    LET rows == PropagateFailures(DependsOn, tasks)
    IN proc' = [proc EXCEPT ![p].pc = label,
                            ![p].snap = rows,
                            ![p].todo = ReadyTasks(DependsOn, rows, ~proc[p].execute),
                            ![p].progressed = FALSE]

Scan(p) ==
    /\ At(p, "scan")
    /\ ReadGraph(p, "pick")
    /\ UNCHANGED <<storeVars, runs, refused, history>>

\* A task of the ready list is saved as RUNNING, one attempt more.
StartTask(p) ==
    /\ At(p, "pick")
    /\ ~TicketRefuses
    /\ \E t \in proc[p].todo :
        LET row == Row("RUNNING", "RUNNING", proc[p].snap[t].attempts + 1)
        IN /\ tasks' = [tasks EXCEPT ![t] = row]
           /\ proc' = [proc EXCEPT ![p].pc = "exec",
                                   ![p].cur = t,
                                   ![p].todo = proc[p].todo \ {t},
                                   ![p].snap = [proc[p].snap EXCEPT ![t] = row]]
    /\ UNCHANGED <<goal, leases, clock, runs, refused, history>>

\* The ticket check before a task raises: the goal is left as it is.
RefuseTask(p) ==
    /\ At(p, "pick")
    /\ proc[p].todo # {}
    /\ TicketRefuses
    /\ Leave(p)
    /\ UNCHANGED <<storeVars, runs, refused, history>>

\* In a directive run, or without a command, nothing is executed.
Direct(p) ==
    /\ At(p, "exec")
    /\ ~(proc[p].execute /\ proc[p].cur \in HasCommand)
    /\ proc' = [proc EXCEPT ![p].pc = "record", ![p].ok = TRUE]
    /\ UNCHANGED <<storeVars, runs, refused, history>>

\* The command runs and exits, is refused, or times out.
Execute(p) ==
    /\ At(p, "exec")
    /\ proc[p].execute
    /\ proc[p].cur \in HasCommand
    /\ launches' = [launches EXCEPT ![proc[p].cur] = @ + 1]
    /\ \E success \in BOOLEAN :
        /\ proc' = [proc EXCEPT ![p].pc = "record", ![p].ok = success]
        /\ ranOk' = IF success THEN ranOk \cup {proc[p].cur} ELSE ranOk
    /\ gatesPassed' = IF gatesPassed = "never" THEN "never" ELSE "stale"
    /\ UNCHANGED <<storeVars, runs, refused, cancelledIdle>>

\* The row of the task just executed.
OutcomeRow(p) ==
    LET attempts == proc[p].snap[proc[p].cur].attempts
    IN IF ~proc[p].ok THEN Row("FAILED", "EXECUTION_FAILED", attempts)
       ELSE IF proc[p].execute /\ proc[p].cur \in HasCommand
            THEN Row("COMPLETED", "VERIFIED_SUCCESS", attempts)
       ELSE Row("COMPLETED", "SIMULATED", attempts)

\* Mutant of Record: completed_any is not set.
RecordNoProgress(p) ==
    /\ At(p, "record")
    /\ tasks' = [tasks EXCEPT ![proc[p].cur] = OutcomeRow(p)]
    /\ proc' = [proc EXCEPT ![p].pc = IF proc[p].ok THEN "pick" ELSE "blockread",
                            ![p].cur = NoTask, ![p].ok = FALSE]
    /\ UNCHANGED <<goal, leases, clock, runs, refused, history>>

\* The outcome is saved.  After a success the loop goes on; a failure is
\* propagated and ends the run.
Record(p) ==
    /\ At(p, "record")
    /\ tasks' = [tasks EXCEPT ![proc[p].cur] = OutcomeRow(p)]
    /\ proc' = IF proc[p].ok
               THEN [proc EXCEPT ![p].pc = "pick", ![p].cur = NoTask,
                                 ![p].ok = FALSE, ![p].progressed = TRUE]
               ELSE [proc EXCEPT ![p].pc = "blockread", ![p].cur = NoTask]
    /\ UNCHANGED <<goal, leases, clock, runs, refused, history>>

\* Mutant of ReadForBlocking: goes on only when something has to be blocked.
ReadForBlockingSome(p) ==
    /\ At(p, "blockread")
    /\ NewlyBlocked(DependsOn, tasks) # {}
    /\ proc' = [proc EXCEPT ![p].pc = "blocksave",
                            ![p].snap = PropagateFailures(DependsOn, tasks),
                            ![p].todo = NewlyBlocked(DependsOn, tasks)]
    /\ UNCHANGED <<storeVars, runs, refused, history>>

\* After a failure all rows are read again and the failure propagated.
ReadForBlocking(p) ==
    /\ At(p, "blockread")
    /\ proc' = [proc EXCEPT ![p].pc = "blocksave",
                            ![p].snap = PropagateFailures(DependsOn, tasks),
                            ![p].todo = NewlyBlocked(DependsOn, tasks)]
    /\ UNCHANGED <<storeVars, runs, refused, history>>

SaveBlocked(p) ==
    /\ At(p, "blocksave")
    /\ SaveTasks(proc[p].todo, proc[p].snap)
    /\ Conclude(p, "FAILED", "EXECUTION_FAILED")
    /\ UNCHANGED <<goal, leases, clock, runs, refused, history>>

\* The for loop is over.  The rows are read for the stop policy; if a task
\* completed in this pass they are searched for ready tasks once more.
EndPass(p) ==
    /\ At(p, "pick")
    /\ proc[p].todo = {}
    /\ IF RetriesExhausted(tasks) THEN Conclude(p, "BLOCKED", "BLOCKED")
       ELSE IF proc[p].progressed THEN ReadGraph(p, "pick")
       ELSE proc' = [proc EXCEPT ![p].pc = "conclude"]
    /\ UNCHANGED <<storeVars, runs, refused, history>>

\* Nothing is left to start: the rows decide how the run ends.
Decide(p) ==
    /\ At(p, "conclude")
    /\ IF \E t \in Task : tasks[t].truth = "WAITING_APPROVAL"
         THEN Conclude(p, "BLOCKED", "WAITING_APPROVAL")
       ELSE IF \E t \in Task : tasks[t].status = "FAILED"
         THEN Conclude(p, "FAILED", "EXECUTION_FAILED")
       ELSE IF \E t \in Task : tasks[t].status # "COMPLETED"
         THEN Conclude(p, "BLOCKED", "BLOCKED")
       ELSE proc' = [proc EXCEPT ![p].pc = "verify"]
    /\ UNCHANGED <<storeVars, runs, refused, history>>

\* The goal row is saved and the call returns.
Finish(p) ==
    /\ At(p, "finish")
    /\ goal' = proc[p].verdict
    /\ Leave(p)
    /\ UNCHANGED <<tasks, leases, clock, runs, refused, history>>

(***************************************************************************)
(* Verification                                                            *)
(***************************************************************************)

\* verify_goal reads the goal to save it as VERIFYING, its truth unchanged.
ReadForVerify(p) ==
    /\ At(p, "verify")
    /\ proc' = [proc EXCEPT ![p].pc = "mark",
                            ![p].verdict = GoalIs("VERIFYING", goal.truth)]
    /\ UNCHANGED <<storeVars, runs, refused, history>>

MarkVerifying(p) ==
    /\ At(p, "mark")
    /\ goal' = proc[p].verdict
    /\ proc' = [proc EXCEPT ![p].pc = "gates"]
    /\ UNCHANGED <<tasks, leases, clock, runs, refused, history>>

\* Mutant of RunGates: a pipeline that has passed before is not run again.
RunGatesCached(p) ==
    /\ At(p, "gates")
    /\ \E passed \in BOOLEAN :
        /\ ~proc[p].gates \/ gatesPassed # "never" => passed
        /\ proc' = [proc EXCEPT ![p].pc = "judge", ![p].ok = passed]
        /\ gatesPassed' = IF passed /\ proc[p].gates /\ gatesPassed = "never"
                          THEN "fresh" ELSE gatesPassed
    /\ UNCHANGED <<storeVars, runs, refused, launches, ranOk, cancelledIdle>>

\* The gates of the profile run; without gates the pipeline passes.
RunGates(p) ==
    /\ At(p, "gates")
    /\ \E passed \in BOOLEAN :
        /\ ~proc[p].gates => passed
        /\ proc' = [proc EXCEPT ![p].pc = "judge", ![p].ok = passed]
        /\ gatesPassed' = IF passed /\ proc[p].gates THEN "fresh" ELSE gatesPassed
    /\ UNCHANGED <<storeVars, runs, refused, launches, ranOk, cancelledIdle>>

AnySimulated(p) ==
    \/ ~proc[p].execute
    \/ \E t \in Task : tasks[t].truth = "SIMULATED"
    \/ /\ \A t \in Task : tasks[t].status = "COMPLETED"
       /\ \E t \in Task : t \notin HasCommand

AllTasksVerified ==
    /\ Task # {}
    /\ \A t \in Task : /\ tasks[t].status = "COMPLETED"
                       /\ tasks[t].truth = "VERIFIED_SUCCESS"
                       /\ t \in HasCommand

\* Mutant of VerdictOf: a pass with real gates is enough for VERIFIED_SUCCESS.
VerdictOfGatesOnly(p) ==
    IF ~proc[p].ok THEN GoalIs("BLOCKED", "VERIFICATION_FAILED")
    ELSE IF AnySimulated(p) THEN GoalIs("SATISFIED", "SIMULATED")
    ELSE IF ~proc[p].gates THEN GoalIs("SATISFIED", "UNAVAILABLE")
    ELSE GoalIs("SATISFIED", "VERIFIED_SUCCESS")

\* What the pipeline's answer and the rows read after it make of the goal.
VerdictOf(p) ==
    IF ~proc[p].ok THEN GoalIs("BLOCKED", "VERIFICATION_FAILED")
    ELSE IF AnySimulated(p) THEN GoalIs("SATISFIED", "SIMULATED")
    ELSE IF ~proc[p].gates \/ ~AllTasksVerified THEN GoalIs("SATISFIED", "UNAVAILABLE")
    ELSE GoalIs("SATISFIED", "VERIFIED_SUCCESS")

Judge(p) ==
    /\ At(p, "judge")
    /\ Conclude(p, VerdictOf(p).status, VerdictOf(p).truth)
    /\ UNCHANGED <<storeVars, runs, refused, history>>

(***************************************************************************)
(* Operator and environment                                                *)
(***************************************************************************)

\* cancel_goal: the row is CANCELLED whatever it was; the tasks stay.
CancelGoal ==
    /\ goal' = GoalIs("CANCELLED", "CANCELLED")
    /\ cancelledIdle' = (cancelledIdle \/ \A p \in Proc : At(p, "idle"))
    /\ UNCHANGED <<tasks, leases, clock, procVars, refused, launches, ranOk, gatesPassed>>

\* record_ticket_cost moves the spending over or back under the budget.
RecordCost ==
    /\ Ticketed
    /\ refused' = ~refused
    /\ UNCHANGED <<storeVars, procVars, history>>

\* A process dies at any point; what it had not saved is lost.
Crash(p) ==
    /\ ~At(p, "idle")
    /\ Leave(p)
    /\ UNCHANGED <<storeVars, runs, refused, history>>

Step(p) ==
    \/ SaveReconciled(p) \/ Enter(p) \/ Announce(p) \/ Scan(p)
    \/ StartTask(p) \/ RefuseTask(p) \/ Direct(p) \/ Execute(p) \/ Record(p)
    \/ ReadForBlocking(p) \/ SaveBlocked(p) \/ EndPass(p) \/ Decide(p) \/ Finish(p)
    \/ ReadForVerify(p) \/ MarkVerifying(p) \/ RunGates(p) \/ Judge(p)

\* Everything but a crash.
Progress ==
    \/ \E p \in Proc : CallRun(p) \/ CallVerify(p) \/ CallResume(p) \/ Step(p)
    \/ CancelGoal
    \/ RecordCost

Next == Progress \/ \E p \in Proc : Crash(p)

Spec == Init /\ [][Next]_vars

\* A process that is scheduled makes its next step: store calls return, and
\* LocalExecutor ends every command by its timeout.  Nothing makes a crash,
\* a call or a cancellation happen.
FairSpec == Spec /\ \A p \in Proc : WF_vars(Step(p))

(***************************************************************************)
(* Properties                                                              *)
(***************************************************************************)

TypeOK ==
    /\ StoreTypeOK
    /\ proc \in [Proc -> ProcState]
    /\ refused \in BOOLEAN
    /\ runs \in Nat
    /\ launches \in [Task -> Nat]
    /\ ranOk \subseteq Task
    /\ gatesPassed \in {"never", "stale", "fresh"}
    /\ cancelledIdle \in BOOLEAN

\* A goal reported as VERIFIED_SUCCESS has tasks, every one of them has had
\* its command executed with success, and real gates have passed: no mixture
\* of directive runs, resumes, crashes and concurrent writers makes
\* verify_goal claim success for work that was simulated or never done.
VerifiedTruth ==
    goal.truth = "VERIFIED_SUCCESS" =>
        Task # {} /\ Task \subseteq ranOk /\ gatesPassed # "never"

\* A command is only started when the command of every task it depends on
\* has been executed with success: run_goal never builds real work on a
\* simulated or failed dependency, even on rows another process changed.
RealWorkOnRealWork ==
    \A t \in Task : launches[t] > 0 => DependsOn[t] \subseteq ranOk

\* With one process at a time, crashing and resuming anywhere, the command
\* of a task that is not idempotent, or whose side effects are uncertain, is
\* started at most once: resume_goal never repeats it.
NoRepeatedSideEffect ==
    \A t \in Task : (t \notin Idempotent \/ t \in Uncertain) => launches[t] <= 1

\* With one process at a time an idempotent task is started at most as often
\* as its attempts, the goal's retry limit and the ticket's budget all allow.
RetryWithinBudget ==
    \A t \in Task : \/ launches[t] <= 1
                    \/ launches[t] <= MaxAttempts /\ launches[t] <= RetryLimit
                       /\ launches[t] <= TicketRetry

\* With one process at a time VERIFIED_SUCCESS is judged on gates that ran
\* after the last command did, not on an earlier pipeline.
GatesAfterWork == goal.truth = "VERIFIED_SUCCESS" => gatesPassed = "fresh"

\* run_goal stops looking for work only when there is none: when it decides
\* how the run ended, no stored task is ready to start.
NoReadyTaskLeft ==
    \A p \in Proc : At(p, "conclude") =>
        ReadyTasks(DependsOn, PropagateFailures(DependsOn, tasks), ~proc[p].execute) = {}

\* With one process at a time a completed task keeps its row for ever: no
\* reconciliation or propagation takes a recorded result back.
CompletedIsFinal ==
    [][\A t \in Task : tasks[t].status = "COMPLETED" => tasks'[t] = tasks[t]]_vars

\* Every call of run_goal, resume_goal or verify_goal returns, raises or dies
\* with its process; the loop over ready tasks does not go on for ever.
EveryCallReturns == \A p \in Proc : ~At(p, "idle") ~> At(p, "idle")

\* What tests/mekongcli/test_goal_engine.py says of a cancelled goal ("cancelled
\* goal should not run"): once cancel_goal has returned while nothing ran, no
\* command of the goal is started any more.
CancelBlocksFutureRun == [][cancelledIdle => launches' = launches]_vars
=============================================================================
