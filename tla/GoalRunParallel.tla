--------------------------- MODULE GoalRunParallel ---------------------------
(***************************************************************************)
(* run_goal_parallel of goal_engine/service.py: one coordinator thread     *)
(* that makes every store call, and a pool of worker threads that only     *)
(* execute commands.  A task is submitted under a worker lease; results    *)
(* are recorded in the batches concurrent.futures.wait returns.            *)
(*                                                                         *)
(* The actions of GoalRun stay: the same processes also run goals one task *)
(* at a time, resume, verify, cancel and crash.                            *)
(***************************************************************************)
EXTENDS GoalRun, FiniteSets

CONSTANTS
    LaneCap,        \* MAX_AUTONOMOUS_WORKERS
    LeaseTime       \* how long a lease lasts: timeout_seconds or 120

ASSUME LaneAssumption == LaneCap \in Nat \ {0} /\ LeaseTime \in Nat \ {0}

VARIABLE pool       \* process -> its thread pool and what it will record

parVars == <<goal, tasks, leases, clock, proc, refused, runs,
             launches, ranOk, gatesPassed, cancelledIdle, pool>>

FutureState == {"none", "running", "success", "failure", "simulated"}

IdlePool ==
    [futures |-> [t \in Task |-> "none"],   \* active_futures
     rows |-> [t \in Task |-> Row("PENDING", "PLANNED", 0)],  \* rows as submitted
     batch |-> {},                          \* finished futures being recorded
     saturated |-> FALSE]                   \* saturated_wait

PoolState == [futures : [Task -> FutureState], rows : [Task -> TaskRow],
              batch : SUBSET Task, saturated : BOOLEAN]

ParInit == Init /\ pool = [p \in Proc |-> IdlePool]

InFlight(p) == {t \in Task : pool[p].futures[t] # "none"}

ActiveLeases == {t \in Task : leases[t] > clock}

CallParallel(p) ==
    /\ \E execute, gates \in BOOLEAN, workers \in 1 .. LaneCap :
           Call(p, "enter", workers, execute, gates)
    /\ UNCHANGED pool

\* The top of the loop: rows are read and failures propagated.
ParScan(p) ==
    /\ At(p, "pscan")
    /\ proc' = [proc EXCEPT ![p].pc = "pblock",
                            ![p].snap = PropagateFailures(DependsOn, tasks),
                            ![p].todo = NewlyBlocked(DependsOn, tasks)]
    /\ UNCHANGED <<storeVars, runs, refused, history, pool>>

\* The blocked rows are saved; without futures or new ready tasks the loop
\* is left.
ParSaveBlocked(p) ==
    /\ At(p, "pblock")
    /\ SaveTasks(proc[p].todo, proc[p].snap)
    /\ LET ready == ReadyTasks(DependsOn, proc[p].snap, ~proc[p].execute) \ InFlight(p)
       IN proc' = [proc EXCEPT ![p].pc = IF ready = {} /\ InFlight(p) = {}
                                         THEN "pconclude" ELSE "pfill",
                               ![p].todo = ready]
    /\ pool' = [pool EXCEPT ![p].saturated = FALSE]
    /\ UNCHANGED <<goal, leases, clock, runs, refused, history>>

\* Mutant of LaneFull: one lease too many is granted.
LaneFullLate(t) == t \notin ActiveLeases /\ Cardinality(ActiveLeases) > LaneCap

\* acquire_worker_lease refuses: the lane is full of other workers.
LaneFull(t) == t \notin ActiveLeases /\ Cardinality(ActiveLeases) >= LaneCap

\* A refused task is marked QUEUED, unless it already is.
Queue(p) ==
    /\ At(p, "pfill")
    /\ Cardinality(InFlight(p)) < proc[p].workers
    /\ \E t \in proc[p].todo :
        LET row == [proc[p].snap[t] EXCEPT !.truth = "QUEUED"]
        IN /\ LaneFull(t)
           /\ tasks' = IF proc[p].snap[t].truth = "QUEUED" THEN tasks
                                                           ELSE [tasks EXCEPT ![t] = row]
           /\ proc' = [proc EXCEPT ![p].todo = proc[p].todo \ {t}]
    /\ pool' = [pool EXCEPT ![p].saturated = TRUE]
    /\ UNCHANGED <<goal, leases, clock, runs, refused, history>>

\* The lease of the task's worker is granted, new or over an old row.
AcquireLease(p) ==
    /\ At(p, "pfill")
    /\ Cardinality(InFlight(p)) < proc[p].workers
    /\ \E t \in proc[p].todo :
        /\ ~LaneFull(t)
        /\ leases' = [leases EXCEPT ![t] = clock + LeaseTime]
        /\ proc' = [proc EXCEPT ![p].pc = "pstart", ![p].cur = t,
                                ![p].todo = proc[p].todo \ {t}]
    /\ UNCHANGED <<goal, tasks, clock, runs, refused, history, pool>>

\* The leased task is saved as RUNNING and submitted to the pool.
Submit(p) ==
    /\ At(p, "pstart")
    /\ LET t == proc[p].cur
           row == Row("RUNNING", "RUNNING", proc[p].snap[t].attempts + 1)
       IN /\ tasks' = [tasks EXCEPT ![t] = row]
          /\ pool' = [pool EXCEPT ![p].futures = [@ EXCEPT ![t] = "running"],
                                  ![p].rows = [@ EXCEPT ![t] = row]]
    /\ proc' = [proc EXCEPT ![p].pc = "pfill", ![p].cur = NoTask]
    /\ UNCHANGED <<goal, leases, clock, runs, refused, history>>

\* Mutant of EndFill: with the lane full the coordinator tries again at once.
EndFillSpin(p) ==
    /\ At(p, "pfill")
    /\ proc[p].todo = {} \/ Cardinality(InFlight(p)) >= proc[p].workers
    /\ proc' = [proc EXCEPT ![p].pc = IF InFlight(p) = {} THEN "pscan" ELSE "pwait",
                            ![p].todo = {}]
    /\ UNCHANGED <<storeVars, runs, refused, history, pool>>

\* No more can be submitted: wait for a future, or, with none and the lane
\* full, return with the goal BLOCKED and QUEUED.
EndFill(p) ==
    /\ At(p, "pfill")
    /\ proc[p].todo = {} \/ Cardinality(InFlight(p)) >= proc[p].workers
    /\ IF InFlight(p) = {}
       THEN /\ pool[p].saturated
            /\ Conclude(p, "BLOCKED", "QUEUED")
            /\ pool' = [pool EXCEPT ![p] = IdlePool]
       ELSE /\ proc' = [proc EXCEPT ![p].pc = "pwait", ![p].todo = {}]
            /\ UNCHANGED pool
    /\ UNCHANGED <<storeVars, runs, refused, history>>

\* A worker thread executes its command, or has none to execute.
Work(p, t) ==
    /\ pool[p].futures[t] = "running"
    /\ IF proc[p].execute /\ t \in HasCommand
       THEN /\ launches' = [launches EXCEPT ![t] = @ + 1]
            /\ gatesPassed' = IF gatesPassed = "never" THEN "never" ELSE "stale"
            /\ \E outcome \in {"success", "failure"} :
                /\ pool' = [pool EXCEPT ![p].futures = [@ EXCEPT ![t] = outcome]]
                /\ ranOk' = IF outcome = "success" THEN ranOk \cup {t} ELSE ranOk
       ELSE /\ pool' = [pool EXCEPT ![p].futures = [@ EXCEPT ![t] = "simulated"]]
            /\ UNCHANGED <<launches, ranOk, gatesPassed>>
    /\ UNCHANGED <<storeVars, procVars, refused, cancelledIdle>>

\* Some futures are done: they form the batch to record.
Wait(p) ==
    /\ At(p, "pwait")
    /\ LET finished == {t \in InFlight(p) : pool[p].futures[t] # "running"}
       IN /\ finished # {}
          /\ pool' = [pool EXCEPT ![p].batch = finished]
    /\ proc' = [proc EXCEPT ![p].pc = "prelease"]
    /\ UNCHANGED <<storeVars, runs, refused, history>>

\* Mutant of ReleaseLease: the lease of a finished worker is kept.
ReleaseLeaseNever(p) ==
    /\ At(p, "prelease")
    /\ \E t \in pool[p].batch :
        /\ proc' = [proc EXCEPT ![p].pc = "precord", ![p].cur = t]
        /\ pool' = [pool EXCEPT ![p].batch = @ \ {t}]
    /\ UNCHANGED <<storeVars, runs, refused, history>>

\* The lease of a finished worker is deleted, before its result is saved.
ReleaseLease(p) ==
    /\ At(p, "prelease")
    /\ \E t \in pool[p].batch :
        /\ leases' = [leases EXCEPT ![t] = NoLease]
        /\ proc' = [proc EXCEPT ![p].pc = "precord", ![p].cur = t]
        /\ pool' = [pool EXCEPT ![p].batch = @ \ {t}]
    /\ UNCHANGED <<goal, tasks, clock, runs, refused, history>>

\* The row a finished future is recorded with.
FutureRow(p, t) ==
    LET attempts == pool[p].rows[t].attempts
    IN CASE pool[p].futures[t] = "success" -> Row("COMPLETED", "VERIFIED_SUCCESS", attempts)
         [] pool[p].futures[t] = "simulated" -> Row("COMPLETED", "SIMULATED", attempts)
         [] OTHER -> Row("FAILED", "EXECUTION_FAILED", attempts)

\* Mutant of AfterFuture: the loop is left after the first batch.
AfterFutureStop(p) == IF pool[p].batch = {} THEN "pconclude" ELSE "prelease"

\* After a future: the next of the batch, or back to the top of the loop.
AfterFuture(p) == IF pool[p].batch = {} THEN "pscan" ELSE "prelease"

\* The result is saved; a failure is propagated next.
RecordFuture(p) ==
    /\ At(p, "precord")
    /\ LET t == proc[p].cur
       IN /\ tasks' = [tasks EXCEPT ![t] = FutureRow(p, t)]
          /\ pool' = [pool EXCEPT ![p].futures = [@ EXCEPT ![t] = "none"]]
          /\ proc' = [proc EXCEPT ![p].pc = IF pool[p].futures[t] = "failure"
                                            THEN "pblockread" ELSE AfterFuture(p),
                                  ![p].cur = NoTask]
    /\ UNCHANGED <<goal, leases, clock, runs, refused, history>>

ParReadForBlocking(p) ==
    /\ At(p, "pblockread")
    /\ proc' = [proc EXCEPT ![p].pc = "pblocksave",
                            ![p].snap = PropagateFailures(DependsOn, tasks),
                            ![p].todo = NewlyBlocked(DependsOn, tasks)]
    /\ UNCHANGED <<storeVars, runs, refused, history, pool>>

ParSavePropagated(p) ==
    /\ At(p, "pblocksave")
    /\ SaveTasks(proc[p].todo, proc[p].snap)
    /\ proc' = [proc EXCEPT ![p].pc = AfterFuture(p), ![p].todo = {}]
    /\ UNCHANGED <<goal, leases, clock, runs, refused, history, pool>>

\* The loop is over: the rows decide.  A task waiting for approval has no
\* verdict of its own here, and the stop policy can no longer apply.
ParDecide(p) ==
    /\ At(p, "pconclude")
    /\ IF \E t \in Task : tasks[t].status = "FAILED"
         THEN Conclude(p, "FAILED", "EXECUTION_FAILED")
       ELSE IF \E t \in Task : tasks[t].status # "COMPLETED"
         THEN Conclude(p, "BLOCKED", "BLOCKED")
       ELSE proc' = [proc EXCEPT ![p].pc = "verify"]
    /\ pool' = [pool EXCEPT ![p] = IdlePool]
    /\ UNCHANGED <<storeVars, runs, refused, history>>

\* The process dies, its workers with it; lease rows stay.
ParCrash(p) ==
    /\ Crash(p)
    /\ pool' = [pool EXCEPT ![p] = IdlePool]

Tick ==
    /\ clock < MaxTime
    /\ clock' = clock + 1
    /\ UNCHANGED <<goal, tasks, leases, procVars, refused, history, pool>>

ParStep(p) ==
    \/ ParScan(p) \/ ParSaveBlocked(p) \/ Queue(p) \/ AcquireLease(p) \/ Submit(p)
    \/ EndFill(p) \/ Wait(p) \/ ReleaseLease(p) \/ RecordFuture(p)
    \/ ParReadForBlocking(p) \/ ParSavePropagated(p) \/ ParDecide(p)

ParNext ==
    \/ Progress /\ UNCHANGED pool
    \/ \E p \in Proc : CallParallel(p) \/ ParStep(p) \/ ParCrash(p)
    \/ \E p \in Proc, t \in Task : Work(p, t)
    \/ Tick

ParSpec == ParInit /\ [][ParNext]_parVars

\* As FairSpec, and a submitted command ends by its timeout.
FairParSpec ==
    /\ ParSpec
    /\ \A p \in Proc : WF_parVars((Step(p) /\ UNCHANGED pool) \/ ParStep(p))
    /\ \A p \in Proc, t \in Task : WF_parVars(Work(p, t))

(***************************************************************************)
(* Properties (those of GoalRun are checked here too)                      *)
(***************************************************************************)

ParTypeOK == TypeOK /\ pool \in [Proc -> PoolState]

\* Counting what a crash left behind, at most LaneCap unexpired leases of the
\* autonomous lane exist: a restarted coordinator queues its tasks instead of
\* starting workers beside the leases of its dead predecessor.
LaneWithinCap == Cardinality(ActiveLeases) <= LaneCap

\* run_goal_parallel leaves its loop only when no stored task is ready.
NoReadyTaskMissed ==
    \A p \in Proc : At(p, "pconclude") =>
        ReadyTasks(DependsOn, PropagateFailures(DependsOn, tasks), ~proc[p].execute) = {}

\* When run_goal_parallel decides, it has recorded every future and released
\* every lease it took: the tasks it submitted are not RUNNING any more.
NothingLeftRunning ==
    \A p \in Proc : At(p, "pconclude") =>
        \A t \in Task : pool[p].rows[t].status = "RUNNING" =>
            leases[t] = NoLease /\ tasks[t].status \in {"COMPLETED", "FAILED"}
=============================================================================
