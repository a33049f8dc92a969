------------------------- MODULE GoalRunParallelProofs -------------------------
(***************************************************************************)
(* Proofs about GoalRunParallel for any task graph, lane and bounds.  For  *)
(* any number of processes: types, the cap of the worker lane where a      *)
(* grant is one step, and the evidence behind every claim of success.      *)
(* With one process at a time (OneProcess): no future, lease or ready task *)
(* is left behind, and what GoalRunProofs shows of the sequential loop     *)
(* holds of the pool too.                                                  *)
(***************************************************************************)
EXTENDS GoalRunParallel, GoalRunProofs, FiniteSetTheorems

(***************************************************************************)
(* Definitions                                                             *)
(***************************************************************************)

\* The labels of the store calls of run_goal_parallel.
ParPC == {"pscan", "pblock", "pfill", "pstart", "pwait", "prelease", "precord",
          "pblockread", "pblocksave", "pconclude"}

\* The futures of a pool that are done and not recorded.
Done(po) == {t \in Task : po.futures[t] \notin {"none", "running"}}

\* A pool exists only inside run_goal_parallel, and a batch holds only futures
\* that are done.
PoolFits(r, po) ==
    /\ r.pc \notin ParPC => po = IdlePool
    /\ r.pc \in {"prelease", "precord", "pblockread", "pblocksave"} => po.batch \subseteq Done(po)
    /\ r.pc = "precord" => r.cur \in Done(po) \ po.batch
    /\ r.pc = "pstart" => r.cur \in Task

\* What a pool executes, or is about to, rests on work that is done.
WorkBacked(r, po, done) ==
    /\ \A t \in Task : po.futures[t] = "success" => t \in done
    /\ r.execute => \A t \in Task : po.futures[t] = "running" => DependsOn[t] \subseteq done
    /\ r.execute /\ r.pc \in {"pfill", "pstart"} => \A t \in r.todo : DependsOn[t] \subseteq done
    /\ r.execute /\ r.pc = "pstart" => DependsOn[r.cur] \subseteq done

\* Types, and pools that fit the labels.
ParShape == ParTypeOK /\ \A p \in Proc : PoolFits(proc[p], pool[p])

\* Everything executed, claimed or about to be started has its evidence.
ParEvidenceInv == EvidenceInv /\ \A p \in Proc : WorkBacked(proc[p], pool[p], ranOk)

\* A task with a future is RUNNING in rows ts with the attempt of the future,
\* and one whose future has been recorded has its result and no lease in ls.
FuturesUpToDate(po, ts, ls, starts) ==
    \A t \in Task :
        /\ po.futures[t] # "none" => ts[t].status = "RUNNING" /\ po.rows[t] = ts[t]
        /\ po.futures[t] = "running" => starts[t] < ts[t].attempts
        /\ po.futures[t] = "none" /\ po.rows[t].status = "RUNNING" =>
              ls[t] = NoLease /\ ts[t].status \in {"COMPLETED", "FAILED"}

\* What the coordinator r has read agrees with rows ts and leases ls.
CoordUpToDate(r, po, ts, ls) ==
    /\ r.pc \in {"pblock", "pblocksave"} => /\ r.todo = NewlyBlocked(DependsOn, ts)
                                            /\ r.snap = PropagateFailures(DependsOn, ts)
    /\ r.pc \in {"pfill", "pstart"} =>
           \A t \in r.todo : ts[t].status = "PENDING" /\ r.snap[t] = ts[t]
    /\ r.pc = "pstart" => /\ r.cur \in Task \ r.todo
                          /\ ts[r.cur].status = "PENDING" /\ r.snap[r.cur] = ts[r.cur]
    /\ r.pc = "precord" => ls[r.cur] = NoLease
    /\ r.pc = "pconclude" => /\ ReadyIn(ts, ~r.execute) = {}
                             /\ \A t \in Task : po.futures[t] = "none"

\* The coordinator's memory, its futures and the leases agree with the store,
\* and no goal is called a success while its tasks are still being run.
CoordInv ==
    \A p \in Proc : /\ CoordUpToDate(proc[p], pool[p], tasks, leases)
                    /\ FuturesUpToDate(pool[p], tasks, leases, launches)
                    /\ proc[p].pc \in ParPC => goal.truth # "VERIFIED_SUCCESS"

\* Finitely many leases are active, no more than the lane has slots.
LaneInv == IsFiniteSet(ActiveLeases) /\ LaneWithinCap

(***************************************************************************)
(* What the steps do                                                       *)
(***************************************************************************)

\* A step of p leaves the memory of the other processes alone.
OthersAsBefore(p) == \A q \in Proc \ {p} : proc'[q] = proc[q] /\ pool'[q] = pool[q]

\* A step of p between the store calls of run_goal, resume_goal and verify_goal.
SequentialMove(p) ==
    /\ proc[p].pc \notin ParPC
    /\ proc'[p].pc \notin ParPC \ {"pscan"}
    /\ proc'[p].pc = "pscan" => goal'.truth # "VERIFIED_SUCCESS"
    /\ \A q \in Proc \ {p} : proc'[q] = proc[q]

LEMMA IdlePoolType == IdlePool \in PoolState
BY DEF IdlePool, PoolState, FutureState, Row, TaskRow, TaskStatus, TruthStatus

LEMMA ParLabels ==
    /\ \A label \in ParPC : label \in PC
    /\ \A label \in ParPC : label \notin {"idle", "reconcile", "enter", "announce", "scan",
           "pick", "exec", "record", "blockread", "blocksave", "conclude", "verify", "mark",
           "gates", "judge", "finish"}
BY DEF ParPC, PC

\* A call that ends, or is about to save its verdict, is outside the parallel loop.
LEMMA ConcludeMove ==
    ASSUME TypeOK, NEW p \in Proc, NEW status, NEW truth,
           proc[p].pc \notin ParPC, Leave(p) \/ Conclude(p, status, truth)
    PROVE  SequentialMove(p)
<1>1. IdleProc.pc = "idle"
      /\ [IdleProc EXCEPT !.pc = "finish", !.verdict = GoalIs(status, truth)].pc = "finish"
  BY DEF IdleProc
<1>2. proc'[p].pc \in {"idle", "finish"}
  BY <1>1 DEF Leave, Conclude, TypeOK
<1>3. \A q \in Proc \ {p} : proc'[q] = proc[q]
  BY DEF Leave, Conclude, TypeOK
<1>4. QED
  BY <1>2, <1>3 DEF SequentialMove, ParPC

\* So is one that moves on to a label of the sequential calls.
LEMMA LabelMove ==
    ASSUME TypeOK, NEW p \in Proc, NEW r, NEW label, proc[p].pc \notin ParPC,
           proc' = [proc EXCEPT ![p] = r], r.pc = label,
           label \notin ParPC \ {"pscan"},
           label = "pscan" => goal'.truth # "VERIFIED_SUCCESS"
    PROVE  SequentialMove(p)
BY DEF SequentialMove, TypeOK

\* Every step of run_goal, resume_goal and verify_goal is such a move.
LEMMA SequentialStep ==
    ASSUME TypeOK, NEW p \in Proc, CallRun(p) \/ CallVerify(p) \/ CallResume(p) \/ Step(p)
    PROVE  SequentialMove(p)
<1>a. proc[p] \in ProcState
  BY DEF TypeOK
<1>1. proc[p].pc \notin ParPC
  BY DEF CallRun, CallVerify, Call, CallResume, Step, SaveReconciled, Enter, Announce, Scan,
         StartTask, RefuseTask, Direct, Execute, Record, ReadForBlocking, SaveBlocked, EndPass,
         Decide, Finish, ReadForVerify, MarkVerifying, RunGates, Judge, At, ParPC
<1>2. ASSUME NEW label, proc' = [proc EXCEPT ![p].pc = label],
             label \notin ParPC \ {"pscan"},
             label = "pscan" => goal'.truth # "VERIFIED_SUCCESS"
      PROVE  SequentialMove(p)
  <2>1. proc' = [proc EXCEPT ![p] = [proc[p] EXCEPT !.pc = label]]
    BY <1>2
  <2>2. [proc[p] EXCEPT !.pc = label].pc = label
    BY <1>a DEF ProcState
  <2>3. QED
    BY <1>1, <1>2, <2>1, <2>2, LabelMove
<1>3. ASSUME NEW label, NEW ok, proc' = [proc EXCEPT ![p].pc = label, ![p].ok = ok],
             label \notin ParPC
      PROVE  SequentialMove(p)
  <2>1. proc' = [proc EXCEPT ![p] = [proc[p] EXCEPT !.pc = label, !.ok = ok]]
    BY <1>3
  <2>2. [proc[p] EXCEPT !.pc = label, !.ok = ok].pc = label
    BY <1>a DEF ProcState
  <2>3. QED
    BY <1>1, <1>3, <2>1, <2>2, LabelMove DEF ParPC
<1>4. ASSUME Leave(p) \/ \E status, truth : Conclude(p, status, truth) PROVE SequentialMove(p)
  BY <1>4, <1>1, ConcludeMove
<1>5. ASSUME ReadGraph(p, "pick") PROVE SequentialMove(p)
  <2> DEFINE rows == PropagateFailures(DependsOn, tasks)
             ready == ReadyTasks(DependsOn, rows, ~proc[p].execute)
             r == [proc[p] EXCEPT !.pc = "pick", !.snap = rows, !.todo = ready,
                                  !.progressed = FALSE]
  <2>1. proc' = [proc EXCEPT ![p] = r]
    BY <1>5 DEF ReadGraph
  <2> HIDE DEF rows, ready
  <2>2. r.pc = "pick"
    BY <1>a DEF ProcState
  <2>3. QED
    BY <1>1, <2>1, <2>2, LabelMove DEF ParPC
<1>6. ASSUME NEW label \in {"enter", "verify"}, NEW execute \in BOOLEAN,
             NEW gates \in BOOLEAN, Call(p, label, 0, execute, gates)
      PROVE  SequentialMove(p)
  <2> DEFINE r == [proc[p] EXCEPT !.pc = label, !.workers = 0, !.execute = execute,
                                  !.gates = gates]
  <2>1. proc' = [proc EXCEPT ![p] = r] /\ r.pc = label
    BY <1>6, <1>a DEF Call, ProcState
  <2>2. QED
    BY <1>1, <2>1, LabelMove DEF ParPC
<1>7. ASSUME CallResume(p) PROVE SequentialMove(p)
  <2> DEFINE orphans == Orphans(tasks, leases, clock)
             rows == Reconciled(tasks, leases, clock)
             covered == {t \in orphans : leases[t] # NoLease}
  <2>1. PICK execute \in BOOLEAN, gates \in BOOLEAN :
          proc' = [proc EXCEPT ![p].pc = "reconcile", ![p].execute = execute,
                               ![p].gates = gates, ![p].snap = rows,
                               ![p].todo = orphans, ![p].leased = covered]
    BY <1>7 DEF CallResume
  <2> HIDE DEF orphans, covered, rows
  <2> DEFINE r == [proc[p] EXCEPT !.pc = "reconcile", !.execute = execute, !.gates = gates,
                                  !.snap = rows, !.todo = orphans, !.leased = covered]
  <2>2. proc' = [proc EXCEPT ![p] = r]
    BY <2>1
  <2>3. r.pc = "reconcile"
    BY <1>a DEF ProcState
  <2>4. QED
    BY <1>1, <2>2, <2>3, LabelMove DEF ParPC
<1>8. ASSUME SaveReconciled(p) PROVE SequentialMove(p)
  <2>1. CASE Conclude(p, "BLOCKED", "WAITING_APPROVAL")
    BY <2>1, <1>4
  <2>2. CASE proc' = [proc EXCEPT ![p].pc = "enter", ![p].todo = {}, ![p].leased = {}]
    <3> DEFINE r == [proc[p] EXCEPT !.pc = "enter", !.todo = {}, !.leased = {}]
    <3>1. proc' = [proc EXCEPT ![p] = r] /\ r.pc = "enter"
      BY <2>2, <1>a DEF ProcState
    <3>2. QED
      BY <1>1, <3>1, LabelMove DEF ParPC
  <2>3. QED
    BY <1>8, <2>1, <2>2 DEF SaveReconciled
<1>9. ASSUME StartTask(p) PROVE SequentialMove(p)
  <2> DEFINE row(t) == Row("RUNNING", "RUNNING", proc[p].snap[t].attempts + 1)
  <2>1. PICK t \in proc[p].todo :
          proc' = [proc EXCEPT ![p].pc = "exec", ![p].cur = t,
                               ![p].todo = proc[p].todo \ {t},
                               ![p].snap = [proc[p].snap EXCEPT ![t] = row(t)]]
    BY <1>9 DEF StartTask
  <2> DEFINE snap == [proc[p].snap EXCEPT ![t] = row(t)]
             r == [proc[p] EXCEPT !.pc = "exec", !.cur = t, !.todo = proc[p].todo \ {t},
                                  !.snap = snap]
  <2>2. proc' = [proc EXCEPT ![p] = r]
    BY <2>1
  <2> HIDE DEF snap
  <2>3. r.pc = "exec"
    BY <1>a DEF ProcState
  <2>4. QED
    BY <1>1, <2>2, <2>3, LabelMove DEF ParPC
<1>10. ASSUME Record(p) PROVE SequentialMove(p)
  <2> DEFINE good == [proc[p] EXCEPT !.pc = "pick", !.cur = NoTask, !.ok = FALSE,
                                     !.progressed = TRUE]
             bad == [proc[p] EXCEPT !.pc = "blockread", !.cur = NoTask]
  <2>1. proc' = [proc EXCEPT ![p] = good] \/ proc' = [proc EXCEPT ![p] = bad]
    BY <1>10 DEF Record
  <2>2. good.pc = "pick" /\ bad.pc = "blockread"
    BY <1>a DEF ProcState
  <2> HIDE DEF good, bad
  <2>3. QED
    BY <1>1, <2>1, <2>2, LabelMove DEF ParPC
<1>11. ASSUME ReadForBlocking(p) PROVE SequentialMove(p)
  <2> DEFINE rows == PropagateFailures(DependsOn, tasks)
             blocked == NewlyBlocked(DependsOn, tasks)
             r == [proc[p] EXCEPT !.pc = "blocksave", !.snap = rows, !.todo = blocked]
  <2>1. proc' = [proc EXCEPT ![p] = r]
    BY <1>11 DEF ReadForBlocking
  <2> HIDE DEF rows, blocked
  <2>2. r.pc = "blocksave"
    BY <1>a DEF ProcState
  <2>3. QED
    BY <1>1, <2>1, <2>2, LabelMove DEF ParPC
<1>12. ASSUME ReadForVerify(p) PROVE SequentialMove(p)
  <2> DEFINE g == GoalIs("VERIFYING", goal.truth)
             r == [proc[p] EXCEPT !.pc = "mark", !.verdict = g]
  <2>1. proc' = [proc EXCEPT ![p] = r]
    BY <1>12 DEF ReadForVerify
  <2> HIDE DEF g
  <2>2. r.pc = "mark"
    BY <1>a DEF ProcState
  <2>3. QED
    BY <1>1, <2>1, <2>2, LabelMove DEF ParPC
<1>13. ASSUME Enter(p) \/ Announce(p) \/ Decide(p) \/ MarkVerifying(p) PROVE SequentialMove(p)
  <2>1. \/ Leave(p) \/ \E status, truth : Conclude(p, status, truth)
        \/ \E label \in {"announce", "scan", "verify", "gates"} :
               proc' = [proc EXCEPT ![p].pc = label]
        \/ proc' = [proc EXCEPT ![p].pc = "pscan"] /\ goal' = GoalIs("RUNNING", "RUNNING")
    BY <1>13 DEF Enter, Announce, Decide, MarkVerifying
  <2>2. \A label \in {"announce", "scan", "verify", "gates"} :
            label # "pscan" /\ label \notin ParPC \ {"pscan"}
    BY DEF ParPC
  <2>3. GoalIs("RUNNING", "RUNNING").truth # "VERIFIED_SUCCESS"
    BY DEF GoalIs
  <2>4. QED
    BY <2>1, <2>2, <2>3, <1>2, <1>4
<1>14. ASSUME Direct(p) \/ Execute(p) \/ RunGates(p) PROVE SequentialMove(p)
  <2>1. \E label \in {"record", "judge"}, ok \in BOOLEAN :
            proc' = [proc EXCEPT ![p].pc = label, ![p].ok = ok]
    BY <1>14 DEF Direct, Execute, RunGates
  <2>2. QED
    BY <2>1, <1>3 DEF ParPC
<1>15. ASSUME EndPass(p) PROVE SequentialMove(p)
  BY <1>15, <1>2, <1>4, <1>5 DEF EndPass, ParPC
<1>16. ASSUME RefuseTask(p) \/ SaveBlocked(p) \/ Finish(p) \/ Judge(p) PROVE SequentialMove(p)
  BY <1>16, <1>4 DEF RefuseTask, SaveBlocked, Finish, Judge
<1>17. ASSUME Scan(p) PROVE SequentialMove(p)
  BY <1>17, <1>5 DEF Scan
<1>18. QED
  BY <1>6, <1>7, <1>8, <1>9, <1>10, <1>11, <1>12, <1>13, <1>14, <1>15, <1>16, <1>17
     DEF Step, CallRun, CallVerify

\* The new memory of p is r and its new pool po, both of their type.
LEMMA StepEffect ==
    ASSUME ParTypeOK, NEW p \in Proc, NEW r \in ProcState, NEW po \in PoolState,
           proc' = [proc EXCEPT ![p] = r], pool' = [pool EXCEPT ![p] = po]
    PROVE  /\ proc' \in [Proc -> ProcState] /\ pool' \in [Proc -> PoolState]
           /\ OthersAsBefore(p)
           /\ proc'[p] = r /\ pool'[p] = po
BY DEF ParTypeOK, TypeOK, OthersAsBefore

\* A step that leaves the pools alone leaves them their type.
LEMMA ProcEffect ==
    ASSUME ParTypeOK, NEW p \in Proc, NEW r \in ProcState,
           proc' = [proc EXCEPT ![p] = r], pool' = pool
    PROVE  /\ proc' \in [Proc -> ProcState] /\ pool' \in [Proc -> PoolState]
           /\ OthersAsBefore(p)
           /\ proc'[p] = r /\ pool'[p] = pool[p]
BY DEF ParTypeOK, TypeOK, OthersAsBefore

\* What p does not touch while it is in its loop.
CoordKeeps(p) ==
    /\ proc' \in [Proc -> ProcState] /\ pool' \in [Proc -> PoolState]
    /\ OthersAsBefore(p)
    /\ proc'[p].execute = proc[p].execute
    /\ proc'[p].verdict = proc[p].verdict

\* What the steps of coordinator p need of the invariants.
ParFacts(p) ==
    /\ proc[p] \in ProcState /\ pool[p] \in PoolState
    /\ proc \in [Proc -> ProcState] /\ pool \in [Proc -> PoolState]
    /\ tasks \in [Task -> TaskRow] /\ leases \in [Task -> Nat]
    /\ launches \in [Task -> Nat] /\ clock \in Nat

LEMMA Facts == ASSUME ParTypeOK, NEW p \in Proc PROVE ParFacts(p)
BY DEF ParTypeOK, TypeOK, StoreTypeOK, ParFacts

\* The rows are read and propagated in memory.
LEMMA ReadEffect ==
    ASSUME ParTypeOK, NEW p \in Proc, ParScan(p) \/ ParReadForBlocking(p)
    PROVE  /\ CoordKeeps(p)
           /\ \/ proc[p].pc = "pscan" /\ proc'[p].pc = "pblock"
              \/ proc[p].pc = "pblockread" /\ proc'[p].pc = "pblocksave"
           /\ proc'[p].snap = PropagateFailures(DependsOn, tasks)
           /\ proc'[p].todo = NewlyBlocked(DependsOn, tasks)
           /\ pool'[p] = pool[p]
           /\ UNCHANGED <<goal, tasks, leases, clock, launches, ranOk, gatesPassed>>
<1> DEFINE rows == PropagateFailures(DependsOn, tasks)
           blocked == NewlyBlocked(DependsOn, tasks)
<1>1. PICK label \in {"pblock", "pblocksave"} :
        /\ proc' = [proc EXCEPT ![p].pc = label, ![p].snap = rows, ![p].todo = blocked]
        /\ \/ proc[p].pc = "pscan" /\ label = "pblock"
           \/ proc[p].pc = "pblockread" /\ label = "pblocksave"
  BY DEF ParScan, ParReadForBlocking, At
<1>2. rows \in [Task -> TaskRow] /\ blocked \in SUBSET Task
  BY Facts, PropagateType DEF NewlyBlocked, Doomed, ParFacts
<1>3. UNCHANGED <<goal, tasks, leases, clock, launches, ranOk, gatesPassed, pool>>
  BY DEF ParScan, ParReadForBlocking, storeVars, history
<1> HIDE DEF rows, blocked
<1> DEFINE r == [proc[p] EXCEPT !.pc = label, !.snap = rows, !.todo = blocked]
<1>4. proc' = [proc EXCEPT ![p] = r]
  BY <1>1
<1>5. r \in ProcState
  BY <1>2, Facts, MemoryType, ParLabels DEF ParFacts, ParPC
<1>6. /\ r.pc = label /\ r.snap = rows /\ r.todo = blocked
      /\ r.execute = proc[p].execute /\ r.verdict = proc[p].verdict
  BY Facts DEF ParFacts, ProcState
<1> HIDE DEF r
<1>7. QED
  BY <1>1, <1>3, <1>4, <1>5, <1>6, ProcEffect DEF CoordKeeps, rows, blocked

\* The propagated rows are saved.
LEMMA SaveBlockedEffect ==
    ASSUME ParTypeOK, NEW p \in Proc, ParSaveBlocked(p),
           NEW ready, ready = ReadyTasks(DependsOn, proc[p].snap, ~proc[p].execute) \ InFlight(p)
    PROVE  /\ CoordKeeps(p)
           /\ proc[p].pc = "pblock"
           /\ proc'[p].pc = IF ready = {} /\ InFlight(p) = {} THEN "pconclude" ELSE "pfill"
           /\ proc'[p].todo = ready
           /\ proc'[p].snap = proc[p].snap
           /\ pool'[p].futures = pool[p].futures /\ pool'[p].rows = pool[p].rows
           /\ SaveTasks(proc[p].todo, proc[p].snap)
           /\ UNCHANGED <<goal, leases, clock, launches, ranOk, gatesPassed>>
<1> DEFINE label == IF ready = {} /\ InFlight(p) = {} THEN "pconclude" ELSE "pfill"
<1>1. proc' = [proc EXCEPT ![p].pc = label, ![p].todo = ready]
  BY DEF ParSaveBlocked
<1>2. label \in PC /\ ready \in SUBSET Task
  BY DEF PC, ReadyTasks
<1> HIDE DEF label
<1> DEFINE r == [proc[p] EXCEPT !.pc = label, !.todo = ready]
           po == [pool[p] EXCEPT !.saturated = FALSE]
<1>3. proc' = [proc EXCEPT ![p] = r] /\ pool' = [pool EXCEPT ![p] = po]
  BY <1>1 DEF ParSaveBlocked
<1>a. proc[p] \in ProcState /\ pool[p] \in PoolState
  BY Facts DEF ParFacts
<1>b. r \in ProcState
  BY <1>2, <1>a DEF ProcState
<1>c. po \in PoolState
  BY <1>a DEF PoolState
<1>4. r \in ProcState /\ po \in PoolState
  BY <1>b, <1>c
<1>5. /\ r.pc = label /\ r.snap = proc[p].snap /\ r.todo = ready
      /\ r.execute = proc[p].execute /\ r.verdict = proc[p].verdict
      /\ po.futures = pool[p].futures /\ po.rows = pool[p].rows
  BY Facts DEF ParFacts, ProcState, PoolState
<1> HIDE DEF r, po
<1>6. proc[p].pc = "pblock" /\ SaveTasks(proc[p].todo, proc[p].snap)
      /\ UNCHANGED <<goal, leases, clock, launches, ranOk, gatesPassed>>
  BY DEF ParSaveBlocked, At, history
<1>7. QED
  BY <1>3, <1>4, <1>5, <1>6, StepEffect DEF CoordKeeps, label

\* A refused task leaves the list of those to submit.
LEMMA QueueEffect ==
    ASSUME ParTypeOK, NEW p \in Proc, Queue(p)
    PROVE  \E t \in proc[p].todo :
           /\ CoordKeeps(p)
           /\ proc[p].pc = "pfill" /\ proc'[p].pc = "pfill"
           /\ proc'[p].todo = proc[p].todo \ {t}
           /\ proc'[p].snap = proc[p].snap
           /\ pool'[p].futures = pool[p].futures /\ pool'[p].rows = pool[p].rows
           /\ \/ tasks' = tasks
              \/ tasks' = [tasks EXCEPT ![t] = [proc[p].snap[t] EXCEPT !.truth = "QUEUED"]]
           /\ UNCHANGED <<goal, leases, clock, launches, ranOk, gatesPassed>>
<1>1. PICK t \in proc[p].todo :
        /\ \/ tasks' = tasks
           \/ tasks' = [tasks EXCEPT ![t] = [proc[p].snap[t] EXCEPT !.truth = "QUEUED"]]
        /\ proc' = [proc EXCEPT ![p].todo = proc[p].todo \ {t}]
  BY DEF Queue
<1> DEFINE r == [proc[p] EXCEPT !.todo = proc[p].todo \ {t}]
           po == [pool[p] EXCEPT !.saturated = TRUE]
<1>2. proc' = [proc EXCEPT ![p] = r] /\ pool' = [pool EXCEPT ![p] = po]
  BY <1>1 DEF Queue
<1>3. r \in ProcState /\ po \in PoolState
  BY Facts DEF ParFacts, ProcState, PoolState
<1>4. /\ r.pc = proc[p].pc /\ r.snap = proc[p].snap /\ r.todo = proc[p].todo \ {t}
      /\ r.execute = proc[p].execute /\ r.verdict = proc[p].verdict
      /\ po.futures = pool[p].futures /\ po.rows = pool[p].rows
  BY Facts DEF ParFacts, ProcState, PoolState
<1> HIDE DEF r, po
<1>5. proc[p].pc = "pfill" /\ UNCHANGED <<goal, leases, clock, launches, ranOk, gatesPassed>>
  BY DEF Queue, At, history
<1>6. CoordKeeps(p) /\ proc'[p] = r /\ pool'[p] = po
  BY <1>2, <1>3, <1>4, StepEffect DEF CoordKeeps
<1>7. QED
  BY <1>1, <1>4, <1>5, <1>6

\* A lease is taken for the task to submit next.
LEMMA AcquireEffect ==
    ASSUME ParTypeOK, NEW p \in Proc, AcquireLease(p)
    PROVE  \E t \in proc[p].todo :
           /\ CoordKeeps(p)
           /\ proc[p].pc = "pfill" /\ proc'[p].pc = "pstart" /\ proc'[p].cur = t
           /\ proc'[p].todo = proc[p].todo \ {t}
           /\ proc'[p].snap = proc[p].snap
           /\ pool'[p] = pool[p]
           /\ ~LaneFull(t)
           /\ leases' = [leases EXCEPT ![t] = clock + LeaseTime]
           /\ UNCHANGED <<goal, tasks, clock, launches, ranOk, gatesPassed>>
<1>1. PICK t \in proc[p].todo :
        /\ ~LaneFull(t)
        /\ leases' = [leases EXCEPT ![t] = clock + LeaseTime]
        /\ proc' = [proc EXCEPT ![p].pc = "pstart", ![p].cur = t, ![p].todo = proc[p].todo \ {t}]
  BY DEF AcquireLease
<1>2. proc[p] \in ProcState /\ t \in Task
  BY Facts DEF ParFacts, ProcState
<1> DEFINE r == [proc[p] EXCEPT !.pc = "pstart", !.cur = t, !.todo = proc[p].todo \ {t}]
<1>3. proc' = [proc EXCEPT ![p] = r] /\ pool' = pool
  BY <1>1 DEF AcquireLease
<1>4. r \in ProcState
  BY <1>2 DEF ProcState, PC
<1>5. /\ r.pc = "pstart" /\ r.snap = proc[p].snap /\ r.todo = proc[p].todo \ {t} /\ r.cur = t
      /\ r.execute = proc[p].execute /\ r.verdict = proc[p].verdict
  BY <1>2 DEF ProcState
<1> HIDE DEF r
<1>6. proc[p].pc = "pfill" /\ UNCHANGED <<goal, tasks, clock, launches, ranOk, gatesPassed>>
  BY DEF AcquireLease, At, history
<1>7. CoordKeeps(p) /\ proc'[p] = r /\ pool'[p] = pool[p]
  BY <1>3, <1>4, <1>5, ProcEffect DEF CoordKeeps
<1>8. QED
  BY <1>1, <1>5, <1>6, <1>7

\* The leased task is saved as RUNNING and submitted.
LEMMA SubmitEffect ==
    ASSUME ParTypeOK, NEW p \in Proc, Submit(p), proc[p].cur \in Task,
           NEW row, row = Row("RUNNING", "RUNNING", proc[p].snap[proc[p].cur].attempts + 1)
    PROVE  /\ CoordKeeps(p)
           /\ proc[p].pc = "pstart" /\ proc'[p].pc = "pfill"
           /\ proc'[p].todo = proc[p].todo
           /\ proc'[p].snap = proc[p].snap
           /\ row \in TaskRow
           /\ tasks' = [tasks EXCEPT ![proc[p].cur] = row]
           /\ pool'[p].futures = [pool[p].futures EXCEPT ![proc[p].cur] = "running"]
           /\ pool'[p].rows = [pool[p].rows EXCEPT ![proc[p].cur] = row]
           /\ UNCHANGED <<goal, leases, clock, launches, ranOk, gatesPassed>>
<1>1. proc[p] \in ProcState /\ pool[p] \in PoolState
  BY Facts DEF ParFacts
<1>2. row \in TaskRow
  BY <1>1 DEF ProcState, Row, TaskRow, TaskStatus, TruthStatus
<1> DEFINE futures == [pool[p].futures EXCEPT ![proc[p].cur] = "running"]
           rows == [pool[p].rows EXCEPT ![proc[p].cur] = row]
           r == [proc[p] EXCEPT !.pc = "pfill", !.cur = NoTask]
           po == [pool[p] EXCEPT !.futures = futures, !.rows = rows]
<1>3. proc' = [proc EXCEPT ![p] = r] /\ pool' = [pool EXCEPT ![p] = po]
  BY DEF Submit
<1>4. futures \in [Task -> FutureState] /\ rows \in [Task -> TaskRow]
  BY <1>1, <1>2 DEF PoolState, FutureState
<1> HIDE DEF futures, rows
<1>5. r \in ProcState
  BY <1>1 DEF ProcState, PC
<1>6. po \in PoolState
  BY <1>1, <1>4 DEF PoolState
<1>7. /\ r.pc = "pfill" /\ r.snap = proc[p].snap /\ r.todo = proc[p].todo
      /\ r.execute = proc[p].execute /\ r.verdict = proc[p].verdict
  BY <1>1 DEF ProcState
<1>8. po.futures = futures /\ po.rows = rows
  BY <1>1 DEF PoolState
<1> HIDE DEF r, po
<1>9. /\ proc[p].pc = "pstart" /\ UNCHANGED <<goal, leases, clock, launches, ranOk, gatesPassed>>
      /\ tasks' = [tasks EXCEPT ![proc[p].cur] = row]
  BY DEF Submit, At, history
<1>10. CoordKeeps(p) /\ proc'[p] = r /\ pool'[p] = po
  BY <1>3, <1>5, <1>6, <1>7, StepEffect DEF CoordKeeps
<1>11. QED
  BY <1>2, <1>7, <1>8, <1>9, <1>10 DEF futures, rows

\* Submitting ends: the call is over, or waits for its futures.
LEMMA EndFillEffect ==
    ASSUME ParTypeOK, NEW p \in Proc, EndFill(p)
    PROVE  /\ proc[p].pc = "pfill"
           /\ \/ /\ Conclude(p, "BLOCKED", "QUEUED")
                 /\ pool' = [pool EXCEPT ![p] = IdlePool]
              \/ /\ CoordKeeps(p)
                 /\ proc'[p].pc = "pwait"
                 /\ proc'[p].snap = proc[p].snap
                 /\ pool'[p] = pool[p]
           /\ UNCHANGED <<goal, tasks, leases, clock, launches, ranOk, gatesPassed>>
<1>1. proc[p].pc = "pfill" /\ UNCHANGED <<goal, tasks, leases, clock, launches, ranOk, gatesPassed>>
  BY DEF EndFill, At, storeVars, history
<1>2. CASE Conclude(p, "BLOCKED", "QUEUED") /\ pool' = [pool EXCEPT ![p] = IdlePool]
  BY <1>1, <1>2
<1>3. CASE proc' = [proc EXCEPT ![p].pc = "pwait", ![p].todo = {}] /\ pool' = pool
  <2> DEFINE r == [proc[p] EXCEPT !.pc = "pwait", !.todo = {}]
  <2>1. proc' = [proc EXCEPT ![p] = r]
    BY <1>3
  <2>2. proc[p] \in ProcState
    BY Facts DEF ParFacts
  <2>3. r \in ProcState
    BY <2>2 DEF ProcState, PC
  <2>4. /\ r.pc = "pwait" /\ r.snap = proc[p].snap
        /\ r.execute = proc[p].execute /\ r.verdict = proc[p].verdict
    BY <2>2 DEF ProcState
  <2> HIDE DEF r
  <2>5. CoordKeeps(p) /\ proc'[p] = r /\ pool'[p] = pool[p]
    BY <1>3, <2>1, <2>3, <2>4, ProcEffect DEF CoordKeeps
  <2>6. QED
    BY <1>1, <2>4, <2>5
<1>4. QED
  BY <1>2, <1>3 DEF EndFill

\* The futures that are done become the batch.
LEMMA WaitEffect ==
    ASSUME ParTypeOK, NEW p \in Proc, Wait(p)
    PROVE  /\ CoordKeeps(p)
           /\ proc[p].pc = "pwait" /\ proc'[p].pc = "prelease"
           /\ proc'[p].snap = proc[p].snap
           /\ pool'[p].futures = pool[p].futures /\ pool'[p].rows = pool[p].rows
           /\ pool'[p].batch = Done(pool[p])
           /\ UNCHANGED <<goal, tasks, leases, clock, launches, ranOk, gatesPassed>>
<1>1. proc[p] \in ProcState /\ pool[p] \in PoolState
  BY Facts DEF ParFacts
<1> DEFINE finished == {t \in InFlight(p) : pool[p].futures[t] # "running"}
           r == [proc[p] EXCEPT !.pc = "prelease"]
           po == [pool[p] EXCEPT !.batch = finished]
<1>2. finished = Done(pool[p])
  BY DEF InFlight, Done
<1>3. proc' = [proc EXCEPT ![p] = r] /\ pool' = [pool EXCEPT ![p] = po]
  BY DEF Wait
<1>4. finished \in SUBSET Task
  BY DEF InFlight
<1> HIDE DEF finished
<1>5. r \in ProcState
  BY <1>1 DEF ProcState, PC
<1>6. po \in PoolState
  BY <1>1, <1>4 DEF PoolState
<1>7. /\ r.pc = "prelease" /\ r.snap = proc[p].snap
      /\ r.execute = proc[p].execute /\ r.verdict = proc[p].verdict
  BY <1>1 DEF ProcState
<1>8. po.futures = pool[p].futures /\ po.rows = pool[p].rows /\ po.batch = finished
  BY <1>1 DEF PoolState
<1> HIDE DEF r, po
<1>9. /\ proc[p].pc = "pwait"
      /\ UNCHANGED <<goal, tasks, leases, clock, launches, ranOk, gatesPassed>>
  BY DEF Wait, At, storeVars, history
<1>10. CoordKeeps(p) /\ proc'[p] = r /\ pool'[p] = po
  BY <1>3, <1>5, <1>6, <1>7, StepEffect DEF CoordKeeps
<1>11. QED
  BY <1>2, <1>7, <1>8, <1>9, <1>10

\* The lease of one future of the batch is deleted.
LEMMA ReleaseEffect ==
    ASSUME ParTypeOK, NEW p \in Proc, ReleaseLease(p)
    PROVE  \E t \in pool[p].batch :
           /\ CoordKeeps(p)
           /\ proc[p].pc = "prelease" /\ proc'[p].pc = "precord" /\ proc'[p].cur = t
           /\ proc'[p].snap = proc[p].snap
           /\ pool'[p].futures = pool[p].futures /\ pool'[p].rows = pool[p].rows
           /\ pool'[p].batch = pool[p].batch \ {t}
           /\ leases' = [leases EXCEPT ![t] = NoLease]
           /\ UNCHANGED <<goal, tasks, clock, launches, ranOk, gatesPassed>>
<1>1. PICK t \in pool[p].batch :
        /\ leases' = [leases EXCEPT ![t] = NoLease]
        /\ proc' = [proc EXCEPT ![p].pc = "precord", ![p].cur = t]
        /\ pool' = [pool EXCEPT ![p].batch = @ \ {t}]
  BY DEF ReleaseLease
<1>2. proc[p] \in ProcState /\ pool[p] \in PoolState
  BY Facts DEF ParFacts
<1>3. t \in Task
  BY <1>2 DEF PoolState
<1> DEFINE r == [proc[p] EXCEPT !.pc = "precord", !.cur = t]
           po == [pool[p] EXCEPT !.batch = pool[p].batch \ {t}]
<1>4. proc' = [proc EXCEPT ![p] = r] /\ pool' = [pool EXCEPT ![p] = po]
  BY <1>1
<1>5. r \in ProcState
  BY <1>2, <1>3 DEF ProcState, PC
<1>6. po \in PoolState
  BY <1>2 DEF PoolState
<1>7. /\ r.pc = "precord" /\ r.cur = t /\ r.snap = proc[p].snap
      /\ r.execute = proc[p].execute /\ r.verdict = proc[p].verdict
  BY <1>2 DEF ProcState
<1>8. /\ po.futures = pool[p].futures /\ po.rows = pool[p].rows
      /\ po.batch = pool[p].batch \ {t}
  BY <1>2 DEF PoolState
<1> HIDE DEF r, po
<1>9. /\ proc[p].pc = "prelease" /\ UNCHANGED <<goal, tasks, clock, launches, ranOk, gatesPassed>>
  BY DEF ReleaseLease, At, history
<1>10. CoordKeeps(p) /\ proc'[p] = r /\ pool'[p] = po
  BY <1>4, <1>5, <1>6, <1>7, StepEffect DEF CoordKeeps
<1>11. QED
  BY <1>1, <1>7, <1>8, <1>9, <1>10

\* The result of that future is saved, and the future forgotten.
LEMMA RecordEffect ==
    ASSUME ParTypeOK, NEW p \in Proc, RecordFuture(p), proc[p].cur \in Task
    PROVE  /\ CoordKeeps(p)
           /\ proc[p].pc = "precord" /\ proc'[p].pc \in {"pblockread", "pscan", "prelease"}
           /\ proc'[p].snap = proc[p].snap
           /\ FutureRow(p, proc[p].cur) \in TaskRow
           /\ tasks' = [tasks EXCEPT ![proc[p].cur] = FutureRow(p, proc[p].cur)]
           /\ pool'[p].futures = [pool[p].futures EXCEPT ![proc[p].cur] = "none"]
           /\ pool'[p].rows = pool[p].rows
           /\ pool'[p].batch = pool[p].batch
           /\ UNCHANGED <<goal, leases, clock, launches, ranOk, gatesPassed>>
<1>1. proc[p] \in ProcState /\ pool[p] \in PoolState
  BY Facts DEF ParFacts
<1>2. FutureRow(p, proc[p].cur) \in TaskRow
  <2>1. pool[p].rows[proc[p].cur].attempts \in Nat
    BY <1>1 DEF PoolState, TaskRow
  <2>2. QED
    BY <2>1 DEF FutureRow, Row, TaskRow, TaskStatus, TruthStatus
<1> DEFINE label == IF pool[p].futures[proc[p].cur] = "failure" THEN "pblockread" ELSE AfterFuture(p)
           futures == [pool[p].futures EXCEPT ![proc[p].cur] = "none"]
           r == [proc[p] EXCEPT !.pc = label, !.cur = NoTask]
           po == [pool[p] EXCEPT !.futures = futures]
<1>3. proc' = [proc EXCEPT ![p] = r] /\ pool' = [pool EXCEPT ![p] = po]
  BY DEF RecordFuture
<1>4. futures \in [Task -> FutureState]
  BY <1>1 DEF PoolState, FutureState
<1>5. label \in {"pblockread", "pscan", "prelease"}
  BY DEF AfterFuture
<1> HIDE DEF label, futures
<1>6. r \in ProcState
  BY <1>1, <1>5 DEF ProcState, PC
<1>7. po \in PoolState
  BY <1>1, <1>4 DEF PoolState
<1>8. /\ r.pc = label /\ r.snap = proc[p].snap
      /\ r.execute = proc[p].execute /\ r.verdict = proc[p].verdict
  BY <1>1 DEF ProcState
<1>9. po.futures = futures /\ po.rows = pool[p].rows /\ po.batch = pool[p].batch
  BY <1>1 DEF PoolState
<1> HIDE DEF r, po
<1>10. /\ proc[p].pc = "precord" /\ UNCHANGED <<goal, leases, clock, launches, ranOk, gatesPassed>>
       /\ tasks' = [tasks EXCEPT ![proc[p].cur] = FutureRow(p, proc[p].cur)]
  BY DEF RecordFuture, At, history
<1>11. CoordKeeps(p) /\ proc'[p] = r /\ pool'[p] = po
  BY <1>3, <1>6, <1>7, <1>8, StepEffect DEF CoordKeeps
<1>12. QED
  BY <1>2, <1>5, <1>8, <1>9, <1>10, <1>11 DEF futures

\* The propagated failure is saved.
LEMMA SavePropagatedEffect ==
    ASSUME ParTypeOK, NEW p \in Proc, ParSavePropagated(p)
    PROVE  /\ CoordKeeps(p)
           /\ proc[p].pc = "pblocksave" /\ proc'[p].pc \in {"pscan", "prelease"}
           /\ proc'[p].snap = proc[p].snap
           /\ SaveTasks(proc[p].todo, proc[p].snap)
           /\ pool'[p] = pool[p]
           /\ UNCHANGED <<goal, leases, clock, launches, ranOk, gatesPassed>>
<1>1. proc[p] \in ProcState
  BY Facts DEF ParFacts
<1> DEFINE label == AfterFuture(p)
           r == [proc[p] EXCEPT !.pc = label, !.todo = {}]
<1>2. proc' = [proc EXCEPT ![p] = r] /\ pool' = pool
  BY DEF ParSavePropagated
<1>3. label \in {"pscan", "prelease"}
  BY DEF AfterFuture
<1> HIDE DEF label
<1>4. r \in ProcState
  BY <1>1, <1>3 DEF ProcState, PC
<1>5. /\ r.pc = label /\ r.snap = proc[p].snap
      /\ r.execute = proc[p].execute /\ r.verdict = proc[p].verdict
  BY <1>1 DEF ProcState
<1> HIDE DEF r
<1>6. /\ proc[p].pc = "pblocksave" /\ SaveTasks(proc[p].todo, proc[p].snap)
      /\ UNCHANGED <<goal, leases, clock, launches, ranOk, gatesPassed>>
  BY DEF ParSavePropagated, At, history
<1>7. CoordKeeps(p) /\ proc'[p] = r /\ pool'[p] = pool[p]
  BY <1>2, <1>4, <1>5, ProcEffect DEF CoordKeeps
<1>8. QED
  BY <1>3, <1>5, <1>6, <1>7

\* A call of run_goal_parallel begins.
LEMMA CallEffect ==
    ASSUME ParTypeOK, NEW p \in Proc, CallParallel(p)
    PROVE  /\ proc' \in [Proc -> ProcState] /\ pool' \in [Proc -> PoolState]
           /\ OthersAsBefore(p)
           /\ proc[p].pc = "idle" /\ proc'[p].pc = "enter"
           /\ proc'[p].verdict = proc[p].verdict /\ proc'[p].snap = proc[p].snap
           /\ pool'[p] = pool[p]
           /\ UNCHANGED <<goal, tasks, leases, clock, launches, ranOk, gatesPassed>>
<1>1. PICK execute \in BOOLEAN, gates \in BOOLEAN, workers \in 1 .. LaneCap :
          Call(p, "enter", workers, execute, gates)
  BY DEF CallParallel
<1>2. workers \in Nat /\ proc[p] \in ProcState
  BY Facts, LaneAssumption DEF ParFacts
<1> DEFINE r == [proc[p] EXCEPT !.pc = "enter", !.workers = workers, !.execute = execute,
                                !.gates = gates]
<1>3. proc' = [proc EXCEPT ![p] = r] /\ pool' = pool
  BY <1>1 DEF Call, CallParallel
<1>4. r \in ProcState
  BY <1>2 DEF ProcState, PC
<1>5. r.pc = "enter" /\ r.verdict = proc[p].verdict /\ r.snap = proc[p].snap
  BY <1>2 DEF ProcState
<1> HIDE DEF r
<1>6. /\ proc[p].pc = "idle"
      /\ UNCHANGED <<goal, tasks, leases, clock, launches, ranOk, gatesPassed>>
  BY <1>1 DEF Call, At, storeVars, history
<1>7. QED
  BY <1>3, <1>4, <1>5, <1>6, ProcEffect

\* A worker ends: its future is done.
LEMMA WorkEffect ==
    ASSUME ParTypeOK, NEW p \in Proc, NEW t \in Task, Work(p, t)
    PROVE  \E outcome \in {"success", "failure", "simulated"} :
           /\ proc' = proc /\ pool' \in [Proc -> PoolState]
           /\ OthersAsBefore(p)
           /\ pool[p].futures[t] = "running"
           /\ pool'[p].futures = [pool[p].futures EXCEPT ![t] = outcome]
           /\ pool'[p].rows = pool[p].rows /\ pool'[p].batch = pool[p].batch
           /\ \/ /\ proc[p].execute
                 /\ launches' = [launches EXCEPT ![t] = @ + 1]
                 /\ gatesPassed' = IF gatesPassed = "never" THEN "never" ELSE "stale"
                 /\ ranOk' = IF outcome = "success" THEN ranOk \cup {t} ELSE ranOk
              \/ /\ outcome = "simulated"
                 /\ UNCHANGED <<launches, gatesPassed, ranOk>>
           /\ UNCHANGED <<goal, tasks, leases, clock>>
<1>1. PICK outcome \in {"success", "failure", "simulated"} :
        /\ pool' = [pool EXCEPT ![p].futures = [@ EXCEPT ![t] = outcome]]
        /\ \/ /\ proc[p].execute
              /\ launches' = [launches EXCEPT ![t] = @ + 1]
              /\ gatesPassed' = IF gatesPassed = "never" THEN "never" ELSE "stale"
              /\ ranOk' = IF outcome = "success" THEN ranOk \cup {t} ELSE ranOk
           \/ /\ outcome = "simulated"
              /\ UNCHANGED <<launches, gatesPassed, ranOk>>
  BY DEF Work
<1>2. /\ pool[p] \in PoolState /\ proc[p] \in ProcState
      /\ proc \in [Proc -> ProcState] /\ pool \in [Proc -> PoolState]
  BY Facts DEF ParFacts
<1> DEFINE futures == [pool[p].futures EXCEPT ![t] = outcome]
           po == [pool[p] EXCEPT !.futures = futures]
<1>3. pool' = [pool EXCEPT ![p] = po]
  BY <1>1
<1>4. futures \in [Task -> FutureState]
  BY <1>2 DEF PoolState, FutureState
<1> HIDE DEF futures
<1>5. po \in PoolState
  BY <1>2, <1>4 DEF PoolState
<1>6. po.futures = futures /\ po.rows = pool[p].rows /\ po.batch = pool[p].batch
  BY <1>2 DEF PoolState
<1> HIDE DEF po
<1>7. /\ proc' = proc /\ UNCHANGED <<goal, tasks, leases, clock>>
      /\ pool[p].futures[t] = "running"
  BY DEF Work, procVars, storeVars
<1>8. /\ pool' \in [Proc -> PoolState] /\ pool'[p] = po
      /\ OthersAsBefore(p)
  BY <1>2, <1>3, <1>5, <1>7 DEF OthersAsBefore
<1>9. QED
  BY <1>1, <1>6, <1>7, <1>8 DEF futures

(***************************************************************************)
(* Types, and pools that fit the labels                                    *)
(***************************************************************************)

\* At the other labels of the loop nothing is asked of a pool.
LEMMA FitsQuiet ==
    ASSUME NEW r, NEW po, r.pc \in {"pscan", "pblock", "pfill", "pwait", "pconclude"}
    PROVE  PoolFits(r, po)
BY DEF PoolFits, ParPC

\* A step of p keeps every pool fitting when it keeps its own.
LEMMA ShapeLocal ==
    ASSUME ParShape, NEW p \in Proc, OthersAsBefore(p), PoolFits(proc'[p], pool'[p])
    PROVE  \A q \in Proc : PoolFits(proc'[q], pool'[q])
BY DEF ParShape, OthersAsBefore

\* What the coordinator does not touch keeps its type.
LEMMA CoordType ==
    ASSUME ParTypeOK, goal' \in GoalRow, tasks' \in [Task -> TaskRow],
           leases' \in [Task -> Nat], clock' \in Nat, proc' \in [Proc -> ProcState],
           pool' \in [Proc -> PoolState], launches' \in [Task -> Nat], ranOk' \subseteq Task,
           gatesPassed' \in {"never", "stale", "fresh"}, runs' \in Nat,
           UNCHANGED <<refused, cancelledIdle>>
    PROVE  ParTypeOK'
BY DEF ParTypeOK, TypeOK, StoreTypeOK

\* A step that ends a parallel run, or a crash, leaves an idle pool.
LEMMA EndShape ==
    ASSUME ParShape, NEW p \in Proc, NEW status \in GoalStatus, NEW truth \in TruthStatus,
           \/ Leave(p) \/ Conclude(p, status, truth)
           \/ proc[p].pc = "pconclude" /\ proc' = [proc EXCEPT ![p].pc = "verify"],
           pool' = [pool EXCEPT ![p] = IdlePool]
    PROVE  /\ proc' \in [Proc -> ProcState] /\ pool' \in [Proc -> PoolState]
           /\ OthersAsBefore(p)
           /\ pool'[p] = IdlePool
           /\ proc'[p].pc \in {"idle", "finish", "verify"}
           /\ \A q \in Proc : PoolFits(proc'[q], pool'[q])
<1>1. /\ proc[p] \in ProcState /\ proc \in [Proc -> ProcState] /\ pool \in [Proc -> PoolState]
  BY DEF ParShape, ParTypeOK, TypeOK
<1>2. proc' \in [Proc -> ProcState]
  BY <1>1, LeaveType, ConcludeType, MoveType, Labels
<1>3. pool' \in [Proc -> PoolState] /\ pool'[p] = IdlePool
  BY <1>1, IdlePoolType
<1>4. proc'[p].pc \in {"idle", "finish", "verify"}
  <2>1. CASE Leave(p)
    BY <2>1, <1>1 DEF Leave, IdleProc
  <2>2. CASE Conclude(p, status, truth)
    <3> DEFINE r == [IdleProc EXCEPT !.pc = "finish", !.verdict = GoalIs(status, truth)]
    <3>1. r.pc = "finish" /\ proc' = [proc EXCEPT ![p] = r]
      BY <2>2 DEF Conclude, IdleProc
    <3> HIDE DEF r
    <3>2. QED
      BY <3>1, <1>1
  <2>3. CASE proc' = [proc EXCEPT ![p].pc = "verify"]
    <3>1. proc' = [proc EXCEPT ![p] = [proc[p] EXCEPT !.pc = "verify"]]
      BY <2>3
    <3>2. [proc[p] EXCEPT !.pc = "verify"].pc = "verify"
      BY <1>1 DEF ProcState
    <3>3. QED
      BY <3>1, <3>2, <1>1
  <2>4. QED
    BY <2>1, <2>2, <2>3
<1>5. OthersAsBefore(p)
  BY <1>1 DEF Leave, Conclude, OthersAsBefore
<1>6. PoolFits(proc'[p], pool'[p])
  BY <1>3, <1>4 DEF PoolFits
<1>7. QED
  BY <1>2, <1>3, <1>4, <1>5, <1>6, ShapeLocal

\* ParDecide is such a step.
LEMMA DecideEnds ==
    ASSUME NEW p \in Proc, ParDecide(p)
    PROVE  /\ \/ \E status \in GoalStatus, truth \in TruthStatus :
                    Conclude(p, status, truth) /\ truth # "VERIFIED_SUCCESS"
              \/ proc[p].pc = "pconclude" /\ proc' = [proc EXCEPT ![p].pc = "verify"]
           /\ proc[p].pc = "pconclude"
           /\ pool' = [pool EXCEPT ![p] = IdlePool]
           /\ UNCHANGED <<goal, tasks, leases, clock, launches, ranOk, gatesPassed>>
           /\ UNCHANGED <<runs, refused, cancelledIdle>>
<1>1. /\ "BLOCKED" \in GoalStatus /\ "FAILED" \in GoalStatus
      /\ "BLOCKED" \in TruthStatus /\ "EXECUTION_FAILED" \in TruthStatus
  BY DEF GoalStatus, TruthStatus
<1>2. proc[p].pc = "pconclude" /\ pool' = [pool EXCEPT ![p] = IdlePool]
      /\ UNCHANGED <<goal, tasks, leases, clock, launches, ranOk, gatesPassed>>
      /\ UNCHANGED <<runs, refused, cancelledIdle>>
  BY DEF ParDecide, At, storeVars, history
<1>3. \/ Conclude(p, "FAILED", "EXECUTION_FAILED") \/ Conclude(p, "BLOCKED", "BLOCKED")
      \/ proc' = [proc EXCEPT ![p].pc = "verify"]
  BY DEF ParDecide
<1>4. QED
  BY <1>1, <1>2, <1>3

\* A step of the sequential calls keeps every pool fitting.
LEMMA SequentialShape ==
    ASSUME ParShape, NEW p \in Proc, SequentialMove(p), pool' = pool
    PROVE  \A q \in Proc : PoolFits(proc'[q], pool'[q])
<1>1. pool[p] = IdlePool
  BY DEF ParShape, SequentialMove, PoolFits
<1>2. proc'[p].pc \notin ParPC \/ proc'[p].pc = "pscan"
  BY DEF SequentialMove
<1>3. PoolFits(proc'[p], pool'[p])
  BY <1>1, <1>2, FitsQuiet DEF PoolFits, ParPC
<1>4. OthersAsBefore(p)
  BY DEF SequentialMove, OthersAsBefore
<1>5. QED
  BY <1>3, <1>4, ShapeLocal

\* Every step keeps types and fitting pools.
LEMMA ShapeStep == ParShape /\ [ParNext]_parVars => ParShape'
<1> SUFFICES ASSUME ParShape, [ParNext]_parVars PROVE ParShape'
  OBVIOUS
<1>a. /\ ParTypeOK /\ TypeOK
      /\ goal \in GoalRow /\ tasks \in [Task -> TaskRow] /\ leases \in [Task -> Nat]
      /\ clock \in Nat /\ launches \in [Task -> Nat] /\ ranOk \subseteq Task
      /\ gatesPassed \in {"never", "stale", "fresh"} /\ runs \in Nat
      /\ proc \in [Proc -> ProcState] /\ pool \in [Proc -> PoolState]
  BY DEF ParShape, ParTypeOK, TypeOK, StoreTypeOK
<1>b. ASSUME NEW p \in Proc
      PROVE  PoolFits(proc[p], pool[p]) /\ proc[p] \in ProcState /\ pool[p] \in PoolState
  BY <1>b, <1>a DEF ParShape
<1>1. ASSUME Progress, pool' = pool PROVE ParShape'
  <2>1. TypeOK'
    BY <1>1, <1>a, TypeStep DEF Next
  <2>2. CASE \E p \in Proc : CallRun(p) \/ CallVerify(p) \/ CallResume(p) \/ Step(p)
    <3>1. PICK p \in Proc : SequentialMove(p)
      BY <2>2, <1>a, SequentialStep
    <3>2. QED
      BY <1>1, <1>a, <2>1, <3>1, SequentialShape DEF ParShape, ParTypeOK
  <2>3. CASE CancelGoal \/ RecordCost
    <3>1. proc' = proc
      BY <2>3 DEF CancelGoal, RecordCost, procVars
    <3>2. QED
      BY <1>1, <1>a, <2>1, <3>1 DEF ParShape, ParTypeOK
  <2>4. QED
    BY <1>1, <2>2, <2>3 DEF Progress
<1>2. ASSUME NEW p \in Proc, CallParallel(p) PROVE ParShape'
  <2>1. /\ proc' \in [Proc -> ProcState] /\ pool' \in [Proc -> PoolState]
        /\ OthersAsBefore(p) /\ proc[p].pc = "idle" /\ proc'[p].pc = "enter"
        /\ pool'[p] = pool[p]
        /\ UNCHANGED <<goal, tasks, leases, clock, launches, ranOk, gatesPassed>>
    BY <1>2, <1>a, CallEffect
  <2>2. runs' \in Nat /\ UNCHANGED <<refused, cancelledIdle>>
    BY <1>2, <1>a DEF CallParallel, Call, history
  <2>3. ParTypeOK'
    BY <1>a, <2>1, <2>2, CoordType
  <2>4. PoolFits(proc'[p], pool'[p])
    BY <1>b, <2>1 DEF PoolFits, ParPC
  <2>5. QED
    BY <2>1, <2>3, <2>4, ShapeLocal DEF ParShape
<1>3. ASSUME NEW p \in Proc, ParScan(p) PROVE ParShape'
  <2>1. /\ CoordKeeps(p) /\ proc'[p].pc = "pblock"
        /\ UNCHANGED <<goal, tasks, leases, clock, launches, ranOk, gatesPassed>>
    BY <1>3, <1>a, ReadEffect DEF ParScan, At
  <2>2. UNCHANGED <<runs, refused, cancelledIdle>>
    BY <1>3 DEF ParScan, history
  <2>3. ParTypeOK'
    BY <1>a, <2>1, <2>2, CoordType DEF CoordKeeps
  <2>4. QED
    BY <2>1, <2>3, FitsQuiet, ShapeLocal DEF ParShape, CoordKeeps
<1>4. ASSUME NEW p \in Proc, ParSaveBlocked(p) PROVE ParShape'
  <2> DEFINE ready == ReadyTasks(DependsOn, proc[p].snap, ~proc[p].execute) \ InFlight(p)
  <2>1. /\ CoordKeeps(p) /\ proc'[p].pc \in {"pconclude", "pfill"}
        /\ SaveTasks(proc[p].todo, proc[p].snap)
        /\ UNCHANGED <<goal, leases, clock, launches, ranOk, gatesPassed>>
    BY <1>4, <1>a, SaveBlockedEffect
  <2>2. UNCHANGED <<runs, refused, cancelledIdle>>
    BY <1>4 DEF ParSaveBlocked, history
  <2>3. tasks' \in [Task -> TaskRow]
    BY <1>a, <1>b, <2>1, SaveTasksType DEF ProcState
  <2>4. ParTypeOK'
    BY <1>a, <2>1, <2>2, <2>3, CoordType DEF CoordKeeps
  <2>5. QED
    BY <2>1, <2>4, FitsQuiet, ShapeLocal DEF ParShape, CoordKeeps
<1>5. ASSUME NEW p \in Proc, Queue(p) PROVE ParShape'
  <2>1. PICK t \in proc[p].todo :
           /\ CoordKeeps(p) /\ proc'[p].pc = "pfill"
           /\ \/ tasks' = tasks
              \/ tasks' = [tasks EXCEPT ![t] = [proc[p].snap[t] EXCEPT !.truth = "QUEUED"]]
           /\ UNCHANGED <<goal, leases, clock, launches, ranOk, gatesPassed>>
    BY <1>5, <1>a, QueueEffect
  <2>2. UNCHANGED <<runs, refused, cancelledIdle>>
    BY <1>5 DEF Queue, history
  <2>3. [proc[p].snap[t] EXCEPT !.truth = "QUEUED"] \in TaskRow
    <3>1. proc[p].snap[t] \in TaskRow
      BY <1>b DEF ProcState
    <3>2. QED
      BY <3>1 DEF TaskRow, TruthStatus
  <2>4. tasks' \in [Task -> TaskRow]
    BY <1>a, <2>1, <2>3
  <2>5. ParTypeOK'
    BY <1>a, <2>1, <2>2, <2>4, CoordType DEF CoordKeeps
  <2>6. QED
    BY <2>1, <2>5, FitsQuiet, ShapeLocal DEF ParShape, CoordKeeps
<1>6. ASSUME NEW p \in Proc, AcquireLease(p) PROVE ParShape'
  <2>1. PICK t \in proc[p].todo :
           /\ CoordKeeps(p) /\ proc'[p].pc = "pstart" /\ proc'[p].cur = t
           /\ leases' = [leases EXCEPT ![t] = clock + LeaseTime]
           /\ UNCHANGED <<goal, tasks, clock, launches, ranOk, gatesPassed>>
    BY <1>6, <1>a, AcquireEffect
  <2>2. UNCHANGED <<runs, refused, cancelledIdle>>
    BY <1>6 DEF AcquireLease, history
  <2>3. leases' \in [Task -> Nat] /\ t \in Task
    BY <1>a, <1>b, <2>1, LaneAssumption DEF ProcState
  <2>4. ParTypeOK'
    BY <1>a, <2>1, <2>2, <2>3, CoordType DEF CoordKeeps
  <2>5. PoolFits(proc'[p], pool'[p])
    BY <2>1, <2>3 DEF PoolFits, ParPC
  <2>6. QED
    BY <2>1, <2>4, <2>5, ShapeLocal DEF ParShape, CoordKeeps
<1>7. ASSUME NEW p \in Proc, Submit(p) PROVE ParShape'
  <2>1. proc[p].cur \in Task
    BY <1>7, <1>b DEF Submit, At, PoolFits
  <2>2. PICK row :
          /\ CoordKeeps(p)
          /\ proc'[p].pc = "pfill"
          /\ row \in TaskRow
          /\ tasks' = [tasks EXCEPT ![proc[p].cur] = row]
          /\ UNCHANGED <<goal, leases, clock, launches, ranOk, gatesPassed>>
    <3> DEFINE row == Row("RUNNING", "RUNNING", proc[p].snap[proc[p].cur].attempts + 1)
    <3>1. /\ CoordKeeps(p)
          /\ proc[p].pc = "pstart" /\ proc'[p].pc = "pfill"
          /\ proc'[p].todo = proc[p].todo
          /\ proc'[p].snap = proc[p].snap
          /\ row \in TaskRow
          /\ tasks' = [tasks EXCEPT ![proc[p].cur] = row]
          /\ pool'[p].futures = [pool[p].futures EXCEPT ![proc[p].cur] = "running"]
          /\ pool'[p].rows = [pool[p].rows EXCEPT ![proc[p].cur] = row]
          /\ UNCHANGED <<goal, leases, clock, launches, ranOk, gatesPassed>>
      BY <1>7, <1>a, <2>1, SubmitEffect
    <3> HIDE DEF row
    <3>2. QED
      BY <3>1
  <2>3. UNCHANGED <<runs, refused, cancelledIdle>>
    BY <1>7 DEF Submit, history
  <2>4. tasks' \in [Task -> TaskRow]
    BY <1>a, <2>2
  <2>5. ParTypeOK'
    BY <1>a, <2>2, <2>3, <2>4, CoordType DEF CoordKeeps
  <2>6. QED
    BY <2>2, <2>5, FitsQuiet, ShapeLocal DEF ParShape, CoordKeeps
<1>8. ASSUME NEW p \in Proc, EndFill(p) PROVE ParShape'
  <2>1. /\ UNCHANGED <<goal, tasks, leases, clock, launches, ranOk, gatesPassed>>
        /\ UNCHANGED <<runs, refused, cancelledIdle>>
    BY <1>8 DEF EndFill, storeVars, history
  <2>2. CASE Conclude(p, "BLOCKED", "QUEUED") /\ pool' = [pool EXCEPT ![p] = IdlePool]
    <3>1. "BLOCKED" \in GoalStatus /\ "QUEUED" \in TruthStatus
      BY DEF GoalStatus, TruthStatus
    <3>2. /\ proc' \in [Proc -> ProcState] /\ pool' \in [Proc -> PoolState]
          /\ \A q \in Proc : PoolFits(proc'[q], pool'[q])
      BY <2>2, <3>1, EndShape
    <3>3. QED
      BY <1>a, <2>1, <3>2, CoordType DEF ParShape
  <2>3. CASE CoordKeeps(p) /\ proc'[p].pc = "pwait"
    BY <1>a, <2>1, <2>3, CoordType, FitsQuiet, ShapeLocal DEF ParShape, CoordKeeps
  <2>4. QED
    BY <1>8, <1>a, <2>2, <2>3, EndFillEffect
<1>9. ASSUME NEW p \in Proc, Wait(p) PROVE ParShape'
  <2>1. /\ CoordKeeps(p) /\ proc'[p].pc = "prelease"
        /\ pool'[p].futures = pool[p].futures /\ pool'[p].batch = Done(pool[p])
        /\ UNCHANGED <<goal, tasks, leases, clock, launches, ranOk, gatesPassed>>
    BY <1>9, <1>a, WaitEffect
  <2>2. UNCHANGED <<runs, refused, cancelledIdle>>
    BY <1>9 DEF Wait, history
  <2>3. ParTypeOK'
    BY <1>a, <2>1, <2>2, CoordType DEF CoordKeeps
  <2>4. PoolFits(proc'[p], pool'[p])
    BY <2>1 DEF PoolFits, ParPC, Done
  <2>5. QED
    BY <2>1, <2>3, <2>4, ShapeLocal DEF ParShape, CoordKeeps
<1>10. ASSUME NEW p \in Proc, ReleaseLease(p) PROVE ParShape'
  <2>1. PICK t \in pool[p].batch :
           /\ CoordKeeps(p)
           /\ proc[p].pc = "prelease" /\ proc'[p].pc = "precord" /\ proc'[p].cur = t
           /\ pool'[p].futures = pool[p].futures /\ pool'[p].batch = pool[p].batch \ {t}
           /\ leases' = [leases EXCEPT ![t] = NoLease]
           /\ UNCHANGED <<goal, tasks, clock, launches, ranOk, gatesPassed>>
    BY <1>10, <1>a, ReleaseEffect
  <2>2. UNCHANGED <<runs, refused, cancelledIdle>>
    BY <1>10 DEF ReleaseLease, history
  <2>3. leases' \in [Task -> Nat]
    BY <1>a, <2>1 DEF NoLease
  <2>4. ParTypeOK'
    BY <1>a, <2>1, <2>2, <2>3, CoordType DEF CoordKeeps
  <2>5. PoolFits(proc'[p], pool'[p])
    BY <1>b, <2>1 DEF PoolFits, ParPC, Done
  <2>6. QED
    BY <2>1, <2>4, <2>5, ShapeLocal DEF ParShape, CoordKeeps
<1>11. ASSUME NEW p \in Proc, RecordFuture(p) PROVE ParShape'
  <2>1. /\ proc[p].cur \in Task /\ proc[p].cur \notin pool[p].batch
        /\ pool[p].futures[proc[p].cur] # "none"
    BY <1>11, <1>b DEF RecordFuture, At, PoolFits, Done
  <2>2. /\ CoordKeeps(p) /\ proc'[p].pc \in {"pblockread", "pscan", "prelease"}
        /\ FutureRow(p, proc[p].cur) \in TaskRow
        /\ tasks' = [tasks EXCEPT ![proc[p].cur] = FutureRow(p, proc[p].cur)]
        /\ pool'[p].futures = [pool[p].futures EXCEPT ![proc[p].cur] = "none"]
        /\ pool'[p].batch = pool[p].batch
        /\ UNCHANGED <<goal, leases, clock, launches, ranOk, gatesPassed>>
    BY <1>11, <1>a, <2>1, RecordEffect
  <2>3. UNCHANGED <<runs, refused, cancelledIdle>>
    BY <1>11 DEF RecordFuture, history
  <2>4. tasks' \in [Task -> TaskRow]
    BY <1>a, <2>2
  <2>5. ParTypeOK'
    BY <1>a, <2>2, <2>3, <2>4, CoordType DEF CoordKeeps
  <2>6. pool[p].batch \subseteq Done(pool[p])
    BY <1>11, <1>b DEF RecordFuture, At, PoolFits
  <2>7. pool'[p].batch \subseteq Done(pool'[p])
    BY <2>1, <2>2, <2>6, <1>b DEF Done, PoolState
  <2>8. PoolFits(proc'[p], pool'[p])
    BY <2>2, <2>7 DEF PoolFits, ParPC
  <2>9. QED
    BY <2>2, <2>5, <2>8, ShapeLocal DEF ParShape, CoordKeeps
<1>12. ASSUME NEW p \in Proc, ParReadForBlocking(p) PROVE ParShape'
  <2>1. /\ CoordKeeps(p) /\ proc[p].pc = "pblockread" /\ proc'[p].pc = "pblocksave"
        /\ pool'[p] = pool[p]
        /\ UNCHANGED <<goal, tasks, leases, clock, launches, ranOk, gatesPassed>>
    BY <1>12, <1>a, ReadEffect DEF ParReadForBlocking, At
  <2>2. UNCHANGED <<runs, refused, cancelledIdle>>
    BY <1>12 DEF ParReadForBlocking, history
  <2>3. ParTypeOK'
    BY <1>a, <2>1, <2>2, CoordType DEF CoordKeeps
  <2>4. PoolFits(proc'[p], pool'[p])
    BY <1>b, <2>1 DEF PoolFits, ParPC
  <2>5. QED
    BY <2>1, <2>3, <2>4, ShapeLocal DEF ParShape, CoordKeeps
<1>13. ASSUME NEW p \in Proc, ParSavePropagated(p) PROVE ParShape'
  <2>1. /\ CoordKeeps(p)
        /\ proc[p].pc = "pblocksave" /\ proc'[p].pc \in {"pscan", "prelease"}
        /\ SaveTasks(proc[p].todo, proc[p].snap)
        /\ pool'[p] = pool[p]
        /\ UNCHANGED <<goal, leases, clock, launches, ranOk, gatesPassed>>
    BY <1>13, <1>a, SavePropagatedEffect
  <2>2. UNCHANGED <<runs, refused, cancelledIdle>>
    BY <1>13 DEF ParSavePropagated, history
  <2>3. tasks' \in [Task -> TaskRow]
    BY <1>a, <1>b, <2>1, SaveTasksType DEF ProcState
  <2>4. ParTypeOK'
    BY <1>a, <2>1, <2>2, <2>3, CoordType DEF CoordKeeps
  <2>5. PoolFits(proc'[p], pool'[p])
    BY <1>b, <2>1 DEF PoolFits, ParPC
  <2>6. QED
    BY <2>1, <2>4, <2>5, ShapeLocal DEF ParShape, CoordKeeps
<1>14. ASSUME NEW p \in Proc, ParDecide(p) PROVE ParShape'
  <2>1. /\ proc' \in [Proc -> ProcState] /\ pool' \in [Proc -> PoolState]
        /\ \A q \in Proc : PoolFits(proc'[q], pool'[q])
    <3>1. PICK status \in GoalStatus, truth \in TruthStatus :
            \/ Conclude(p, status, truth)
            \/ proc[p].pc = "pconclude" /\ proc' = [proc EXCEPT ![p].pc = "verify"]
      BY <1>14, DecideEnds DEF GoalStatus, TruthStatus
    <3>2. QED
      BY <1>14, <3>1, DecideEnds, EndShape
  <2>2. QED
    BY <1>14, <1>a, <2>1, DecideEnds, CoordType DEF ParShape
<1>15. ASSUME NEW p \in Proc, ParCrash(p) PROVE ParShape'
  <2>1. Leave(p) /\ pool' = [pool EXCEPT ![p] = IdlePool]
        /\ UNCHANGED <<goal, tasks, leases, clock, launches, ranOk, gatesPassed>>
        /\ UNCHANGED <<runs, refused, cancelledIdle>>
    BY <1>15 DEF ParCrash, Crash, storeVars, history
  <2>2. /\ proc' \in [Proc -> ProcState] /\ pool' \in [Proc -> PoolState]
        /\ \A q \in Proc : PoolFits(proc'[q], pool'[q])
    BY <2>1, EndShape DEF GoalStatus, TruthStatus
  <2>3. QED
    BY <1>a, <2>1, <2>2, CoordType DEF ParShape
<1>16. ASSUME NEW p \in Proc, NEW t \in Task, Work(p, t) PROVE ParShape'
  <2>1. PICK outcome \in {"success", "failure", "simulated"} :
           /\ proc' = proc /\ pool' \in [Proc -> PoolState]
           /\ OthersAsBefore(p)
           /\ pool[p].futures[t] = "running"
           /\ pool'[p].futures = [pool[p].futures EXCEPT ![t] = outcome]
           /\ pool'[p].rows = pool[p].rows /\ pool'[p].batch = pool[p].batch
           /\ \/ /\ proc[p].execute
                 /\ launches' = [launches EXCEPT ![t] = @ + 1]
                 /\ gatesPassed' = IF gatesPassed = "never" THEN "never" ELSE "stale"
                 /\ ranOk' = IF outcome = "success" THEN ranOk \cup {t} ELSE ranOk
              \/ /\ outcome = "simulated"
                 /\ UNCHANGED <<launches, gatesPassed, ranOk>>
           /\ UNCHANGED <<goal, tasks, leases, clock>>
    BY <1>16, <1>a, WorkEffect, Zenon
  <2>2. UNCHANGED <<runs, refused, cancelledIdle>>
    BY <1>16 DEF Work, procVars
  <2>3. /\ launches' \in [Task -> Nat] /\ ranOk' \subseteq Task
        /\ gatesPassed' \in {"never", "stale", "fresh"}
    BY <1>a, <2>1
  <2>4. ParTypeOK'
    BY <1>a, <2>1, <2>2, <2>3, CoordType
  <2>5. proc[p].pc \in ParPC
    BY <1>b, <2>1 DEF PoolFits, IdlePool
  <2>6. Done(pool[p]) \subseteq Done(pool'[p])
    BY <1>b, <2>1 DEF Done, PoolState
  <2>7. PoolFits(proc'[p], pool'[p])
    BY <1>b, <2>1, <2>5, <2>6 DEF PoolFits
  <2>8. QED
    BY <2>1, <2>4, <2>7, ShapeLocal DEF ParShape
<1>17. ASSUME Tick PROVE ParShape'
  <2>1. /\ clock' = clock + 1 /\ UNCHANGED <<proc, pool>>
        /\ UNCHANGED <<goal, tasks, leases, launches, ranOk, gatesPassed>>
        /\ UNCHANGED <<runs, refused, cancelledIdle>>
    BY <1>17 DEF Tick, procVars, history
  <2>2. QED
    BY <1>a, <1>b, <2>1, CoordType DEF ParShape
<1>18. CASE UNCHANGED parVars
  BY <1>18 DEF parVars, ParShape, ParTypeOK, TypeOK, StoreTypeOK
<1>19. QED
  BY <1>1, <1>2, <1>3, <1>4, <1>5, <1>6, <1>7, <1>8, <1>9, <1>10, <1>11, <1>12, <1>13, <1>14,
     <1>15, <1>16, <1>17, <1>18
     DEF ParNext, ParStep

\* Types, and the pool of a process that has none.
LEMMA ShapeInit == ParInit => ParShape
<1> SUFFICES ASSUME ParInit PROVE ParShape
  OBVIOUS
<1>1. TypeOK /\ pool = [p \in Proc |-> IdlePool]
  BY TypeInit DEF ParInit
<1>2. ParTypeOK
  BY <1>1, IdlePoolType DEF ParTypeOK
<1>3. \A p \in Proc : proc[p].pc = "idle"
  BY DEF ParInit, Init, IdleProc
<1>4. QED
  BY <1>1, <1>2, <1>3 DEF ParShape, PoolFits, ParPC

\* With pools of threads too every variable keeps its type, and a pool holds
\* futures only while its process is inside run_goal_parallel.
THEOREM ParShapeCorrect == ParSpec => []ParShape
BY ShapeInit, ShapeStep, PTL DEF ParSpec

\* Store, memories and pools keep their types while any number of processes run
\* the goal, sequentially or in parallel, and crash.
THEOREM ParTypeCorrect == ParSpec => []ParTypeOK
<1>1. ParShape => ParTypeOK
  BY DEF ParShape
<1>2. QED
  BY <1>1, ParShapeCorrect, PTL

(***************************************************************************)
(* The lane                                                                *)
(***************************************************************************)

\* No sequential step takes a lease.
LEMMA SequentialLeases ==
    ASSUME TypeOK, Progress
    PROVE  clock' = clock /\ \A t \in Task : leases'[t] \in {leases[t], NoLease}
<1>1. ASSUME NEW p \in Proc, SaveReconciled(p)
      PROVE  clock' = clock /\ \A t \in Task : leases'[t] \in {leases[t], NoLease}
  BY <1>1 DEF SaveReconciled
<1>2. ASSUME NEW p \in Proc,
             \/ CallRun(p) \/ CallVerify(p) \/ CallResume(p) \/ Enter(p) \/ Announce(p)
             \/ Scan(p) \/ StartTask(p) \/ RefuseTask(p) \/ Direct(p) \/ Execute(p)
             \/ Record(p) \/ ReadForBlocking(p) \/ SaveBlocked(p) \/ EndPass(p) \/ Decide(p)
             \/ Finish(p) \/ ReadForVerify(p) \/ MarkVerifying(p) \/ RunGates(p) \/ Judge(p)
      PROVE  UNCHANGED <<leases, clock>>
  BY <1>2
     DEF CallRun, CallVerify, Call, CallResume, Enter, Announce, Scan, StartTask, RefuseTask,
         Direct, Execute, Record, ReadForBlocking, SaveBlocked, EndPass, Decide, Finish,
         ReadForVerify, MarkVerifying, RunGates, Judge, storeVars
<1>3. CancelGoal \/ RecordCost => UNCHANGED <<leases, clock>>
  BY DEF CancelGoal, RecordCost, storeVars
<1>4. QED
  BY <1>1, <1>2, <1>3 DEF Progress, Step

\* When no lease is taken the active ones are some of those there were.
LEMMA FewerLeases ==
    ASSUME ParTypeOK, LaneInv, clock' \in Nat, clock <= clock',
           \A t \in Task : leases'[t] \in {leases[t], NoLease}
    PROVE  LaneInv'
<1> DEFINE before == ActiveLeases
           after == {t \in Task : leases'[t] > clock'}
<1>1. after \subseteq before
  BY DEF ParTypeOK, TypeOK, StoreTypeOK, ActiveLeases, NoLease
<1>2. IsFiniteSet(before) /\ Cardinality(before) <= LaneCap
  BY DEF LaneInv, LaneWithinCap
<1> HIDE DEF before, after
<1>3. /\ IsFiniteSet(after) /\ Cardinality(after) <= Cardinality(before)
      /\ Cardinality(after) \in Nat /\ Cardinality(before) \in Nat
  BY <1>1, <1>2, FS_Subset, FS_CardinalityType
<1>4. ActiveLeases' = after
  BY DEF ActiveLeases, after
<1>5. Cardinality(after) <= LaneCap
  BY <1>2, <1>3, LaneAssumption
<1>6. QED
  BY <1>3, <1>4, <1>5 DEF LaneInv, LaneWithinCap

\* A granted lease was held already, or the lane had room for it.
LEMMA AcquireLane ==
    ASSUME ParTypeOK, LaneInv, NEW t \in Task, ~LaneFull(t),
           leases' = [leases EXCEPT ![t] = clock + LeaseTime], clock' = clock
    PROVE  LaneInv'
<1> DEFINE before == ActiveLeases
           after == {u \in Task : leases'[u] > clock'}
<1>1. after \subseteq before \cup {t}
  BY DEF ParTypeOK, TypeOK, StoreTypeOK, ActiveLeases
<1>2. /\ IsFiniteSet(before) /\ Cardinality(before) <= LaneCap
      /\ t \in before \/ ~(Cardinality(before) >= LaneCap)
  BY DEF LaneInv, LaneWithinCap, LaneFull
<1>3. ActiveLeases' = after
  BY DEF ActiveLeases
<1> HIDE DEF before, after
<1>4. /\ IsFiniteSet(before \cup {t}) /\ Cardinality(before) \in Nat
      /\ Cardinality(before \cup {t}) =
            IF t \in before THEN Cardinality(before) ELSE Cardinality(before) + 1
  BY <1>2, FS_AddElement, FS_CardinalityType
<1>5. Cardinality(before \cup {t}) <= LaneCap
  BY <1>2, <1>4, LaneAssumption
<1>6. /\ IsFiniteSet(after) /\ Cardinality(after) <= Cardinality(before \cup {t})
      /\ Cardinality(after) \in Nat /\ Cardinality(before \cup {t}) \in Nat
  BY <1>1, <1>4, FS_Subset, FS_CardinalityType
<1>7. Cardinality(after) <= LaneCap
  BY <1>5, <1>6, LaneAssumption
<1>8. QED
  BY <1>3, <1>6, <1>7 DEF LaneInv, LaneWithinCap

\* Every step keeps the lane within its cap.
LEMMA LaneStep == ParShape /\ LaneInv /\ [ParNext]_parVars => LaneInv'
<1> SUFFICES ASSUME ParShape, LaneInv, [ParNext]_parVars PROVE LaneInv'
  OBVIOUS
<1>a. ParTypeOK /\ TypeOK /\ clock \in Nat /\ leases \in [Task -> Nat]
  BY DEF ParShape, ParTypeOK, TypeOK, StoreTypeOK
<1>b. ASSUME UNCHANGED <<leases, clock>> PROVE LaneInv'
  BY <1>b DEF LaneInv, LaneWithinCap, ActiveLeases
<1>1. ASSUME Progress PROVE LaneInv'
  BY <1>1, <1>a, SequentialLeases, FewerLeases
<1>2. ASSUME NEW p \in Proc, AcquireLease(p) PROVE LaneInv'
  <2>1. PICK t \in proc[p].todo :
          /\ ~LaneFull(t)
          /\ leases' = [leases EXCEPT ![t] = clock + LeaseTime]
    BY <1>2 DEF AcquireLease
  <2>2. clock' = clock
    BY <1>2 DEF AcquireLease
  <2>3. t \in Task
    BY <1>a DEF TypeOK, ProcState
  <2>4. QED
    BY <1>a, <2>1, <2>2, <2>3, AcquireLane
<1>3. ASSUME NEW p \in Proc, ReleaseLease(p) PROVE LaneInv'
  <2>1. PICK t \in pool[p].batch : leases' = [leases EXCEPT ![t] = NoLease]
    BY <1>3 DEF ReleaseLease
  <2>2. clock' = clock
    BY <1>3 DEF ReleaseLease
  <2>3. \A u \in Task : leases'[u] \in {leases[u], NoLease}
    BY <1>a, <2>1
  <2>4. QED
    BY <1>a, <2>2, <2>3, FewerLeases
<1>4. ASSUME NEW p \in Proc,
             \/ CallParallel(p) \/ ParCrash(p) \/ ParScan(p) \/ ParSaveBlocked(p) \/ Queue(p)
             \/ Submit(p) \/ EndFill(p) \/ Wait(p) \/ RecordFuture(p) \/ ParReadForBlocking(p)
             \/ ParSavePropagated(p) \/ ParDecide(p)
      PROVE  UNCHANGED <<leases, clock>>
  BY <1>4
     DEF CallParallel, Call, ParCrash, Crash, ParScan, ParSaveBlocked, Queue, Submit, EndFill,
         Wait, RecordFuture, ParReadForBlocking, ParSavePropagated, ParDecide, storeVars
<1>5. ASSUME NEW p \in Proc, NEW t \in Task, Work(p, t) PROVE UNCHANGED <<leases, clock>>
  BY <1>5 DEF Work, storeVars
<1>6. ASSUME Tick PROVE LaneInv'
  BY <1>6, <1>a, FewerLeases DEF Tick
<1>7. CASE UNCHANGED parVars
  BY <1>7, <1>b DEF parVars
<1>8. QED
  BY <1>b, <1>1, <1>2, <1>3, <1>4, <1>5, <1>6, <1>7 DEF ParNext, ParStep

\* No lease is active when the goal is created.
LEMMA LaneInit == ParInit => LaneInv
<1> SUFFICES ASSUME ParInit PROVE LaneInv
  OBVIOUS
<1>1. ActiveLeases = {}
  BY DEF ParInit, Init, StoreInit, ActiveLeases, NoLease
<1>2. QED
  BY <1>1, FS_EmptySet, LaneAssumption DEF LaneInv, LaneWithinCap

\* Whatever coordinators crash and are started again, the unexpired leases of the
\* lane never outnumber its cap, dead predecessors' included.  A grant is one
\* step here, which it is under the lock of one store object (see WorkerLeases);
\* coordinators in several processes do not have that lock in common.
THEOREM LaneWithinCapHolds == ParSpec => []LaneWithinCap
<1>1. LaneInv => LaneWithinCap
  BY DEF LaneInv
<1>2. QED
  BY <1>1, LaneInit, ParShapeCorrect, LaneStep, PTL DEF ParSpec

(***************************************************************************)
(* Evidence                                                                *)
(***************************************************************************)

\* Work is only ever added to what is done.
LEMMA SequentialEvidence == ASSUME TypeOK, Progress PROVE ranOk \subseteq ranOk'
<1>1. ASSUME NEW p \in Proc, Execute(p) PROVE ranOk \subseteq ranOk'
  BY <1>1 DEF Execute
<1>2. ASSUME NEW p \in Proc,
             \/ CallRun(p) \/ CallVerify(p) \/ CallResume(p) \/ SaveReconciled(p) \/ Enter(p)
             \/ Announce(p) \/ Scan(p) \/ StartTask(p) \/ RefuseTask(p) \/ Direct(p)
             \/ Record(p) \/ ReadForBlocking(p) \/ SaveBlocked(p) \/ EndPass(p) \/ Decide(p)
             \/ Finish(p) \/ ReadForVerify(p) \/ MarkVerifying(p) \/ RunGates(p) \/ Judge(p)
      PROVE  ranOk' = ranOk
  BY <1>2
     DEF CallRun, CallVerify, Call, CallResume, SaveReconciled, Enter, Announce, Scan, StartTask,
         RefuseTask, Direct, Record, ReadForBlocking, SaveBlocked, EndPass, Decide, Finish,
         ReadForVerify, MarkVerifying, RunGates, Judge, history
<1>3. CancelGoal \/ RecordCost => ranOk' = ranOk
  BY DEF CancelGoal, RecordCost, history
<1>4. QED
  BY <1>1, <1>2, <1>3 DEF Progress, Step

\* The memory of a process in the parallel loop claims what its rows claim.
LEMMA ParMemoryOK ==
    ASSUME NEW r, NEW done, NEW passed, r.pc \in ParPC,
           RowsOK(r.snap, done), GoalRowOK(r.verdict, done, passed)
    PROVE  MemoryOK(r, done, passed)
BY DEF ParPC, MemoryOK

\* A pool without futures has nothing to be backed.
LEMMA IdleBacked ==
    ASSUME NEW r, NEW done, r.pc \notin {"pfill", "pstart"}
    PROVE  WorkBacked(r, IdlePool, done)
BY DEF WorkBacked, IdlePool

\* A step of p that starts no command keeps the evidence when what it saves
\* and remembers is backed.
LEMMA ParLocalStep ==
    ASSUME ParShape, ParEvidenceInv, NEW p \in Proc, CoordKeeps(p), proc'[p].pc \in ParPC,
           UNCHANGED <<goal, launches, ranOk, gatesPassed>>,
           RowsOK(proc'[p].snap, ranOk), RowsOK(tasks', ranOk),
           WorkBacked(proc'[p], pool'[p], ranOk)
    PROVE  ParEvidenceInv'
<1>1. TypeOK /\ EvidenceInv /\ proc \in [Proc -> ProcState]
  BY DEF ParShape, ParTypeOK, TypeOK, ParEvidenceInv
<1>2. GoalRowOK(proc'[p].verdict, ranOk, gatesPassed) /\ GoalRowOK(goal', ranOk, gatesPassed)
  BY <1>1 DEF EvidenceInv, MemoryOK, CoordKeeps
<1>3. MemoryOK(proc'[p], ranOk, gatesPassed)
  BY <1>2, ParMemoryOK
<1>4. PICK r : r = proc'[p]
  OBVIOUS
<1>5. proc' = [proc EXCEPT ![p] = r]
  BY <1>1, <1>4 DEF CoordKeeps, OthersAsBefore
<1>6. EvidenceInv'
  BY <1>1, <1>2, <1>3, <1>4, <1>5, LocalStep
<1>7. ASSUME NEW q \in Proc PROVE WorkBacked(proc'[q], pool'[q], ranOk)
  BY <1>7 DEF CoordKeeps, OthersAsBefore, ParEvidenceInv
<1>8. QED
  BY <1>6, <1>7 DEF ParEvidenceInv

\* A step after which p is outside the loop with an idle pool keeps it.
LEMMA ParEndStep ==
    ASSUME ParShape, ParEvidenceInv, NEW p \in Proc, EvidenceInv', OthersAsBefore(p),
           pool'[p] = IdlePool, proc'[p].pc \notin {"pfill", "pstart"}, ranOk \subseteq ranOk'
    PROVE  ParEvidenceInv'
<1>1. ASSUME NEW q \in Proc PROVE WorkBacked(proc'[q], pool'[q], ranOk')
  <2>1. CASE q = p
    BY <2>1, IdleBacked
  <2>2. CASE q # p
    BY <2>2 DEF OthersAsBefore, ParEvidenceInv, WorkBacked
  <2>3. QED
    BY <2>1, <2>2
<1>2. QED
  BY <1>1 DEF ParEvidenceInv

\* A command of the pool is started on dependencies that are done.
LEMMA WorkEvidence ==
    ASSUME ParShape, ParEvidenceInv, NEW p \in Proc, NEW t \in Task, Work(p, t)
    PROVE  ParEvidenceInv'
<1>1. PICK outcome \in {"success", "failure", "simulated"} :
           /\ proc' = proc /\ pool' \in [Proc -> PoolState]
           /\ OthersAsBefore(p)
           /\ pool[p].futures[t] = "running"
           /\ pool'[p].futures = [pool[p].futures EXCEPT ![t] = outcome]
           /\ pool'[p].rows = pool[p].rows /\ pool'[p].batch = pool[p].batch
           /\ \/ /\ proc[p].execute
                 /\ launches' = [launches EXCEPT ![t] = @ + 1]
                 /\ gatesPassed' = IF gatesPassed = "never" THEN "never" ELSE "stale"
                 /\ ranOk' = IF outcome = "success" THEN ranOk \cup {t} ELSE ranOk
              \/ /\ outcome = "simulated"
                 /\ UNCHANGED <<launches, gatesPassed, ranOk>>
           /\ UNCHANGED <<goal, tasks, leases, clock>>
  BY WorkEffect, Zenon DEF ParShape
<1>2. /\ ranOk \subseteq ranOk' /\ (outcome = "success" => t \in ranOk')
      /\ gatesPassed # "never" => gatesPassed' # "never"
  BY <1>1
<1>3. /\ WorkBacked(proc[p], pool[p], ranOk) /\ EvidenceInv
      /\ pool[p] \in PoolState /\ launches \in [Task -> Nat]
  BY DEF ParEvidenceInv, ParShape, ParTypeOK, TypeOK
<1>4. proc[p].execute => DependsOn[t] \subseteq ranOk
  BY <1>1, <1>3 DEF WorkBacked
<1>5. RowsOK(tasks', ranOk') /\ GoalRowOK(goal', ranOk', gatesPassed')
  BY <1>1, <1>2, <1>3, RowsMonotone, GoalRowMonotone DEF EvidenceInv
<1>6. ASSUME NEW q \in Proc PROVE MemoryOK(proc'[q], ranOk', gatesPassed')
  BY <1>1, <1>2, <1>3, MemoryMonotone DEF EvidenceInv
<1>7. RealWorkOnRealWork'
  <2> SUFFICES ASSUME NEW u \in Task, launches'[u] > 0 PROVE DependsOn[u] \subseteq ranOk'
    BY DEF RealWorkOnRealWork
  <2>1. CASE launches'[u] = launches[u]
    BY <2>1, <1>2, <1>3 DEF EvidenceInv, RealWorkOnRealWork
  <2>2. CASE launches'[u] # launches[u]
    <3>1. u = t /\ proc[p].execute
      BY <2>2, <1>1, <1>3
    <3>2. QED
      BY <3>1, <1>2, <1>4
  <2>3. QED
    BY <2>1, <2>2
<1>8. ASSUME NEW q \in Proc PROVE WorkBacked(proc'[q], pool'[q], ranOk')
  <2>1. CASE q = p
    <3>1. \A u \in Task : pool'[p].futures[u] = IF u = t THEN outcome ELSE pool[p].futures[u]
      BY <1>1, <1>3 DEF PoolState
    <3>2. QED
      BY <2>1, <3>1, <1>1, <1>2, <1>3 DEF WorkBacked
  <2>2. CASE q # p
    BY <2>2, <1>1, <1>2 DEF OthersAsBefore, ParEvidenceInv, WorkBacked
  <2>3. QED
    BY <2>1, <2>2
<1>9. QED
  BY <1>5, <1>6, <1>7, <1>8 DEF ParEvidenceInv, EvidenceInv

\* Every step keeps what is claimed, executed and submitted backed by evidence.
LEMMA ParEvidenceStep == ParShape /\ ParEvidenceInv /\ [ParNext]_parVars => ParEvidenceInv'
<1> SUFFICES ASSUME ParShape, ParEvidenceInv, [ParNext]_parVars PROVE ParEvidenceInv'
  OBVIOUS
<1>a. /\ ParTypeOK /\ TypeOK /\ EvidenceInv
      /\ tasks \in [Task -> TaskRow] /\ RowsOK(tasks, ranOk)
      /\ GoalRowOK(goal, ranOk, gatesPassed)
      /\ proc \in [Proc -> ProcState] /\ pool \in [Proc -> PoolState]
  BY DEF ParShape, ParTypeOK, TypeOK, StoreTypeOK, ParEvidenceInv, EvidenceInv
<1>b. ASSUME NEW p \in Proc
      PROVE  /\ PoolFits(proc[p], pool[p]) /\ WorkBacked(proc[p], pool[p], ranOk)
             /\ proc[p] \in ProcState /\ pool[p] \in PoolState
             /\ RowsOK(proc[p].snap, ranOk)
  BY <1>b, <1>a DEF ParShape, ParEvidenceInv, EvidenceInv, MemoryOK
<1>c. ASSUME NEW status, NEW truth, truth # "VERIFIED_SUCCESS"
      PROVE  GoalRowOK(GoalIs(status, truth), ranOk, gatesPassed)
  BY <1>c DEF GoalRowOK, GoalIs
<1>1. ASSUME Progress, pool' = pool PROVE ParEvidenceInv'
  <2>1. EvidenceInv' /\ ranOk \subseteq ranOk'
    BY <1>1, <1>a, EvidenceStep, SequentialEvidence DEF Next
  <2>2. CASE \E p \in Proc : CallRun(p) \/ CallVerify(p) \/ CallResume(p) \/ Step(p)
    <3>1. PICK p \in Proc : SequentialMove(p)
      BY <2>2, <1>a, SequentialStep
    <3>2. pool'[p] = IdlePool /\ proc'[p].pc \notin {"pfill", "pstart"}
      BY <1>1, <1>b, <3>1 DEF SequentialMove, PoolFits, ParPC
    <3>3. OthersAsBefore(p)
      BY <1>1, <3>1 DEF SequentialMove, OthersAsBefore
    <3>4. QED
      BY <2>1, <3>2, <3>3, ParEndStep
  <2>3. CASE CancelGoal \/ RecordCost
    <3>1. proc' = proc /\ ranOk' = ranOk
      BY <2>3 DEF CancelGoal, RecordCost, procVars, history
    <3>2. QED
      BY <1>1, <2>1, <3>1 DEF ParEvidenceInv
  <2>4. QED
    BY <1>1, <2>2, <2>3 DEF Progress
<1>2. ASSUME NEW p \in Proc, CallParallel(p) PROVE ParEvidenceInv'
  <2>1. /\ proc' \in [Proc -> ProcState] /\ pool' \in [Proc -> PoolState]
        /\ OthersAsBefore(p) /\ proc[p].pc = "idle" /\ proc'[p].pc = "enter"
        /\ proc'[p].verdict = proc[p].verdict /\ proc'[p].snap = proc[p].snap
        /\ pool'[p] = pool[p]
        /\ UNCHANGED <<goal, tasks, leases, clock, launches, ranOk, gatesPassed>>
    BY <1>2, <1>a, CallEffect
  <2>2. MemoryOK(proc'[p], ranOk, gatesPassed)
    <3>1. MemoryOK(proc[p], ranOk, gatesPassed)
      BY <1>a DEF EvidenceInv
    <3>2. QED
      BY <3>1, <2>1 DEF MemoryOK
  <2>3. PICK r : r = proc'[p]
    OBVIOUS
  <2>4. proc' = [proc EXCEPT ![p] = r]
    BY <1>a, <2>1, <2>3 DEF OthersAsBefore
  <2>5. EvidenceInv'
    BY <1>a, <2>1, <2>2, <2>3, <2>4, LocalStep
  <2>6. pool'[p] = IdlePool
    BY <1>b, <2>1 DEF PoolFits, ParPC
  <2>7. QED
    BY <2>1, <2>5, <2>6, ParEndStep
<1>3. ASSUME NEW p \in Proc, ParScan(p) \/ ParReadForBlocking(p) PROVE ParEvidenceInv'
  <2>1. /\ CoordKeeps(p)
        /\ \/ proc[p].pc = "pscan" /\ proc'[p].pc = "pblock"
           \/ proc[p].pc = "pblockread" /\ proc'[p].pc = "pblocksave"
        /\ proc'[p].snap = PropagateFailures(DependsOn, tasks)
        /\ pool'[p] = pool[p]
        /\ UNCHANGED <<goal, tasks, leases, clock, launches, ranOk, gatesPassed>>
    BY <1>3, <1>a, ReadEffect
  <2>2. RowsOK(proc'[p].snap, ranOk)
    BY <1>a, <2>1, PropagateOK
  <2>3. WorkBacked(proc'[p], pool'[p], ranOk)
    BY <1>b, <2>1 DEF WorkBacked, CoordKeeps
  <2>4. QED
    BY <1>a, <2>1, <2>2, <2>3, ParLocalStep DEF ParPC
<1>4. ASSUME NEW p \in Proc, ParSaveBlocked(p) PROVE ParEvidenceInv'
  <2> DEFINE ready == ReadyTasks(DependsOn, proc[p].snap, ~proc[p].execute) \ InFlight(p)
  <2>1. /\ CoordKeeps(p) /\ proc'[p].pc \in {"pconclude", "pfill"}
        /\ proc'[p].todo = ready /\ proc'[p].snap = proc[p].snap
        /\ pool'[p].futures = pool[p].futures
        /\ SaveTasks(proc[p].todo, proc[p].snap)
        /\ UNCHANGED <<goal, leases, clock, launches, ranOk, gatesPassed>>
    BY <1>4, <1>a, SaveBlockedEffect
  <2>2. RowsOK(tasks', ranOk)
    BY <1>a, <1>b, <2>1, SaveTasksOK
  <2>3. proc[p].execute => \A t \in ready : DependsOn[t] \subseteq ranOk
    <3> SUFFICES ASSUME proc[p].execute, NEW t \in ready PROVE DependsOn[t] \subseteq ranOk
      OBVIOUS
    <3>1. t \in ReadyTasks(DependsOn, proc[p].snap, FALSE)
      BY <1>b DEF ProcState
    <3>2. QED
      BY <3>1, <1>b, ReadyOK
  <2> HIDE DEF ready
  <2>4. WorkBacked(proc'[p], pool'[p], ranOk)
    BY <1>b, <2>1, <2>3 DEF WorkBacked, CoordKeeps
  <2>5. QED
    BY <1>b, <2>1, <2>2, <2>4, ParLocalStep DEF ParPC
<1>5. ASSUME NEW p \in Proc, Queue(p) PROVE ParEvidenceInv'
  <2>1. PICK t \in proc[p].todo :
           /\ CoordKeeps(p)
           /\ proc[p].pc = "pfill" /\ proc'[p].pc = "pfill"
           /\ proc'[p].todo = proc[p].todo \ {t}
           /\ proc'[p].snap = proc[p].snap
           /\ pool'[p].futures = pool[p].futures /\ pool'[p].rows = pool[p].rows
           /\ \/ tasks' = tasks
              \/ tasks' = [tasks EXCEPT ![t] = [proc[p].snap[t] EXCEPT !.truth = "QUEUED"]]
           /\ UNCHANGED <<goal, leases, clock, launches, ranOk, gatesPassed>>
    BY <1>5, <1>a, QueueEffect
  <2>2. [proc[p].snap[t] EXCEPT !.truth = "QUEUED"].truth = "QUEUED"
    <3>1. proc[p].snap[t] \in TaskRow
      BY <1>b DEF ProcState
    <3>2. QED
      BY <3>1 DEF TaskRow
  <2>3. RowsOK(tasks', ranOk)
    BY <1>a, <2>1, <2>2, SaveOneOK
  <2>4. WorkBacked(proc'[p], pool'[p], ranOk)
    BY <1>b, <2>1 DEF WorkBacked, CoordKeeps
  <2>5. QED
    BY <1>b, <2>1, <2>3, <2>4, ParLocalStep DEF ParPC
<1>6. ASSUME NEW p \in Proc, AcquireLease(p) PROVE ParEvidenceInv'
  <2>1. PICK t \in proc[p].todo :
           /\ CoordKeeps(p)
           /\ proc[p].pc = "pfill" /\ proc'[p].pc = "pstart" /\ proc'[p].cur = t
           /\ proc'[p].todo = proc[p].todo \ {t}
           /\ proc'[p].snap = proc[p].snap
           /\ pool'[p] = pool[p]
           /\ ~LaneFull(t)
           /\ leases' = [leases EXCEPT ![t] = clock + LeaseTime]
           /\ UNCHANGED <<goal, tasks, clock, launches, ranOk, gatesPassed>>
    BY <1>6, <1>a, AcquireEffect
  <2>2. WorkBacked(proc'[p], pool'[p], ranOk)
    BY <1>b, <2>1 DEF WorkBacked, CoordKeeps
  <2>3. QED
    BY <1>a, <1>b, <2>1, <2>2, ParLocalStep DEF ParPC
<1>7. ASSUME NEW p \in Proc, Submit(p) PROVE ParEvidenceInv'
  <2>1. proc[p].cur \in Task
    BY <1>7, <1>b DEF Submit, At, PoolFits
  <2>2. PICK row :
          /\ row.truth = "RUNNING"
          /\ CoordKeeps(p)
          /\ proc[p].pc = "pstart" /\ proc'[p].pc = "pfill"
          /\ proc'[p].todo = proc[p].todo
          /\ proc'[p].snap = proc[p].snap
          /\ tasks' = [tasks EXCEPT ![proc[p].cur] = row]
          /\ pool'[p].futures = [pool[p].futures EXCEPT ![proc[p].cur] = "running"]
          /\ UNCHANGED <<goal, leases, clock, launches, ranOk, gatesPassed>>
    <3> DEFINE row == Row("RUNNING", "RUNNING", proc[p].snap[proc[p].cur].attempts + 1)
    <3>1. /\ CoordKeeps(p)
          /\ proc[p].pc = "pstart" /\ proc'[p].pc = "pfill"
          /\ proc'[p].todo = proc[p].todo
          /\ proc'[p].snap = proc[p].snap
          /\ row \in TaskRow
          /\ tasks' = [tasks EXCEPT ![proc[p].cur] = row]
          /\ pool'[p].futures = [pool[p].futures EXCEPT ![proc[p].cur] = "running"]
          /\ pool'[p].rows = [pool[p].rows EXCEPT ![proc[p].cur] = row]
          /\ UNCHANGED <<goal, leases, clock, launches, ranOk, gatesPassed>>
      BY <1>7, <1>a, <2>1, SubmitEffect
    <3>2. row.truth = "RUNNING"
      BY DEF Row
    <3> HIDE DEF row
    <3>3. QED
      BY <3>1, <3>2
  <2>3. RowsOK(tasks', ranOk)
    BY <1>a, <2>2, SaveOneOK
  <2>4. \A u \in Task : pool'[p].futures[u] =
            IF u = proc[p].cur THEN "running" ELSE pool[p].futures[u]
    BY <1>b, <2>2 DEF PoolState
  <2>5. WorkBacked(proc'[p], pool'[p], ranOk)
    BY <1>b, <2>2, <2>4 DEF WorkBacked, CoordKeeps
  <2>6. QED
    BY <1>b, <2>2, <2>3, <2>5, ParLocalStep DEF ParPC
<1>8. ASSUME NEW p \in Proc, EndFill(p) PROVE ParEvidenceInv'
  <2>1. /\ proc[p].pc = "pfill"
        /\ \/ /\ Conclude(p, "BLOCKED", "QUEUED")
              /\ pool' = [pool EXCEPT ![p] = IdlePool]
           \/ /\ CoordKeeps(p)
              /\ proc'[p].pc = "pwait"
              /\ proc'[p].snap = proc[p].snap
              /\ pool'[p] = pool[p]
        /\ UNCHANGED <<goal, tasks, leases, clock, launches, ranOk, gatesPassed>>
    BY <1>8, <1>a, EndFillEffect
  <2>2. CASE Conclude(p, "BLOCKED", "QUEUED") /\ pool' = [pool EXCEPT ![p] = IdlePool]
    <3>1. EvidenceInv'
      BY <1>a, <1>c, <2>1, <2>2, ConcludeStep
    <3>2. /\ OthersAsBefore(p) /\ pool'[p] = IdlePool
          /\ proc'[p].pc \in {"idle", "finish", "verify"}
      BY <2>2, EndShape DEF GoalStatus, TruthStatus
    <3>3. QED
      BY <2>1, <3>1, <3>2, ParEndStep
  <2>3. CASE CoordKeeps(p) /\ proc'[p].pc = "pwait" /\ proc'[p].snap = proc[p].snap
             /\ pool'[p] = pool[p]
    <3>1. WorkBacked(proc'[p], pool'[p], ranOk)
      BY <1>b, <2>3 DEF WorkBacked, CoordKeeps
    <3>2. QED
      BY <1>a, <1>b, <2>1, <2>3, <3>1, ParLocalStep DEF ParPC
  <2>4. QED
    BY <2>1, <2>2, <2>3
<1>9. ASSUME NEW p \in Proc, Wait(p) PROVE ParEvidenceInv'
  <2>1. /\ CoordKeeps(p)
        /\ proc[p].pc = "pwait" /\ proc'[p].pc = "prelease"
        /\ proc'[p].snap = proc[p].snap
        /\ pool'[p].futures = pool[p].futures
        /\ UNCHANGED <<goal, tasks, leases, clock, launches, ranOk, gatesPassed>>
    BY <1>9, <1>a, WaitEffect
  <2>2. WorkBacked(proc'[p], pool'[p], ranOk)
    BY <1>b, <2>1 DEF WorkBacked, CoordKeeps
  <2>3. QED
    BY <1>a, <1>b, <2>1, <2>2, ParLocalStep DEF ParPC
<1>10. ASSUME NEW p \in Proc, ReleaseLease(p) PROVE ParEvidenceInv'
  <2>1. PICK t \in pool[p].batch :
           /\ CoordKeeps(p)
           /\ proc[p].pc = "prelease" /\ proc'[p].pc = "precord" /\ proc'[p].cur = t
           /\ proc'[p].snap = proc[p].snap
           /\ pool'[p].futures = pool[p].futures /\ pool'[p].rows = pool[p].rows
           /\ pool'[p].batch = pool[p].batch \ {t}
           /\ leases' = [leases EXCEPT ![t] = NoLease]
           /\ UNCHANGED <<goal, tasks, clock, launches, ranOk, gatesPassed>>
    BY <1>10, <1>a, ReleaseEffect
  <2>2. WorkBacked(proc'[p], pool'[p], ranOk)
    BY <1>b, <2>1 DEF WorkBacked, CoordKeeps
  <2>3. QED
    BY <1>a, <1>b, <2>1, <2>2, ParLocalStep DEF ParPC
<1>11. ASSUME NEW p \in Proc, RecordFuture(p) PROVE ParEvidenceInv'
  <2>1. proc[p].cur \in Task
    BY <1>11, <1>b DEF RecordFuture, At, PoolFits, Done
  <2>2. /\ CoordKeeps(p)
        /\ proc[p].pc = "precord" /\ proc'[p].pc \in {"pblockread", "pscan", "prelease"}
        /\ proc'[p].snap = proc[p].snap
        /\ tasks' = [tasks EXCEPT ![proc[p].cur] = FutureRow(p, proc[p].cur)]
        /\ pool'[p].futures = [pool[p].futures EXCEPT ![proc[p].cur] = "none"]
        /\ UNCHANGED <<goal, leases, clock, launches, ranOk, gatesPassed>>
    BY <1>11, <1>a, <2>1, RecordEffect
  <2>3. /\ FutureRow(p, proc[p].cur).truth # "UNAVAILABLE"
        /\ FutureRow(p, proc[p].cur).truth = "VERIFIED_SUCCESS" => proc[p].cur \in ranOk
    BY <1>b, <2>1 DEF FutureRow, Row, WorkBacked
  <2>4. RowsOK(tasks', ranOk)
    BY <1>a, <2>2, <2>3, SaveOneOK
  <2>5. \A u \in Task : pool'[p].futures[u] =
            IF u = proc[p].cur THEN "none" ELSE pool[p].futures[u]
    BY <1>b, <2>2 DEF PoolState
  <2>6. WorkBacked(proc'[p], pool'[p], ranOk)
    BY <1>b, <2>2, <2>5 DEF WorkBacked, CoordKeeps
  <2>7. QED
    BY <1>b, <2>2, <2>4, <2>6, ParLocalStep DEF ParPC
<1>12. ASSUME NEW p \in Proc, ParSavePropagated(p) PROVE ParEvidenceInv'
  <2>1. /\ CoordKeeps(p)
        /\ proc[p].pc = "pblocksave" /\ proc'[p].pc \in {"pscan", "prelease"}
        /\ proc'[p].snap = proc[p].snap
        /\ SaveTasks(proc[p].todo, proc[p].snap)
        /\ pool'[p] = pool[p]
        /\ UNCHANGED <<goal, leases, clock, launches, ranOk, gatesPassed>>
    BY <1>12, <1>a, SavePropagatedEffect
  <2>2. RowsOK(tasks', ranOk)
    BY <1>a, <1>b, <2>1, SaveTasksOK
  <2>3. WorkBacked(proc'[p], pool'[p], ranOk)
    BY <1>b, <2>1 DEF WorkBacked, CoordKeeps
  <2>4. QED
    BY <1>b, <2>1, <2>2, <2>3, ParLocalStep DEF ParPC
<1>13. ASSUME NEW p \in Proc, ParDecide(p) PROVE ParEvidenceInv'
  <2>1. UNCHANGED <<goal, tasks, launches, ranOk, gatesPassed>>
        /\ pool' = [pool EXCEPT ![p] = IdlePool]
    BY <1>13, DecideEnds
  <2>2. PICK status \in GoalStatus, truth \in TruthStatus :
          \/ Conclude(p, status, truth) /\ truth # "VERIFIED_SUCCESS"
          \/ proc[p].pc = "pconclude" /\ proc' = [proc EXCEPT ![p].pc = "verify"]
    BY <1>13, DecideEnds DEF GoalStatus, TruthStatus
  <2>3. EvidenceInv'
    <3>1. CASE Conclude(p, status, truth) /\ truth # "VERIFIED_SUCCESS"
      BY <1>a, <1>c, <2>1, <3>1, ConcludeStep
    <3>2. CASE proc' = [proc EXCEPT ![p].pc = "verify"]
      BY <1>a, <2>1, <3>2, QuietLabels, MoveStep
    <3>3. QED
      BY <2>2, <3>1, <3>2
  <2>4. /\ OthersAsBefore(p) /\ pool'[p] = IdlePool
        /\ proc'[p].pc \in {"idle", "finish", "verify"}
    BY <2>1, <2>2, EndShape
  <2>5. QED
    BY <2>1, <2>3, <2>4, ParEndStep
<1>14. ASSUME NEW p \in Proc, ParCrash(p) PROVE ParEvidenceInv'
  <2>1. Leave(p) /\ pool' = [pool EXCEPT ![p] = IdlePool]
        /\ UNCHANGED <<goal, tasks, leases, clock, launches, ranOk, gatesPassed>>
    BY <1>14 DEF ParCrash, Crash, storeVars, history
  <2>2. EvidenceInv'
    BY <1>a, <2>1, LeaveStep
  <2>3. /\ OthersAsBefore(p) /\ pool'[p] = IdlePool
        /\ proc'[p].pc \in {"idle", "finish", "verify"}
    BY <2>1, EndShape DEF GoalStatus, TruthStatus
  <2>4. QED
    BY <2>1, <2>2, <2>3, ParEndStep
<1>15. ASSUME NEW p \in Proc, NEW t \in Task, Work(p, t) PROVE ParEvidenceInv'
  BY <1>15, WorkEvidence
<1>16. ASSUME Tick PROVE ParEvidenceInv'
  <2>1. UNCHANGED <<proc, pool, goal, tasks, launches, ranOk, gatesPassed>>
    BY <1>16 DEF Tick, procVars, history
  <2>2. QED
    BY <2>1 DEF ParEvidenceInv, EvidenceInv, RealWorkOnRealWork
<1>17. CASE UNCHANGED parVars
  BY <1>17 DEF parVars, ParEvidenceInv, EvidenceInv, RealWorkOnRealWork
<1>18. QED
  BY <1>1, <1>2, <1>3, <1>4, <1>5, <1>6, <1>7, <1>8, <1>9, <1>10, <1>11, <1>12, <1>13, <1>14,
     <1>15, <1>16, <1>17
     DEF ParNext, ParStep

\* Nothing is claimed of a goal just created, and no pool executes anything.
LEMMA ParEvidenceInit == ParInit => ParEvidenceInv
<1> SUFFICES ASSUME ParInit PROVE ParEvidenceInv
  OBVIOUS
<1>1. EvidenceInv
  BY EvidenceInit DEF ParInit
<1>2. ASSUME NEW p \in Proc PROVE WorkBacked(proc[p], pool[p], ranOk)
  <2>1. proc[p].pc = "idle" /\ pool[p] = IdlePool
    BY DEF ParInit, Init, IdleProc
  <2>2. QED
    BY <2>1, IdleBacked
<1>3. QED
  BY <1>1, <1>2 DEF ParEvidenceInv

\* The evidence holds for pools of threads and sequential runs side by side.
THEOREM ParEvidenceCorrect == ParSpec => []ParEvidenceInv
BY ParEvidenceInit, ParShapeCorrect, ParEvidenceStep, PTL DEF ParSpec

\* With parallel and sequential runs, resumes, crashes and cancellations on
\* one store, a goal is VERIFIED_SUCCESS only when every command of it has
\* succeeded and real gates have passed.
THEOREM ParVerifiedTruthHolds == ParSpec => []VerifiedTruth
<1>1. ParEvidenceInv => VerifiedTruth
  BY DEF ParEvidenceInv, EvidenceInv, GoalRowOK, VerifiedTruth
<1>2. QED
  BY <1>1, ParEvidenceCorrect, PTL

\* And no worker thread starts a command before the commands of the tasks it
\* depends on have succeeded.
THEOREM ParRealWorkOnRealWorkHolds == ParSpec => []RealWorkOnRealWork
<1>1. ParEvidenceInv => RealWorkOnRealWork
  BY DEF ParEvidenceInv, EvidenceInv
<1>2. QED
  BY <1>1, ParEvidenceCorrect, PTL

(***************************************************************************)
(* One coordinator at a time                                               *)
(***************************************************************************)

\* Rows blocked by propagation keep every budget.
LEMMA PropagatedBudget ==
    ASSUME NEW starts, tasks \in [Task -> TaskRow], BudgetKept(tasks, starts),
           NEW S, NEW rows, S = NewlyBlocked(DependsOn, tasks),
           rows = PropagateFailures(DependsOn, tasks), SaveTasks(S, rows)
    PROVE  /\ BudgetKept(tasks', starts)
           /\ \A t \in Task : tasks'[t] = rows[t]
           /\ \A t \in Task : tasks[t].status # "PENDING" => tasks'[t] = tasks[t]
<1>1. \A t \in Task : tasks'[t] = IF t \in S THEN rows[t] ELSE tasks[t]
  BY DEF SaveTasks
<1>2. ASSUME NEW t \in Task
      PROVE  /\ tasks'[t] = rows[t]
             /\ tasks'[t].attempts = tasks[t].attempts
             /\ tasks'[t].status = "PENDING" => tasks[t].status = "PENDING"
             /\ tasks[t].status # "PENDING" => tasks'[t] = tasks[t]
  BY <1>1, PropagatedRow, BlockedArePending
<1>3. BudgetKept(tasks', starts)
  BY <1>2, BudgetSameAttempts
<1>4. QED
  BY <1>2, <1>3

\* One more attempt of a PENDING task keeps every budget.
LEMMA StartBudget ==
    ASSUME NEW starts \in [Task -> Nat], tasks \in [Task -> TaskRow], BudgetKept(tasks, starts),
           NEW t \in Task, tasks[t].status = "PENDING", NEW row,
           row.status = "RUNNING", row.attempts = tasks[t].attempts + 1,
           tasks' = [tasks EXCEPT ![t] = row]
    PROVE  /\ BudgetKept(tasks', starts)
           /\ starts[t] < tasks'[t].attempts
<1>1. /\ tasks[t].attempts \in Nat /\ starts[t] \in Nat /\ starts[t] <= tasks[t].attempts
      /\ tasks[t].attempts = 0 \/ Retriable(t, tasks[t])
  BY DEF BudgetKept, TaskRow
<1>2. tasks'[t] = row /\ \A u \in Task \ {t} : tasks'[u] = tasks[u]
  OBVIOUS
<1>3. ASSUME NEW u \in Task
      PROVE  /\ starts[u] <= tasks'[u].attempts
             /\ \/ tasks'[u].attempts <= 1
                \/ /\ tasks'[u].attempts <= MaxAttempts
                   /\ tasks'[u].attempts <= RetryLimit
                   /\ tasks'[u].attempts <= TicketRetry
             /\ u \notin Idempotent \/ u \in Uncertain => tasks'[u].attempts <= 1
             /\ tasks'[u].status = "PENDING" =>
                    tasks'[u].attempts = 0 \/ Retriable(u, tasks'[u])
  <2>1. CASE u = t
    <3>1. tasks'[u].attempts = tasks[t].attempts + 1 /\ tasks'[u].status = "RUNNING"
      BY <2>1, <1>2
    <3>2. QED
      BY <2>1, <3>1, <1>1, BudgetAssumption DEF Retriable
  <2>2. CASE u # t
    BY <2>2, <1>2 DEF BudgetKept
  <2>3. QED
    BY <2>1, <2>2
<1>4. starts[t] < tasks'[t].attempts
  BY <1>1, <1>2
<1>5. QED
  BY <1>3, <1>4 DEF BudgetKept

\* Propagation makes no task ready.
LEMMA ReadyShrinks ==
    ASSUME NEW ts \in [Task -> TaskRow], NEW simulated
    PROVE  ReadyIn(ts, simulated) \subseteq ReadyTasks(DependsOn, ts, simulated)
<1> DEFINE rows == PropagateFailures(DependsOn, ts)
<1>1. Satisfied(rows, simulated) \subseteq Satisfied(ts, simulated)
  <2> SUFFICES ASSUME NEW u \in Satisfied(rows, simulated) PROVE u \in Satisfied(ts, simulated)
    OBVIOUS
  <2>1. u \in Task /\ rows[u].status = "COMPLETED"
        /\ rows[u].truth \in SatisfyingTruth(simulated)
    BY DEF Satisfied
  <2>2. rows[u] = ts[u]
    BY <2>1, PropagatedRow
  <2>3. QED
    BY <2>1, <2>2 DEF Satisfied
<1>2. ASSUME NEW t \in ReadyIn(ts, simulated) PROVE t \in ReadyTasks(DependsOn, ts, simulated)
  <2>1. t \in Task /\ ts[t].status = "PENDING"
    BY ReadyRow
  <2>2. DependsOn[t] \subseteq Satisfied(rows, simulated)
    BY DEF ReadyIn, ReadyTasks
  <2>3. QED
    BY <1>1, <2>1, <2>2 DEF ReadyTasks
<1>3. QED
  BY <1>2

\* A pool without futures is up to date whatever is stored.
LEMMA IdleFutures ==
    ASSUME NEW r, NEW ts, NEW ls, NEW starts, r.pc \notin ParPC \ {"pscan"}
    PROVE  CoordUpToDate(r, IdlePool, ts, ls) /\ FuturesUpToDate(IdlePool, ts, ls, starts)
BY DEF CoordUpToDate, FuturesUpToDate, IdlePool, Row, ParPC

\* A step of the only coordinator inside its loop keeps both invariants when
\* what it remembers agrees with what it leaves stored.
LEMMA CoordLocal ==
    ASSUME OneProcess, ParShape, NEW p \in Proc, OthersAsBefore(p),
           proc' \in [Proc -> ProcState], proc'[p].pc \in ParPC,
           goal' = goal, goal.truth # "VERIFIED_SUCCESS",
           BudgetKept(tasks', launches'),
           CoordUpToDate(proc'[p], pool'[p], tasks', leases'),
           FuturesUpToDate(pool'[p], tasks', leases', launches')
    PROVE  SoloInv' /\ CoordInv'
<1>1. proc \in [Proc -> ProcState]
  BY DEF ParShape, ParTypeOK, TypeOK
<1>2. PICK r : r = proc'[p]
  OBVIOUS
<1>3. proc' = [proc EXCEPT ![p] = r]
  BY <1>1, <1>2 DEF OthersAsBefore
<1>4. UpToDate(r, tasks', launches')
  BY <1>2, NothingToUpdate DEF ParPC
<1>5. FreshGates(r, goal', gatesPassed')
  BY <1>2 DEF FreshGates, ParPC
<1>6. SoloInv'
  BY <1>1, <1>3, <1>4, <1>5, SoloMemory
<1>7. \A q \in Proc : q = p
  BY DEF OneProcess
<1>8. QED
  BY <1>6, <1>7 DEF CoordInv

\* A step after which it is outside the loop keeps the second one.
LEMMA CoordEnd ==
    ASSUME OneProcess, NEW p \in Proc, pool'[p] = IdlePool, proc'[p].pc \notin ParPC
    PROVE  CoordInv'
<1>1. \A q \in Proc : q = p
  BY DEF OneProcess
<1>2. CoordUpToDate(proc'[p], pool'[p], tasks', leases')
      /\ FuturesUpToDate(pool'[p], tasks', leases', launches')
  BY IdleFutures DEF ParPC
<1>3. QED
  BY <1>1, <1>2 DEF CoordInv

\* What the invariants say of p before a step.
LEMMA CoordFacts ==
    ASSUME ParShape, SoloInv, CoordInv, NEW p \in Proc
    PROVE  /\ ParFacts(p) /\ PoolFits(proc[p], pool[p])
           /\ BudgetKept(tasks, launches)
           /\ CoordUpToDate(proc[p], pool[p], tasks, leases)
           /\ FuturesUpToDate(pool[p], tasks, leases, launches)
           /\ proc[p].pc \in ParPC => goal.truth # "VERIFIED_SUCCESS"
BY Facts DEF ParShape, SoloInv, CoordInv

\* The sequential calls keep both invariants: their process has no pool.
LEMMA CoordProgress ==
    ASSUME OneProcess, ParShape, SoloInv, CoordInv, Progress, pool' = pool
    PROVE  SoloInv' /\ CoordInv'
<1>1. TypeOK
  BY DEF ParShape, ParTypeOK
<1>2. SoloInv'
  BY <1>1, SoloStep DEF Next
<1>3. CASE \E p \in Proc : CallRun(p) \/ CallVerify(p) \/ CallResume(p) \/ Step(p)
  <2>1. PICK p \in Proc : CallRun(p) \/ CallVerify(p) \/ CallResume(p) \/ Step(p)
    BY <1>3
  <2>2. SequentialMove(p)
    BY <1>1, <2>1, SequentialStep
  <2>3. pool'[p] = IdlePool /\ proc'[p].pc \notin ParPC \ {"pscan"}
        /\ (proc'[p].pc = "pscan" => goal'.truth # "VERIFIED_SUCCESS")
    BY <2>2 DEF SequentialMove, ParShape, PoolFits
  <2>4. CoordUpToDate(proc'[p], pool'[p], tasks', leases')
        /\ FuturesUpToDate(pool'[p], tasks', leases', launches')
    BY <2>3, IdleFutures
  <2>5. \A q \in Proc : q = p
    BY DEF OneProcess
  <2>6. CoordInv'
    BY <2>3, <2>4, <2>5 DEF CoordInv
  <2>7. QED
    BY <1>2, <2>6
<1>4. CASE CancelGoal \/ RecordCost
  <2>1. UNCHANGED <<proc, tasks, leases, launches>>
        /\ (goal' = goal \/ goal'.truth = "CANCELLED")
    BY <1>4 DEF CancelGoal, RecordCost, GoalIs, storeVars, procVars, history
  <2>2. CoordInv'
    BY <2>1 DEF CoordInv
  <2>3. QED
    BY <1>2, <2>2
<1>5. QED
  BY <1>3, <1>4 DEF Progress

\* The rows are read and propagated: what p remembers is what is stored.
LEMMA CoordRead ==
    ASSUME OneProcess, ParShape, SoloInv, CoordInv, NEW p \in Proc,
           ParScan(p) \/ ParReadForBlocking(p)
    PROVE  SoloInv' /\ CoordInv'
<1>1. ParTypeOK
  BY DEF ParShape
<1>2. /\ CoordKeeps(p)
      /\ \/ proc[p].pc = "pscan" /\ proc'[p].pc = "pblock"
         \/ proc[p].pc = "pblockread" /\ proc'[p].pc = "pblocksave"
      /\ proc'[p].snap = PropagateFailures(DependsOn, tasks)
      /\ proc'[p].todo = NewlyBlocked(DependsOn, tasks)
      /\ pool'[p] = pool[p]
      /\ UNCHANGED <<goal, tasks, leases, clock, launches, ranOk, gatesPassed>>
  BY <1>1, ReadEffect
<1>3. CoordUpToDate(proc'[p], pool'[p], tasks', leases')
  BY <1>2 DEF CoordUpToDate
<1>4. FuturesUpToDate(pool'[p], tasks', leases', launches')
  BY <1>2, CoordFacts
<1>5. goal.truth # "VERIFIED_SUCCESS" /\ proc'[p].pc \in ParPC /\ BudgetKept(tasks', launches')
  BY <1>2, CoordFacts DEF ParPC
<1>6. QED
  BY <1>2, <1>3, <1>4, <1>5, CoordLocal DEF CoordKeeps

\* The propagated rows are saved: what is found ready is stored as PENDING,
\* and with nothing found and nothing in flight no stored task is ready.
LEMMA CoordSaveBlocked ==
    ASSUME OneProcess, ParShape, SoloInv, CoordInv, NEW p \in Proc, ParSaveBlocked(p)
    PROVE  SoloInv' /\ CoordInv'
<1> DEFINE ready == ReadyTasks(DependsOn, proc[p].snap, ~proc[p].execute) \ InFlight(p)
<1>1. ParTypeOK
  BY DEF ParShape
<1>2. /\ CoordKeeps(p)
      /\ proc[p].pc = "pblock"
      /\ proc'[p].pc = IF ready = {} /\ InFlight(p) = {} THEN "pconclude" ELSE "pfill"
      /\ proc'[p].todo = ready
      /\ proc'[p].snap = proc[p].snap
      /\ pool'[p].futures = pool[p].futures /\ pool'[p].rows = pool[p].rows
      /\ SaveTasks(proc[p].todo, proc[p].snap)
      /\ UNCHANGED <<goal, leases, clock, launches, ranOk, gatesPassed>>
  BY <1>1, SaveBlockedEffect
<1>3. /\ tasks \in [Task -> TaskRow] /\ BudgetKept(tasks, launches)
      /\ proc[p].todo = NewlyBlocked(DependsOn, tasks)
      /\ proc[p].snap = PropagateFailures(DependsOn, tasks)
      /\ FuturesUpToDate(pool[p], tasks, leases, launches)
      /\ goal.truth # "VERIFIED_SUCCESS"
  BY <1>2, CoordFacts DEF ParFacts, CoordUpToDate, ParPC
<1>4. /\ BudgetKept(tasks', launches)
      /\ \A t \in Task : tasks'[t] = proc[p].snap[t]
      /\ \A t \in Task : tasks[t].status # "PENDING" => tasks'[t] = tasks[t]
  BY <1>2, <1>3, PropagatedBudget
<1>5. tasks' = proc[p].snap
  <2>1. tasks' = [t \in Task |-> tasks'[t]]
    BY <1>2 DEF SaveTasks
  <2>2. proc[p].snap = [t \in Task |-> proc[p].snap[t]]
    BY <1>3 DEF PropagateFailures
  <2>3. QED
    BY <1>4, <2>1, <2>2
<1>6. tasks' \in [Task -> TaskRow]
  BY <1>3, <1>5, PropagateType
<1>7. FuturesUpToDate(pool'[p], tasks', leases', launches')
  BY <1>2, <1>3, <1>4 DEF FuturesUpToDate
<1>8. CASE proc'[p].pc = "pfill"
  <2>1. \A t \in ready : tasks'[t].status = "PENDING" /\ proc[p].snap[t] = tasks'[t]
    BY <1>5 DEF ReadyTasks
  <2>2. CoordUpToDate(proc'[p], pool'[p], tasks', leases')
    BY <1>2, <1>8, <2>1 DEF CoordUpToDate
  <2>3. QED
    BY <1>2, <1>3, <1>4, <1>7, <1>8, <2>2, CoordLocal DEF CoordKeeps, ParPC
<1>9. CASE proc'[p].pc = "pconclude"
  <2>1. ready = {} /\ InFlight(p) = {}
    BY <1>2, <1>9
  <2>2. ReadyIn(tasks', ~proc[p].execute) = {}
    BY <1>5, <1>6, <2>1, ReadyShrinks
  <2>3. \A t \in Task : pool'[p].futures[t] = "none"
    BY <1>2, <2>1 DEF InFlight
  <2>4. CoordUpToDate(proc'[p], pool'[p], tasks', leases')
    BY <1>2, <1>9, <2>2, <2>3 DEF CoordUpToDate, CoordKeeps
  <2>5. QED
    BY <1>2, <1>3, <1>4, <1>7, <1>9, <2>4, CoordLocal DEF CoordKeeps, ParPC
<1>10. QED
  BY <1>2, <1>8, <1>9

\* A refused task keeps its status and its attempts.
LEMMA CoordQueue ==
    ASSUME OneProcess, ParShape, SoloInv, CoordInv, NEW p \in Proc, Queue(p)
    PROVE  SoloInv' /\ CoordInv'
<1>1. ParTypeOK
  BY DEF ParShape
<1>2. PICK t \in proc[p].todo :
         /\ CoordKeeps(p)
         /\ proc[p].pc = "pfill" /\ proc'[p].pc = "pfill"
         /\ proc'[p].todo = proc[p].todo \ {t}
         /\ proc'[p].snap = proc[p].snap
         /\ pool'[p].futures = pool[p].futures /\ pool'[p].rows = pool[p].rows
         /\ \/ tasks' = tasks
            \/ tasks' = [tasks EXCEPT ![t] = [proc[p].snap[t] EXCEPT !.truth = "QUEUED"]]
         /\ UNCHANGED <<goal, leases, clock, launches, ranOk, gatesPassed>>
  BY <1>1, QueueEffect
<1>3. /\ tasks \in [Task -> TaskRow] /\ BudgetKept(tasks, launches)
      /\ \A u \in proc[p].todo : tasks[u].status = "PENDING" /\ proc[p].snap[u] = tasks[u]
      /\ t \in Task /\ proc[p].todo \subseteq Task
      /\ FuturesUpToDate(pool[p], tasks, leases, launches)
      /\ goal.truth # "VERIFIED_SUCCESS"
  BY <1>2, CoordFacts DEF ParFacts, CoordUpToDate, ParPC, ProcState
<1>4. /\ tasks'[t].status = "PENDING" /\ tasks'[t].attempts = tasks[t].attempts
      /\ \A u \in Task \ {t} : tasks'[u] = tasks[u]
  <2>1. [tasks[t] EXCEPT !.truth = "QUEUED"].status = tasks[t].status
        /\ [tasks[t] EXCEPT !.truth = "QUEUED"].attempts = tasks[t].attempts
    BY <1>3 DEF TaskRow
  <2>2. QED
    BY <1>2, <1>3, <2>1
<1>5. BudgetKept(tasks', launches)
  BY <1>3, <1>4, BudgetSameAttempts
<1>6. FuturesUpToDate(pool'[p], tasks', leases', launches')
  BY <1>2, <1>3, <1>4 DEF FuturesUpToDate
<1>7. CoordUpToDate(proc'[p], pool'[p], tasks', leases')
  BY <1>2, <1>3, <1>4 DEF CoordUpToDate
<1>8. QED
  BY <1>2, <1>3, <1>5, <1>6, <1>7, CoordLocal DEF CoordKeeps, ParPC

\* A lease is taken only for a task that is PENDING, so without a future.
LEMMA CoordAcquire ==
    ASSUME OneProcess, ParShape, SoloInv, CoordInv, NEW p \in Proc, AcquireLease(p)
    PROVE  SoloInv' /\ CoordInv'
<1>1. ParTypeOK
  BY DEF ParShape
<1>2. PICK t \in proc[p].todo :
         /\ CoordKeeps(p)
         /\ proc[p].pc = "pfill" /\ proc'[p].pc = "pstart" /\ proc'[p].cur = t
         /\ proc'[p].todo = proc[p].todo \ {t}
         /\ proc'[p].snap = proc[p].snap
         /\ pool'[p] = pool[p]
         /\ ~LaneFull(t)
         /\ leases' = [leases EXCEPT ![t] = clock + LeaseTime]
         /\ UNCHANGED <<goal, tasks, clock, launches, ranOk, gatesPassed>>
  BY <1>1, AcquireEffect
<1>3. /\ leases \in [Task -> Nat] /\ BudgetKept(tasks, launches)
      /\ \A u \in proc[p].todo : tasks[u].status = "PENDING" /\ proc[p].snap[u] = tasks[u]
      /\ t \in Task /\ proc[p].todo \subseteq Task
      /\ FuturesUpToDate(pool[p], tasks, leases, launches)
      /\ goal.truth # "VERIFIED_SUCCESS"
  BY <1>2, CoordFacts DEF ParFacts, CoordUpToDate, ParPC, ProcState
<1>4. \A u \in Task \ {t} : leases'[u] = leases[u]
  BY <1>2, <1>3
<1>5. FuturesUpToDate(pool'[p], tasks', leases', launches')
  BY <1>2, <1>3, <1>4 DEF FuturesUpToDate
<1>6. CoordUpToDate(proc'[p], pool'[p], tasks', leases')
  BY <1>2, <1>3 DEF CoordUpToDate
<1>7. QED
  BY <1>2, <1>3, <1>5, <1>6, CoordLocal DEF CoordKeeps, ParPC

\* The submitted task has one more attempt, not yet used.
LEMMA CoordSubmit ==
    ASSUME OneProcess, ParShape, SoloInv, CoordInv, NEW p \in Proc, Submit(p)
    PROVE  SoloInv' /\ CoordInv'
<1> DEFINE row == Row("RUNNING", "RUNNING", proc[p].snap[proc[p].cur].attempts + 1)
<1>1. ParTypeOK
  BY DEF ParShape
<1>2. /\ proc[p].cur \in Task \ proc[p].todo
      /\ tasks[proc[p].cur].status = "PENDING"
      /\ proc[p].snap[proc[p].cur] = tasks[proc[p].cur]
      /\ \A u \in proc[p].todo : tasks[u].status = "PENDING" /\ proc[p].snap[u] = tasks[u]
      /\ proc[p].todo \subseteq Task
      /\ launches \in [Task -> Nat] /\ tasks \in [Task -> TaskRow]
      /\ pool[p] \in PoolState
      /\ BudgetKept(tasks, launches)
      /\ FuturesUpToDate(pool[p], tasks, leases, launches)
      /\ goal.truth # "VERIFIED_SUCCESS"
  BY CoordFacts DEF ParFacts, CoordUpToDate, ParPC, ProcState, Submit, At
<1>3. /\ CoordKeeps(p)
      /\ proc[p].pc = "pstart" /\ proc'[p].pc = "pfill"
      /\ proc'[p].todo = proc[p].todo
      /\ proc'[p].snap = proc[p].snap
      /\ row \in TaskRow
      /\ tasks' = [tasks EXCEPT ![proc[p].cur] = row]
      /\ pool'[p].futures = [pool[p].futures EXCEPT ![proc[p].cur] = "running"]
      /\ pool'[p].rows = [pool[p].rows EXCEPT ![proc[p].cur] = row]
      /\ UNCHANGED <<goal, leases, clock, launches, ranOk, gatesPassed>>
  BY <1>1, <1>2, SubmitEffect
<1>4. row.status = "RUNNING" /\ row.attempts = tasks[proc[p].cur].attempts + 1
  BY <1>2 DEF Row
<1> HIDE DEF row
<1>5. BudgetKept(tasks', launches) /\ launches[proc[p].cur] < tasks'[proc[p].cur].attempts
  BY <1>2, <1>3, <1>4, StartBudget
<1>6. /\ tasks'[proc[p].cur] = row /\ pool'[p].rows[proc[p].cur] = row
      /\ pool'[p].futures[proc[p].cur] = "running"
      /\ \A u \in Task \ {proc[p].cur} : /\ tasks'[u] = tasks[u]
                                         /\ pool'[p].rows[u] = pool[p].rows[u]
                                         /\ pool'[p].futures[u] = pool[p].futures[u]
  BY <1>2, <1>3 DEF PoolState
<1>7. FuturesUpToDate(pool'[p], tasks', leases', launches')
  <2>1. leases' = leases /\ launches' = launches
    BY <1>3
  <2> SUFFICES ASSUME NEW u \in Task
               PROVE  /\ pool'[p].futures[u] # "none" =>
                            tasks'[u].status = "RUNNING" /\ pool'[p].rows[u] = tasks'[u]
                      /\ pool'[p].futures[u] = "running" => launches[u] < tasks'[u].attempts
                      /\ pool'[p].futures[u] = "none" /\ pool'[p].rows[u].status = "RUNNING" =>
                            leases[u] = NoLease /\ tasks'[u].status \in {"COMPLETED", "FAILED"}
    BY <2>1 DEF FuturesUpToDate
  <2>2. CASE u = proc[p].cur
    BY <1>4, <1>5, <1>6, <2>2
  <2>3. CASE u # proc[p].cur
    BY <1>2, <1>6, <2>3 DEF FuturesUpToDate
  <2>4. QED
    BY <2>2, <2>3
<1>8. CoordUpToDate(proc'[p], pool'[p], tasks', leases')
  BY <1>2, <1>3, <1>6 DEF CoordUpToDate
<1>9. QED
  BY <1>2, <1>3, <1>5, <1>7, <1>8, CoordLocal DEF CoordKeeps, ParPC

\* The coordinator returns, or has futures to wait for.
LEMMA CoordEndFill ==
    ASSUME OneProcess, ParShape, SoloInv, CoordInv, NEW p \in Proc, EndFill(p)
    PROVE  SoloInv' /\ CoordInv'
<1>1. ParTypeOK /\ proc \in [Proc -> ProcState]
  BY DEF ParShape, ParTypeOK, TypeOK
<1>2. /\ proc[p].pc = "pfill"
      /\ \/ /\ Conclude(p, "BLOCKED", "QUEUED")
            /\ pool' = [pool EXCEPT ![p] = IdlePool]
         \/ /\ CoordKeeps(p)
            /\ proc'[p].pc = "pwait"
            /\ proc'[p].snap = proc[p].snap
            /\ pool'[p] = pool[p]
      /\ UNCHANGED <<goal, tasks, leases, clock, launches, ranOk, gatesPassed>>
  BY <1>1, EndFillEffect
<1>3. /\ goal.truth # "VERIFIED_SUCCESS" /\ BudgetKept(tasks', launches')
      /\ FuturesUpToDate(pool[p], tasks', leases', launches')
  BY <1>2, CoordFacts DEF ParPC
<1>4. CASE Conclude(p, "BLOCKED", "QUEUED") /\ pool' = [pool EXCEPT ![p] = IdlePool]
  <2>1. SoloInv'
    BY <1>1, <1>2, <1>3, <1>4, SoloConclude
  <2>2. pool'[p] = IdlePool /\ proc'[p].pc \in {"idle", "finish", "verify"}
    BY <1>4, EndShape DEF GoalStatus, TruthStatus
  <2>3. QED
    BY <2>1, <2>2, CoordEnd DEF ParPC
<1>5. CASE CoordKeeps(p) /\ proc'[p].pc = "pwait" /\ pool'[p] = pool[p]
  <2>1. CoordUpToDate(proc'[p], pool'[p], tasks', leases')
    BY <1>5 DEF CoordUpToDate
  <2>2. FuturesUpToDate(pool'[p], tasks', leases', launches')
    BY <1>3, <1>5
  <2>3. QED
    BY <1>2, <1>3, <1>5, <2>1, <2>2, CoordLocal DEF CoordKeeps, ParPC
<1>6. QED
  BY <1>2, <1>4, <1>5

\* The batch is formed.
LEMMA CoordWait ==
    ASSUME OneProcess, ParShape, SoloInv, CoordInv, NEW p \in Proc, Wait(p)
    PROVE  SoloInv' /\ CoordInv'
<1>1. ParTypeOK
  BY DEF ParShape
<1>2. /\ CoordKeeps(p)
      /\ proc[p].pc = "pwait" /\ proc'[p].pc = "prelease"
      /\ proc'[p].snap = proc[p].snap
      /\ pool'[p].futures = pool[p].futures /\ pool'[p].rows = pool[p].rows
      /\ pool'[p].batch = Done(pool[p])
      /\ UNCHANGED <<goal, tasks, leases, clock, launches, ranOk, gatesPassed>>
  BY <1>1, WaitEffect
<1>3. /\ goal.truth # "VERIFIED_SUCCESS" /\ BudgetKept(tasks', launches')
      /\ FuturesUpToDate(pool[p], tasks, leases, launches)
  BY <1>2, CoordFacts DEF ParPC
<1>4. FuturesUpToDate(pool'[p], tasks', leases', launches')
  BY <1>2, <1>3 DEF FuturesUpToDate
<1>5. CoordUpToDate(proc'[p], pool'[p], tasks', leases')
  BY <1>2 DEF CoordUpToDate
<1>6. QED
  BY <1>2, <1>3, <1>4, <1>5, CoordLocal DEF CoordKeeps, ParPC

\* A finished future loses its lease before its result is recorded.
LEMMA CoordRelease ==
    ASSUME OneProcess, ParShape, SoloInv, CoordInv, NEW p \in Proc, ReleaseLease(p)
    PROVE  SoloInv' /\ CoordInv'
<1>1. ParTypeOK
  BY DEF ParShape
<1>2. PICK t \in pool[p].batch :
         /\ CoordKeeps(p)
         /\ proc[p].pc = "prelease" /\ proc'[p].pc = "precord" /\ proc'[p].cur = t
         /\ proc'[p].snap = proc[p].snap
         /\ pool'[p].futures = pool[p].futures /\ pool'[p].rows = pool[p].rows
         /\ pool'[p].batch = pool[p].batch \ {t}
         /\ leases' = [leases EXCEPT ![t] = NoLease]
         /\ UNCHANGED <<goal, tasks, clock, launches, ranOk, gatesPassed>>
  BY <1>1, ReleaseEffect
<1>3. /\ goal.truth # "VERIFIED_SUCCESS" /\ BudgetKept(tasks', launches')
      /\ FuturesUpToDate(pool[p], tasks, leases, launches)
      /\ leases \in [Task -> Nat] /\ t \in Task
  BY <1>2, CoordFacts DEF ParPC, ParFacts, PoolState
<1>4. leases'[t] = NoLease /\ \A u \in Task \ {t} : leases'[u] = leases[u]
  BY <1>2, <1>3
<1>5. FuturesUpToDate(pool'[p], tasks', leases', launches')
  BY <1>2, <1>3, <1>4 DEF FuturesUpToDate
<1>6. CoordUpToDate(proc'[p], pool'[p], tasks', leases')
  BY <1>2, <1>4 DEF CoordUpToDate
<1>7. QED
  BY <1>2, <1>3, <1>5, <1>6, CoordLocal DEF CoordKeeps, ParPC

\* The recorded result has the attempts of the submitted row, which is still
\* the stored one.
LEMMA CoordRecord ==
    ASSUME OneProcess, ParShape, SoloInv, CoordInv, NEW p \in Proc, RecordFuture(p)
    PROVE  SoloInv' /\ CoordInv'
<1>1. ParTypeOK
  BY DEF ParShape
<1>2. /\ proc[p].cur \in Done(pool[p]) /\ leases[proc[p].cur] = NoLease
      /\ goal.truth # "VERIFIED_SUCCESS" /\ BudgetKept(tasks, launches)
      /\ FuturesUpToDate(pool[p], tasks, leases, launches)
      /\ tasks \in [Task -> TaskRow] /\ pool[p] \in PoolState
  BY CoordFacts DEF ParFacts, PoolFits, CoordUpToDate, ParPC, RecordFuture, At
<1>3. proc[p].cur \in Task /\ pool[p].futures[proc[p].cur] # "none"
  BY <1>2 DEF Done
<1>4. /\ CoordKeeps(p)
      /\ proc[p].pc = "precord" /\ proc'[p].pc \in {"pblockread", "pscan", "prelease"}
      /\ proc'[p].snap = proc[p].snap
      /\ FutureRow(p, proc[p].cur) \in TaskRow
      /\ tasks' = [tasks EXCEPT ![proc[p].cur] = FutureRow(p, proc[p].cur)]
      /\ pool'[p].futures = [pool[p].futures EXCEPT ![proc[p].cur] = "none"]
      /\ pool'[p].rows = pool[p].rows
      /\ pool'[p].batch = pool[p].batch
      /\ UNCHANGED <<goal, leases, clock, launches, ranOk, gatesPassed>>
  BY <1>1, <1>3, RecordEffect
<1>5. tasks[proc[p].cur].status = "RUNNING" /\ pool[p].rows[proc[p].cur] = tasks[proc[p].cur]
  BY <1>2, <1>3 DEF FuturesUpToDate
<1>6. /\ FutureRow(p, proc[p].cur).status \in {"COMPLETED", "FAILED"}
      /\ FutureRow(p, proc[p].cur).attempts = tasks[proc[p].cur].attempts
  BY <1>5 DEF FutureRow, Row
<1>7. /\ tasks'[proc[p].cur] = FutureRow(p, proc[p].cur)
      /\ pool'[p].futures[proc[p].cur] = "none"
      /\ \A u \in Task \ {proc[p].cur} : /\ tasks'[u] = tasks[u]
                                         /\ pool'[p].futures[u] = pool[p].futures[u]
  BY <1>2, <1>3, <1>4 DEF PoolState
<1>8. BudgetKept(tasks', launches)
  <2>1. \A u \in Task : /\ tasks'[u].attempts = tasks[u].attempts
                        /\ tasks'[u].status = "PENDING" => tasks[u].status = "PENDING"
    BY <1>6, <1>7
  <2>2. QED
    BY <1>2, <2>1, BudgetSameAttempts
<1>9. FuturesUpToDate(pool'[p], tasks', leases', launches')
  <2>1. leases' = leases /\ launches' = launches /\ pool'[p].rows = pool[p].rows
    BY <1>4
  <2> SUFFICES ASSUME NEW u \in Task
               PROVE  /\ pool'[p].futures[u] # "none" =>
                            tasks'[u].status = "RUNNING" /\ pool'[p].rows[u] = tasks'[u]
                      /\ pool'[p].futures[u] = "running" => launches[u] < tasks'[u].attempts
                      /\ pool'[p].futures[u] = "none" /\ pool'[p].rows[u].status = "RUNNING" =>
                            leases[u] = NoLease /\ tasks'[u].status \in {"COMPLETED", "FAILED"}
    BY <2>1 DEF FuturesUpToDate
  <2>2. CASE u = proc[p].cur
    BY <1>2, <1>6, <1>7, <2>2
  <2>3. CASE u # proc[p].cur
    BY <1>2, <1>7, <2>1, <2>3 DEF FuturesUpToDate
  <2>4. QED
    BY <2>2, <2>3
<1>10. CoordUpToDate(proc'[p], pool'[p], tasks', leases')
  BY <1>4 DEF CoordUpToDate
<1>11. QED
  BY <1>2, <1>4, <1>8, <1>9, <1>10, CoordLocal DEF CoordKeeps, ParPC

\* The propagated failure touches only rows that are PENDING.
LEMMA CoordSavePropagated ==
    ASSUME OneProcess, ParShape, SoloInv, CoordInv, NEW p \in Proc, ParSavePropagated(p)
    PROVE  SoloInv' /\ CoordInv'
<1>1. ParTypeOK
  BY DEF ParShape
<1>2. /\ CoordKeeps(p)
      /\ proc[p].pc = "pblocksave" /\ proc'[p].pc \in {"pscan", "prelease"}
      /\ proc'[p].snap = proc[p].snap
      /\ SaveTasks(proc[p].todo, proc[p].snap)
      /\ pool'[p] = pool[p]
      /\ UNCHANGED <<goal, leases, clock, launches, ranOk, gatesPassed>>
  BY <1>1, SavePropagatedEffect
<1>3. /\ tasks \in [Task -> TaskRow] /\ BudgetKept(tasks, launches)
      /\ proc[p].todo = NewlyBlocked(DependsOn, tasks)
      /\ proc[p].snap = PropagateFailures(DependsOn, tasks)
      /\ FuturesUpToDate(pool[p], tasks, leases, launches)
      /\ goal.truth # "VERIFIED_SUCCESS"
  BY <1>2, CoordFacts DEF ParFacts, CoordUpToDate, ParPC
<1>4. /\ BudgetKept(tasks', launches)
      /\ \A t \in Task : tasks[t].status # "PENDING" => tasks'[t] = tasks[t]
  BY <1>2, <1>3, PropagatedBudget
<1>5. FuturesUpToDate(pool'[p], tasks', leases', launches')
  BY <1>2, <1>3, <1>4 DEF FuturesUpToDate
<1>6. CoordUpToDate(proc'[p], pool'[p], tasks', leases')
  BY <1>2 DEF CoordUpToDate
<1>7. QED
  BY <1>2, <1>3, <1>4, <1>5, <1>6, CoordLocal DEF CoordKeeps, ParPC

\* The call ends, or goes on to verify_goal: no claim is made by the rows alone.
LEMMA CoordDecide ==
    ASSUME OneProcess, ParShape, SoloInv, CoordInv, NEW p \in Proc, ParDecide(p)
    PROVE  SoloInv' /\ CoordInv'
<1>1. TypeOK /\ proc \in [Proc -> ProcState]
  BY DEF ParShape, ParTypeOK, TypeOK
<1>2. /\ pool' = [pool EXCEPT ![p] = IdlePool] /\ proc[p].pc = "pconclude"
      /\ UNCHANGED <<goal, tasks, leases, clock, launches, ranOk, gatesPassed>>
  BY DecideEnds
<1>3. PICK status \in GoalStatus, truth \in TruthStatus :
        \/ Conclude(p, status, truth) /\ truth # "VERIFIED_SUCCESS"
        \/ proc[p].pc = "pconclude" /\ proc' = [proc EXCEPT ![p].pc = "verify"]
  BY DecideEnds DEF GoalStatus, TruthStatus
<1>4. goal'.truth # "VERIFIED_SUCCESS" /\ BudgetKept(tasks', launches')
  BY <1>2, CoordFacts DEF ParPC
<1>5. SoloInv'
  <2>1. CASE Conclude(p, status, truth) /\ truth # "VERIFIED_SUCCESS"
    BY <1>1, <1>4, <2>1, SoloConclude
  <2>2. CASE proc' = [proc EXCEPT ![p].pc = "verify"]
    BY <1>1, <1>2, <1>4, <2>2, SoloMove
  <2>3. QED
    BY <1>3, <2>1, <2>2
<1>6. pool'[p] = IdlePool /\ proc'[p].pc \in {"idle", "finish", "verify"}
  BY <1>2, <1>3, EndShape
<1>7. QED
  BY <1>5, <1>6, CoordEnd DEF ParPC

\* A crash leaves nothing in memory.
LEMMA CoordCrash ==
    ASSUME OneProcess, ParShape, SoloInv, CoordInv, NEW p \in Proc, ParCrash(p)
    PROVE  SoloInv' /\ CoordInv'
<1>1. TypeOK
  BY DEF ParShape, ParTypeOK
<1>2. SoloInv'
  BY <1>1, SoloStep DEF Next, ParCrash
<1>3. pool'[p] = IdlePool /\ proc'[p].pc \in {"idle", "finish", "verify"}
  BY EndShape DEF ParCrash, Crash, GoalStatus, TruthStatus
<1>4. QED
  BY <1>2, <1>3, CoordEnd DEF ParPC

\* A call begins with nothing remembered.
LEMMA CoordCall ==
    ASSUME OneProcess, ParShape, SoloInv, CoordInv, NEW p \in Proc, CallParallel(p)
    PROVE  SoloInv' /\ CoordInv'
<1>1. ParTypeOK /\ proc \in [Proc -> ProcState]
  BY DEF ParShape, ParTypeOK, TypeOK
<1>2. /\ proc' \in [Proc -> ProcState] /\ pool' \in [Proc -> PoolState]
      /\ OthersAsBefore(p)
      /\ proc[p].pc = "idle" /\ proc'[p].pc = "enter"
      /\ proc'[p].verdict = proc[p].verdict /\ proc'[p].snap = proc[p].snap
      /\ pool'[p] = pool[p]
      /\ UNCHANGED <<goal, tasks, leases, clock, launches, ranOk, gatesPassed>>
  BY <1>1, CallEffect
<1>3. PICK r : r = proc'[p]
  OBVIOUS
<1>4. proc' = [proc EXCEPT ![p] = r]
  BY <1>1, <1>2, <1>3 DEF OthersAsBefore
<1>5. UpToDate(r, tasks', launches')
  BY <1>2, <1>3, NothingToUpdate
<1>6. FreshGates(r, goal', gatesPassed') /\ BudgetKept(tasks', launches')
  BY <1>2, <1>3 DEF FreshGates, SoloInv
<1>7. SoloInv'
  BY <1>1, <1>4, <1>5, <1>6, SoloMemory
<1>8. pool'[p] = IdlePool
  BY <1>2 DEF ParShape, PoolFits, ParPC
<1>9. QED
  BY <1>2, <1>7, <1>8, CoordEnd DEF ParPC

\* A worker uses the attempt its task was saved with, once.
LEMMA CoordWork ==
    ASSUME OneProcess, ParShape, SoloInv, CoordInv, NEW p \in Proc, NEW t \in Task, Work(p, t)
    PROVE  SoloInv' /\ CoordInv'
<1>1. PICK outcome \in {"success", "failure", "simulated"} :
           /\ proc' = proc /\ pool' \in [Proc -> PoolState]
           /\ OthersAsBefore(p)
           /\ pool[p].futures[t] = "running"
           /\ pool'[p].futures = [pool[p].futures EXCEPT ![t] = outcome]
           /\ pool'[p].rows = pool[p].rows /\ pool'[p].batch = pool[p].batch
           /\ \/ /\ proc[p].execute
                 /\ launches' = [launches EXCEPT ![t] = @ + 1]
                 /\ gatesPassed' = IF gatesPassed = "never" THEN "never" ELSE "stale"
                 /\ ranOk' = IF outcome = "success" THEN ranOk \cup {t} ELSE ranOk
              \/ /\ outcome = "simulated"
                 /\ UNCHANGED <<launches, gatesPassed, ranOk>>
           /\ UNCHANGED <<goal, tasks, leases, clock>>
  BY WorkEffect, Zenon DEF ParShape
<1>2. proc[p].pc \in ParPC
  <2>1. pool[p] # IdlePool
    BY <1>1 DEF IdlePool
  <2>2. QED
    BY <2>1 DEF ParShape, PoolFits
<1>3. /\ CoordUpToDate(proc[p], pool[p], tasks, leases)
      /\ FuturesUpToDate(pool[p], tasks, leases, launches)
      /\ goal.truth # "VERIFIED_SUCCESS" /\ BudgetKept(tasks, launches)
      /\ launches \in [Task -> Nat] /\ tasks \in [Task -> TaskRow] /\ pool[p] \in PoolState
      /\ proc \in [Proc -> ProcState]
  BY <1>2, CoordFacts DEF ParFacts
<1>4. launches[t] < tasks[t].attempts /\ tasks[t].status = "RUNNING"
      /\ launches[t] \in Nat /\ tasks[t].attempts \in Nat
  BY <1>1, <1>3 DEF FuturesUpToDate, TaskRow
<1>5. /\ pool'[p].futures[t] = outcome
      /\ \A u \in Task \ {t} : /\ pool'[p].futures[u] = pool[p].futures[u]
                               /\ launches'[u] = launches[u]
  BY <1>1, <1>3 DEF PoolState
<1>6. launches'[t] <= tasks[t].attempts
  BY <1>1, <1>3, <1>4
<1>7. BudgetKept(tasks', launches')
  <2>1. \A u \in Task : launches'[u] <= tasks[u].attempts
    BY <1>3, <1>5, <1>6 DEF BudgetKept
  <2>2. tasks' = tasks
    BY <1>1
  <2>3. QED
    BY <1>3, <2>1, <2>2 DEF BudgetKept
<1>8. FuturesUpToDate(pool'[p], tasks', leases', launches')
  <2>1. tasks' = tasks /\ leases' = leases /\ pool'[p].rows = pool[p].rows
        /\ outcome \notin {"none", "running"} /\ pool[p].futures[t] = "running"
    BY <1>1
  <2>2. QED
    BY <1>3, <1>5, <2>1 DEF FuturesUpToDate
<1>9. CoordUpToDate(proc'[p], pool'[p], tasks', leases')
  <2>1. proc' = proc /\ tasks' = tasks /\ leases' = leases
    BY <1>1
  <2>2. proc[p].pc # "pconclude"
    BY <1>1, <1>3 DEF CoordUpToDate
  <2>3. QED
    BY <1>3, <2>1, <2>2 DEF CoordUpToDate
<1>10. QED
  BY <1>1, <1>2, <1>3, <1>7, <1>8, <1>9, CoordLocal

\* Every step of the only process keeps both invariants.
LEMMA CoordStep ==
    OneProcess /\ ParShape /\ SoloInv /\ CoordInv /\ [ParNext]_parVars => SoloInv' /\ CoordInv'
<1> SUFFICES ASSUME OneProcess, ParShape, SoloInv, CoordInv, [ParNext]_parVars
             PROVE  SoloInv' /\ CoordInv'
  OBVIOUS
<1>1. CASE Tick \/ UNCHANGED parVars
  <2>1. UNCHANGED <<goal, tasks, leases, proc, launches, gatesPassed, pool>>
    BY <1>1 DEF Tick, parVars, procVars, history
  <2>2. QED
    BY <2>1 DEF SoloInv, CoordInv
<1>2. QED
  BY <1>1, CoordProgress, CoordCall, CoordRead, CoordSaveBlocked, CoordQueue, CoordAcquire,
     CoordSubmit, CoordEndFill, CoordWait, CoordRelease, CoordRecord, CoordSavePropagated,
     CoordDecide, CoordCrash, CoordWork DEF ParNext, ParStep

\* A goal just created: nothing is attempted, remembered or in flight.
LEMMA CoordInit == ParInit => SoloInv /\ CoordInv
<1> SUFFICES ASSUME ParInit PROVE SoloInv /\ CoordInv
  OBVIOUS
<1>1. SoloInv
  BY SoloInit DEF ParInit
<1>2. ASSUME NEW p \in Proc
      PROVE  /\ CoordUpToDate(proc[p], pool[p], tasks, leases)
             /\ FuturesUpToDate(pool[p], tasks, leases, launches)
             /\ proc[p].pc \notin ParPC
  <2>1. proc[p].pc = "idle" /\ pool[p] = IdlePool
    BY DEF ParInit, Init, IdleProc
  <2>2. QED
    BY <2>1, IdleFutures DEF ParPC
<1>3. QED
  BY <1>1, <1>2 DEF CoordInv

\* With one process, which may crash and start again: what run_goal_parallel
\* remembers agrees with the store, every future with its row, and a recorded
\* future has neither lease nor RUNNING row.
THEOREM CoordInvCorrect == ASSUME OneProcess PROVE ParSpec => [](SoloInv /\ CoordInv)
<1>1. ParShape /\ (SoloInv /\ CoordInv) /\ [ParNext]_parVars => (SoloInv /\ CoordInv)'
  BY CoordStep
<1>2. ParInit => SoloInv /\ CoordInv
  BY CoordInit
<1>3. QED
  BY <1>1, <1>2, ParShapeCorrect, PTL DEF ParSpec

\* run_goal_parallel leaves its loop only when no stored task is ready, though
\* its rows were read before the last results were saved.
THEOREM NoReadyTaskMissedHolds == ASSUME OneProcess PROVE ParSpec => []NoReadyTaskMissed
<1>1. CoordInv => NoReadyTaskMissed
  BY DEF CoordInv, CoordUpToDate, ReadyIn, NoReadyTaskMissed, At
<1>2. QED
  BY <1>1, CoordInvCorrect, PTL

\* When it decides, every task it submitted has its result and no lease.
THEOREM NothingLeftRunningHolds == ASSUME OneProcess PROVE ParSpec => []NothingLeftRunning
<1>1. CoordInv => NothingLeftRunning
  <2> SUFFICES ASSUME CoordInv, NEW p \in Proc, proc[p].pc = "pconclude", NEW t \in Task,
                      pool[p].rows[t].status = "RUNNING"
               PROVE  leases[t] = NoLease /\ tasks[t].status \in {"COMPLETED", "FAILED"}
    BY DEF NothingLeftRunning, At
  <2>1. pool[p].futures[t] = "none"
    BY DEF CoordInv, CoordUpToDate
  <2>2. QED
    BY <2>1 DEF CoordInv, FuturesUpToDate
<1>2. QED
  BY <1>1, CoordInvCorrect, PTL

\* A command that must not be repeated is started once at most, by the pool,
\* by run_goal or after resume_goal.
THEOREM ParNoRepeatedSideEffectHolds ==
    ASSUME OneProcess PROVE ParSpec => []NoRepeatedSideEffect
<1>1. ParTypeOK /\ SoloInv => NoRepeatedSideEffect
  BY DEF ParTypeOK, TypeOK, StoreTypeOK, TaskRow, SoloInv, BudgetKept, NoRepeatedSideEffect
<1>2. QED
  BY <1>1, CoordInvCorrect, ParTypeCorrect, PTL

\* Others are started at most as often as every budget allows, in parallel too.
THEOREM ParRetryWithinBudgetHolds == ASSUME OneProcess PROVE ParSpec => []RetryWithinBudget
<1>1. ParTypeOK => TypeOK
  BY DEF ParTypeOK
<1>2. QED
  BY <1>1, PaidStarts, CoordInvCorrect, ParTypeCorrect, PTL

\* VERIFIED_SUCCESS rests on gates that ran after the last worker's command.
THEOREM ParGatesAfterWorkHolds == ASSUME OneProcess PROVE ParSpec => []GatesAfterWork
<1>1. SoloInv => GatesAfterWork
  BY DEF SoloInv, GatesAfterWork
<1>2. QED
  BY <1>1, CoordInvCorrect, PTL

\* No step of either loop changes a COMPLETED row.
LEMMA ParCompletedStep ==
    ASSUME ParShape, SoloInv, CoordInv, [ParNext]_parVars,
           NEW t \in Task, tasks[t].status = "COMPLETED"
    PROVE  tasks'[t] = tasks[t]
<1> USE DEF storeVars, procVars, history
<1>a. ASSUME NEW p \in Proc
      PROVE  /\ CoordUpToDate(proc[p], pool[p], tasks, leases)
             /\ FuturesUpToDate(pool[p], tasks, leases, launches)
             /\ PoolFits(proc[p], pool[p])
             /\ tasks \in [Task -> TaskRow]
  BY <1>a, CoordFacts DEF ParFacts
<1>1. ASSUME Progress \/ \E p \in Proc : ParCrash(p) PROVE tasks'[t] = tasks[t]
  BY <1>1, CompletedStep DEF Next, ParCrash, ParShape, ParTypeOK
<1>2. ASSUME NEW p \in Proc, ParSaveBlocked(p) \/ ParSavePropagated(p)
      PROVE  tasks'[t] = tasks[t]
  <2>1. proc[p].todo = NewlyBlocked(DependsOn, tasks)
    BY <1>2, <1>a DEF ParSaveBlocked, ParSavePropagated, At, CoordUpToDate
  <2>2. t \notin proc[p].todo
    BY <2>1, BlockedArePending
  <2>3. QED
    BY <1>2, <2>2 DEF ParSaveBlocked, ParSavePropagated, SaveTasks
<1>3. ASSUME NEW p \in Proc, Queue(p) PROVE tasks'[t] = tasks[t]
  <2>1. PICK u \in proc[p].todo : tasks' = tasks \/ \E row : tasks' = [tasks EXCEPT ![u] = row]
    BY <1>3 DEF Queue
  <2>2. tasks[u].status = "PENDING"
    BY <1>3, <1>a DEF Queue, At, CoordUpToDate
  <2>3. QED
    BY <1>a, <2>1, <2>2
<1>4. ASSUME NEW p \in Proc, Submit(p) \/ RecordFuture(p) PROVE tasks'[t] = tasks[t]
  <2>1. tasks[proc[p].cur].status \in {"PENDING", "RUNNING"}
    BY <1>4, <1>a DEF Submit, RecordFuture, At, CoordUpToDate, FuturesUpToDate, PoolFits, Done
  <2>2. PICK row : tasks' = [tasks EXCEPT ![proc[p].cur] = row]
    BY <1>4 DEF Submit, RecordFuture
  <2>3. QED
    BY <1>a, <2>1, <2>2
<1>5. ASSUME NEW p \in Proc,
             \/ CallParallel(p) \/ ParScan(p) \/ AcquireLease(p) \/ EndFill(p) \/ Wait(p)
             \/ ReleaseLease(p) \/ ParReadForBlocking(p) \/ ParDecide(p)
             \/ \E u \in Task : Work(p, u)
      PROVE  tasks' = tasks
  BY <1>5, Zenon DEF CallParallel, Call, ParScan, AcquireLease, EndFill, Wait, ReleaseLease,
                     ParReadForBlocking, ParDecide, Work
<1>6. Tick \/ UNCHANGED parVars => tasks' = tasks
  BY DEF Tick, parVars
<1>7. QED
  BY <1>1, <1>2, <1>3, <1>4, <1>5, <1>6 DEF ParNext, ParStep

\* No save of run_goal_parallel takes the result of a completed task back.
THEOREM ParCompletedIsFinalHolds == ASSUME OneProcess PROVE ParSpec => CompletedIsFinal
<1>1. ParShape /\ (SoloInv /\ CoordInv) /\ [ParNext]_parVars
        => [\A t \in Task : tasks[t].status = "COMPLETED" => tasks'[t] = tasks[t]]_vars
  BY ParCompletedStep
<1>2. QED
  BY <1>1, CoordInvCorrect, ParShapeCorrect, PTL DEF ParSpec, CompletedIsFinal
=============================================================================
