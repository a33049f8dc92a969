---------------------------- MODULE GoalRunProofs ----------------------------
(***************************************************************************)
(* Proofs about GoalRun for any task graph, any number of processes and    *)
(* any bounds: type correctness, and the two properties that survive       *)
(* concurrent writers, VerifiedTruth and RealWorkOnRealWork.  With one     *)
(* process at a time, OneProcess, which may crash and start again: the     *)
(* retry budgets, the freshness of the gates, that no ready task is left   *)
(* and that a result once recorded is never taken back.                    *)
(***************************************************************************)
EXTENDS GoalRun, TLAPS

(***************************************************************************)
(* The inductive invariant                                                 *)
(***************************************************************************)

\* Rows ts claim VERIFIED_SUCCESS only for tasks in done, and never
\* UNAVAILABLE, which ready_tasks would also accept of a dependency.
RowsOK(ts, done) ==
    \A t \in Task : /\ ts[t].truth # "UNAVAILABLE"
                    /\ ts[t].truth = "VERIFIED_SUCCESS" => t \in done

\* A goal row claims VERIFIED_SUCCESS only when the work of every task is
\* done and real gates have passed.
GoalRowOK(g, done, passed) ==
    g.truth = "VERIFIED_SUCCESS" => Task # {} /\ Task \subseteq done /\ passed # "never"

\* What one process r has in memory is no stronger than what has happened.
\* The tasks it may still start, and the one it executes, have dependencies
\* that are done, when it executes commands at all.
MemoryOK(r, done, passed) ==
    /\ RowsOK(r.snap, done)
    /\ GoalRowOK(r.verdict, done, passed)
    /\ r.pc \in {"exec", "record"} => r.cur \in Task
    /\ r.execute /\ r.pc \in {"pick", "exec", "record"} =>
           \A t \in r.todo : DependsOn[t] \subseteq done
    /\ r.execute /\ r.pc = "exec" => DependsOn[r.cur] \subseteq done
    /\ r.pc = "record" /\ r.ok /\ r.execute /\ r.cur \in HasCommand => r.cur \in done
    /\ r.pc = "judge" /\ r.ok /\ r.gates => passed # "never"

EvidenceInv ==
    /\ RowsOK(tasks, ranOk)
    /\ GoalRowOK(goal, ranOk, gatesPassed)
    /\ \A p \in Proc : MemoryOK(proc[p], ranOk, gatesPassed)
    /\ RealWorkOnRealWork

(***************************************************************************)
(* Type correctness                                                        *)
(***************************************************************************)

\* Propagation changes rows into rows.
LEMMA PropagateType ==
    ASSUME NEW ts \in [Task -> TaskRow], NEW deps
    PROVE  PropagateFailures(deps, ts) \in [Task -> TaskRow]
BY DEF PropagateFailures, TaskRow, TaskStatus, TruthStatus

\* Reconciliation changes rows into rows.
LEMMA ReconciledType ==
    ASSUME NEW ts \in [Task -> TaskRow], NEW ls, NEW now
    PROVE  Reconciled(ts, ls, now) \in [Task -> TaskRow]
<1>1. ASSUME NEW t \in Task PROVE ReconciledRow(t, ts[t]) \in TaskRow
  BY <1>1 DEF ReconciledRow, Row, TaskRow, TaskStatus, TruthStatus
<1>2. QED
  BY <1>1 DEF Reconciled

\* The labels of run_goal, resume_goal and verify_goal.
LEMMA Labels ==
    /\ "idle" \in PC /\ "reconcile" \in PC /\ "enter" \in PC /\ "announce" \in PC
    /\ "scan" \in PC /\ "pscan" \in PC /\ "pick" \in PC /\ "exec" \in PC /\ "record" \in PC
    /\ "blockread" \in PC /\ "blocksave" \in PC /\ "conclude" \in PC /\ "verify" \in PC
    /\ "mark" \in PC /\ "gates" \in PC /\ "judge" \in PC /\ "finish" \in PC
BY DEF PC

LEMMA IdleProcType == IdleProc \in ProcState
BY DEF IdleProc, ProcState, PC, Row, TaskRow, TaskStatus, TruthStatus, GoalIs, GoalRow, GoalStatus

\* Memory that differs from typed memory in typed fields is typed.
LEMMA MemoryType ==
    ASSUME NEW r \in ProcState, NEW label \in PC
    PROVE  /\ [r EXCEPT !.pc = label] \in ProcState
           /\ \A ok \in BOOLEAN : [r EXCEPT !.pc = label, !.ok = ok] \in ProcState
           /\ \A snap \in [Task -> TaskRow], todo \in SUBSET Task :
                 [r EXCEPT !.pc = label, !.snap = snap, !.todo = todo] \in ProcState
<1>1. [r EXCEPT !.pc = label] \in ProcState
  BY DEF ProcState
<1>2. ASSUME NEW ok \in BOOLEAN PROVE [r EXCEPT !.pc = label, !.ok = ok] \in ProcState
  BY <1>2 DEF ProcState
<1>3. ASSUME NEW snap \in [Task -> TaskRow], NEW todo \in SUBSET Task
      PROVE  [r EXCEPT !.pc = label, !.snap = snap, !.todo = todo] \in ProcState
  BY <1>3 DEF ProcState
<1>4. QED
  BY <1>1, <1>2, <1>3

\* The memory with which resume_goal begins.
LEMMA ResumeType ==
    ASSUME NEW r \in ProcState, NEW execute \in BOOLEAN, NEW gates \in BOOLEAN,
           NEW rows \in [Task -> TaskRow], NEW orphans \in SUBSET Task,
           NEW covered \in SUBSET Task
    PROVE  [r EXCEPT !.pc = "reconcile", !.execute = execute, !.gates = gates,
                     !.snap = rows, !.todo = orphans, !.leased = covered] \in ProcState
BY Labels DEF ProcState

\* The memory with which the command of task t is executed.
LEMMA StartType ==
    ASSUME NEW r \in ProcState, NEW t \in Task, NEW rows \in [Task -> TaskRow],
           NEW todo \in SUBSET Task
    PROVE  [r EXCEPT !.pc = "exec", !.cur = t, !.todo = todo, !.snap = rows] \in ProcState
BY Labels DEF ProcState

\* A process that only moves on to another label keeps its memory typed.
LEMMA MoveType ==
    ASSUME NEW p \in Proc, NEW label \in PC, proc \in [Proc -> ProcState],
           proc' = [proc EXCEPT ![p].pc = label]
    PROVE  proc' \in [Proc -> ProcState]
<1>1. proc' = [proc EXCEPT ![p] = [proc[p] EXCEPT !.pc = label]]
  OBVIOUS
<1>2. [proc[p] EXCEPT !.pc = label] \in ProcState
  BY MemoryType
<1>3. QED
  BY <1>1, <1>2

\* So does one that also notes how its command, or the pipeline, ended.
LEMMA OutcomeType ==
    ASSUME NEW p \in Proc, NEW label \in PC, NEW ok \in BOOLEAN,
           proc \in [Proc -> ProcState],
           proc' = [proc EXCEPT ![p].pc = label, ![p].ok = ok]
    PROVE  proc' \in [Proc -> ProcState]
<1>1. proc' = [proc EXCEPT ![p] = [proc[p] EXCEPT !.pc = label, !.ok = ok]]
  OBVIOUS
<1>2. [proc[p] EXCEPT !.pc = label, !.ok = ok] \in ProcState
  BY MemoryType
<1>3. QED
  BY <1>1, <1>2

\* A process about to save a goal row has its memory typed.
LEMMA ConcludeType ==
    ASSUME NEW p \in Proc, NEW status \in GoalStatus, NEW truth \in TruthStatus,
           proc \in [Proc -> ProcState], Conclude(p, status, truth)
    PROVE  proc' \in [Proc -> ProcState]
<1>1. [IdleProc EXCEPT !.pc = "finish", !.verdict = GoalIs(status, truth)] \in ProcState
  BY IdleProcType DEF ProcState, PC, GoalIs, GoalRow
<1>2. QED
  BY <1>1 DEF Conclude

LEMMA LeaveType ==
    ASSUME NEW p \in Proc, proc \in [Proc -> ProcState], Leave(p)
    PROVE  proc' \in [Proc -> ProcState]
BY IdleProcType DEF Leave

\* The rows of a process that searches for ready tasks are typed.
LEMMA ReadGraphType ==
    ASSUME NEW p \in Proc, NEW label \in PC, tasks \in [Task -> TaskRow],
           proc \in [Proc -> ProcState], ReadGraph(p, label)
    PROVE  proc' \in [Proc -> ProcState]
<1> DEFINE rows == PropagateFailures(DependsOn, tasks)
<1> DEFINE ready == ReadyTasks(DependsOn, rows, ~proc[p].execute)
<1>1. rows \in [Task -> TaskRow]
  BY PropagateType
<1>2. ready \in SUBSET Task
  BY DEF ReadyTasks
<1>3. proc' = [proc EXCEPT ![p].pc = label, ![p].snap = rows, ![p].todo = ready,
                          ![p].progressed = FALSE]
  BY DEF ReadGraph
<1> HIDE DEF rows, ready
<1> DEFINE r == [proc[p] EXCEPT !.pc = label, !.snap = rows, !.todo = ready,
                             !.progressed = FALSE]
<1>4. r \in ProcState
  BY <1>1, <1>2 DEF ProcState
<1>5. proc' = [proc EXCEPT ![p] = r]
  BY <1>3
<1>6. QED
  BY <1>4, <1>5

\* Saving some typed rows leaves every row typed.
LEMMA SaveTasksType ==
    ASSUME NEW S, NEW rows \in [Task -> TaskRow], tasks \in [Task -> TaskRow], SaveTasks(S, rows)
    PROVE  tasks' \in [Task -> TaskRow]
BY DEF SaveTasks

\* The row saved for the task just executed is typed.
LEMMA OutcomeRowType ==
    ASSUME NEW p \in Proc, proc \in [Proc -> ProcState], proc[p].cur \in Task
    PROVE  OutcomeRow(p) \in TaskRow
BY DEF OutcomeRow, ProcState, Row, TaskRow, TaskStatus, TruthStatus

\* The verdict of verify_goal is a goal row.
LEMMA VerdictType == ASSUME NEW p PROVE VerdictOf(p) \in GoalRow
BY DEF VerdictOf, GoalIs, GoalRow, GoalStatus, TruthStatus

\* No step takes a variable out of its type.
LEMMA TypeStep == TypeOK /\ [Next]_vars => TypeOK'
<1> SUFFICES ASSUME TypeOK, [Next]_vars PROVE TypeOK'
  OBVIOUS
<1> USE DEF TypeOK, StoreTypeOK, storeVars, procVars, history
<1>1. ASSUME NEW p \in Proc, NEW label \in {"enter", "verify"}, NEW execute \in BOOLEAN,
             NEW gates \in BOOLEAN, Call(p, label, 0, execute, gates)
      PROVE  TypeOK'
  <2> DEFINE r == [proc[p] EXCEPT !.pc = label, !.workers = 0, !.execute = execute,
                                  !.gates = gates]
  <2>1. r \in ProcState
    BY Labels DEF ProcState
  <2>2. proc' = [proc EXCEPT ![p] = r]
    BY <1>1 DEF Call
  <2>3. QED
    BY <1>1, <2>1, <2>2 DEF Call
<1>2. ASSUME NEW p \in Proc, CallResume(p) PROVE TypeOK'
  <2> DEFINE orphans == Orphans(tasks, leases, clock)
             rows == Reconciled(tasks, leases, clock)
             covered == {t \in orphans : leases[t] # NoLease}
  <2>1. orphans \in SUBSET Task /\ covered \in SUBSET Task /\ rows \in [Task -> TaskRow]
    BY ReconciledType DEF Orphans
  <2>2. PICK execute \in BOOLEAN, gates \in BOOLEAN :
          proc' = [proc EXCEPT ![p].pc = "reconcile", ![p].execute = execute,
                               ![p].gates = gates, ![p].snap = rows,
                               ![p].todo = orphans, ![p].leased = covered]
    BY <1>2 DEF CallResume
  <2> HIDE DEF orphans, covered, rows
  <2> DEFINE r == [proc[p] EXCEPT !.pc = "reconcile", !.execute = execute, !.gates = gates,
                                  !.snap = rows, !.todo = orphans, !.leased = covered]
  <2>3. r \in ProcState
    BY <2>1, ResumeType
  <2>4. proc' = [proc EXCEPT ![p] = r]
    BY <2>2
  <2>5. proc' \in [Proc -> ProcState]
    BY <2>3, <2>4
  <2>6. runs' = runs + 1 /\ UNCHANGED <<storeVars, refused, history>>
    BY <1>2 DEF CallResume
  <2>7. QED
    BY <2>5, <2>6
<1>3. ASSUME NEW p \in Proc, SaveReconciled(p) PROVE TypeOK'
  <2>1. proc[p].snap \in [Task -> TaskRow]
    BY DEF ProcState
  <2>2. tasks' \in [Task -> TaskRow]
    BY <1>3, <2>1, SaveTasksType DEF SaveReconciled
  <2>3. leases' \in [Task -> Nat]
    BY <1>3 DEF SaveReconciled, NoLease
  <2>4. proc' \in [Proc -> ProcState]
    <3> DEFINE r == [proc[p] EXCEPT !.pc = "enter", !.todo = {}, !.leased = {}]
    <3>1. CASE Conclude(p, "BLOCKED", "WAITING_APPROVAL")
      BY <3>1, ConcludeType DEF GoalStatus, TruthStatus
    <3>2. CASE proc' = [proc EXCEPT ![p].pc = "enter", ![p].todo = {}, ![p].leased = {}]
      <4>1. r \in ProcState
        BY Labels DEF ProcState
      <4>2. proc' = [proc EXCEPT ![p] = r]
        BY <3>2
      <4>3. QED
        BY <4>1, <4>2
    <3>3. QED
      BY <1>3, <3>1, <3>2 DEF SaveReconciled
  <2>5. QED
    BY <1>3, <2>2, <2>3, <2>4 DEF SaveReconciled
<1>4. ASSUME NEW p \in Proc, Enter(p) PROVE TypeOK'
  <2>1. proc' \in [Proc -> ProcState]
    BY <1>4, LeaveType, MoveType, Labels DEF Enter
  <2>2. QED
    BY <1>4, <2>1 DEF Enter
<1>5. ASSUME NEW p \in Proc, Announce(p) PROVE TypeOK'
  <2>1. proc' \in [Proc -> ProcState]
    BY <1>5, MoveType, Labels DEF Announce
  <2>2. QED
    BY <1>5, <2>1 DEF Announce, GoalIs, GoalRow, GoalStatus, TruthStatus
<1>6. ASSUME NEW p \in Proc, Scan(p) PROVE TypeOK'
  <2>1. proc' \in [Proc -> ProcState]
    BY <1>6, ReadGraphType, Labels DEF Scan
  <2>2. QED
    BY <1>6, <2>1 DEF Scan
<1>7. ASSUME NEW p \in Proc, StartTask(p) PROVE TypeOK'
  <2>1. PICK t \in proc[p].todo :
          LET row == Row("RUNNING", "RUNNING", proc[p].snap[t].attempts + 1)
          IN /\ tasks' = [tasks EXCEPT ![t] = row]
             /\ proc' = [proc EXCEPT ![p].pc = "exec", ![p].cur = t,
                                     ![p].todo = proc[p].todo \ {t},
                                     ![p].snap = [proc[p].snap EXCEPT ![t] = row]]
    BY <1>7 DEF StartTask
  <2> DEFINE row == Row("RUNNING", "RUNNING", proc[p].snap[t].attempts + 1)
             snap == [proc[p].snap EXCEPT ![t] = row]
             r == [proc[p] EXCEPT !.pc = "exec", !.cur = t, !.todo = proc[p].todo \ {t},
                                  !.snap = snap]
  <2>2. /\ t \in Task
        /\ proc[p].todo \ {t} \in SUBSET Task
        /\ proc[p].snap \in [Task -> TaskRow]
    BY DEF ProcState
  <2>3. row \in TaskRow
    BY <2>2 DEF Row, TaskRow, TaskStatus, TruthStatus
  <2>4. snap \in [Task -> TaskRow]
    BY <2>2, <2>3
  <2>5. tasks' \in [Task -> TaskRow]
    BY <2>1, <2>2, <2>3
  <2>6. proc' = [proc EXCEPT ![p] = r]
    BY <2>1
  <2> HIDE DEF row, snap
  <2>7. r \in ProcState
    BY <2>2, <2>4, StartType
  <2>8. QED
    BY <1>7, <2>5, <2>6, <2>7 DEF StartTask
<1>8. ASSUME NEW p \in Proc, RefuseTask(p) PROVE TypeOK'
  BY <1>8, LeaveType DEF RefuseTask
<1>9. ASSUME NEW p \in Proc, Direct(p) PROVE TypeOK'
  <2>1. proc' \in [Proc -> ProcState]
    BY <1>9, OutcomeType, Labels DEF Direct
  <2>2. QED
    BY <1>9, <2>1 DEF Direct
<1>10. ASSUME NEW p \in Proc, Execute(p) PROVE TypeOK'
  <2>1. proc' \in [Proc -> ProcState]
    BY <1>10, OutcomeType, Labels DEF Execute
  <2>2. proc[p].cur \in Task
    BY <1>10, GraphAssumption DEF Execute
  <2>3. launches' \in [Task -> Nat] /\ ranOk' \subseteq Task
    BY <1>10, <2>2 DEF Execute
  <2>4. gatesPassed' \in {"never", "stale", "fresh"}
    BY <1>10 DEF Execute
  <2>5. QED
    BY <1>10, <2>1, <2>3, <2>4 DEF Execute
<1>11. ASSUME NEW p \in Proc, Record(p) PROVE TypeOK'
  <2>1. proc' \in [Proc -> ProcState]
    <3> DEFINE good == [proc[p] EXCEPT !.pc = "pick", !.cur = NoTask, !.ok = FALSE,
                                       !.progressed = TRUE]
               bad == [proc[p] EXCEPT !.pc = "blockread", !.cur = NoTask]
    <3>1. good \in ProcState /\ bad \in ProcState
      BY Labels DEF ProcState
    <3>2. CASE proc[p].ok
      <4>1. proc' = [proc EXCEPT ![p] = good]
        BY <1>11, <3>2 DEF Record
      <4>2. QED
        BY <3>1, <4>1
    <3>3. CASE ~proc[p].ok
      <4>1. proc' = [proc EXCEPT ![p] = bad]
        BY <1>11, <3>3 DEF Record
      <4>2. QED
        BY <3>1, <4>1
    <3>4. QED
      BY <3>2, <3>3
  <2>2. tasks' \in [Task -> TaskRow]
    <3>1. CASE proc[p].cur \in Task
      <4>1. OutcomeRow(p) \in TaskRow
        BY <3>1, OutcomeRowType
      <4>2. QED
        BY <1>11, <3>1, <4>1 DEF Record
    <3>2. CASE proc[p].cur \notin Task
      <4>1. tasks' = tasks
        BY <1>11, <3>2 DEF Record
      <4>2. QED
        BY <4>1
    <3>3. QED
      BY <3>1, <3>2
  <2>3. QED
    BY <1>11, <2>1, <2>2 DEF Record
<1>12. ASSUME NEW p \in Proc, ReadForBlocking(p) PROVE TypeOK'
  <2> DEFINE rows == PropagateFailures(DependsOn, tasks)
             blocked == NewlyBlocked(DependsOn, tasks)
             r == [proc[p] EXCEPT !.pc = "blocksave", !.snap = rows, !.todo = blocked]
  <2>1. rows \in [Task -> TaskRow] /\ blocked \in SUBSET Task
    BY PropagateType DEF NewlyBlocked, Doomed
  <2>2. proc' = [proc EXCEPT ![p] = r]
    BY <1>12 DEF ReadForBlocking
  <2> HIDE DEF rows, blocked
  <2>3. r \in ProcState
    BY <2>1, MemoryType, Labels
  <2>4. QED
    BY <1>12, <2>2, <2>3 DEF ReadForBlocking
<1>13. ASSUME NEW p \in Proc, SaveBlocked(p) PROVE TypeOK'
  <2>1. proc[p].snap \in [Task -> TaskRow]
    BY DEF ProcState
  <2>2. tasks' \in [Task -> TaskRow]
    BY <1>13, <2>1, SaveTasksType DEF SaveBlocked
  <2>3. proc' \in [Proc -> ProcState]
    BY <1>13, ConcludeType DEF SaveBlocked, GoalStatus, TruthStatus
  <2>4. QED
    BY <1>13, <2>2, <2>3 DEF SaveBlocked
<1>14. ASSUME NEW p \in Proc, EndPass(p) PROVE TypeOK'
  <2>1. CASE Conclude(p, "BLOCKED", "BLOCKED")
    BY <1>14, <2>1, ConcludeType DEF EndPass, GoalStatus, TruthStatus
  <2>2. CASE ReadGraph(p, "pick")
    <3>1. proc' \in [Proc -> ProcState]
      BY <2>2, ReadGraphType, Labels
    <3>2. QED
      BY <1>14, <3>1 DEF EndPass
  <2>3. CASE proc' = [proc EXCEPT ![p].pc = "conclude"]
    <3>1. proc' \in [Proc -> ProcState]
      BY <2>3, MoveType, Labels
    <3>2. QED
      BY <1>14, <3>1 DEF EndPass
  <2>4. QED
    BY <1>14, <2>1, <2>2, <2>3 DEF EndPass
<1>15. ASSUME NEW p \in Proc, Decide(p) PROVE TypeOK'
  <2>1. proc' \in [Proc -> ProcState]
    <3>1. CASE \E status \in GoalStatus, truth \in TruthStatus : Conclude(p, status, truth)
      BY <3>1, ConcludeType
    <3>2. CASE proc' = [proc EXCEPT ![p].pc = "verify"]
      BY <3>2, MoveType, Labels
    <3>3. "BLOCKED" \in GoalStatus /\ "FAILED" \in GoalStatus /\ "BLOCKED" \in TruthStatus
          /\ "WAITING_APPROVAL" \in TruthStatus /\ "EXECUTION_FAILED" \in TruthStatus
      BY DEF GoalStatus, TruthStatus
    <3>4. QED
      BY <1>15, <3>1, <3>2, <3>3 DEF Decide
  <2>2. QED
    BY <1>15, <2>1 DEF Decide
<1>16. ASSUME NEW p \in Proc, Finish(p) PROVE TypeOK'
  <2>1. proc[p].verdict \in GoalRow
    BY DEF ProcState
  <2>2. QED
    BY <1>16, <2>1, LeaveType DEF Finish
<1>17. ASSUME NEW p \in Proc, ReadForVerify(p) PROVE TypeOK'
  <2> DEFINE g == GoalIs("VERIFYING", goal.truth)
             r == [proc[p] EXCEPT !.pc = "mark", !.verdict = g]
  <2>1. g \in GoalRow
    BY DEF GoalIs, GoalRow, GoalStatus
  <2>2. proc' = [proc EXCEPT ![p] = r]
    BY <1>17 DEF ReadForVerify
  <2> HIDE DEF g
  <2>3. r \in ProcState
    BY <2>1, Labels DEF ProcState
  <2>4. QED
    BY <1>17, <2>2, <2>3 DEF ReadForVerify
<1>18. ASSUME NEW p \in Proc, MarkVerifying(p) PROVE TypeOK'
  <2>1. proc[p].verdict \in GoalRow
    BY DEF ProcState
  <2>2. proc' \in [Proc -> ProcState]
    BY <1>18, MoveType, Labels DEF MarkVerifying
  <2>3. QED
    BY <1>18, <2>1, <2>2 DEF MarkVerifying
<1>19. ASSUME NEW p \in Proc, RunGates(p) PROVE TypeOK'
  <2>1. proc' \in [Proc -> ProcState]
    BY <1>19, OutcomeType, Labels DEF RunGates
  <2>2. gatesPassed' \in {"never", "stale", "fresh"}
    BY <1>19 DEF RunGates
  <2>3. QED
    BY <1>19, <2>1, <2>2 DEF RunGates
<1>20. ASSUME NEW p \in Proc, Judge(p) PROVE TypeOK'
  <2>1. VerdictOf(p).status \in GoalStatus /\ VerdictOf(p).truth \in TruthStatus
    BY VerdictType DEF GoalRow
  <2>2. proc' \in [Proc -> ProcState]
    BY <1>20, <2>1, ConcludeType DEF Judge
  <2>3. QED
    BY <1>20, <2>2 DEF Judge
<1>21. ASSUME CancelGoal PROVE TypeOK'
  <2>1. goal' \in GoalRow
    BY <1>21 DEF CancelGoal, GoalIs, GoalRow, GoalStatus, TruthStatus
  <2>2. QED
    BY <1>21, <2>1 DEF CancelGoal
<1>22. ASSUME RecordCost PROVE TypeOK'
  BY <1>22 DEF RecordCost
<1>23. ASSUME NEW p \in Proc, Crash(p) PROVE TypeOK'
  BY <1>23, LeaveType DEF Crash
<1>24. CASE UNCHANGED vars
  BY <1>24 DEF vars
<1>25. QED
  BY <1>1, <1>2, <1>3, <1>4, <1>5, <1>6, <1>7, <1>8, <1>9, <1>10, <1>11, <1>12, <1>13, <1>14,
     <1>15, <1>16, <1>17, <1>18, <1>19, <1>20, <1>21, <1>22, <1>23, <1>24
     DEF Next, Progress, Step, CallRun, CallVerify

\* The rows create_goal saves, and processes without memory, are typed.
LEMMA TypeInit == Init => TypeOK
<1> SUFFICES ASSUME Init PROVE TypeOK
  OBVIOUS
<1>1. StoreTypeOK
  BY DEF Init, StoreInit, StoreTypeOK, GoalIs, GoalRow, GoalStatus, Row, TaskRow,
         TaskStatus, TruthStatus, NoLease
<1>2. QED
  BY <1>1, IdleProcType DEF Init, TypeOK

\* Every variable keeps its type, whatever the graph, the processes and the
\* budgets: in particular every row saved is one the schema allows.
THEOREM TypeCorrect == Spec => []TypeOK
BY TypeInit, TypeStep, PTL DEF Spec

(***************************************************************************)
(* Lemmas about rows and memory                                            *)
(***************************************************************************)

\* Propagation claims nothing that the rows did not claim.
LEMMA PropagateOK ==
    ASSUME NEW ts \in [Task -> TaskRow], NEW deps, NEW done, RowsOK(ts, done)
    PROVE  RowsOK(PropagateFailures(deps, ts), done)
BY DEF RowsOK, PropagateFailures, TaskRow

\* Neither does reconciliation.
LEMMA ReconciledOK ==
    ASSUME NEW ts \in [Task -> TaskRow], NEW ls, NEW now, NEW done, RowsOK(ts, done)
    PROVE  RowsOK(Reconciled(ts, ls, now), done)
<1>1. ASSUME NEW t \in Task
      PROVE  ReconciledRow(t, ts[t]).truth \in {"RETRY_WAIT", "WAITING_APPROVAL"}
  BY DEF ReconciledRow, Row
<1>2. QED
  BY <1>1 DEF RowsOK, Reconciled

\* In a run that executes commands, the dependencies of a ready task are done.
LEMMA ReadyOK ==
    ASSUME NEW ts, NEW done, RowsOK(ts, done), NEW t \in ReadyTasks(DependsOn, ts, FALSE)
    PROVE  DependsOn[t] \subseteq done
<1>1. DependsOn[t] \subseteq Satisfied(ts, FALSE)
  BY DEF ReadyTasks
<1>2. Satisfied(ts, FALSE) \subseteq done
  BY DEF Satisfied, SatisfyingTruth, RowsOK
<1>3. QED
  BY <1>1, <1>2

\* More evidence never makes a claim untrue.
LEMMA RowsMonotone ==
    ASSUME NEW ts, NEW done, NEW more, done \subseteq more, RowsOK(ts, done)
    PROVE  RowsOK(ts, more)
BY DEF RowsOK

LEMMA GoalRowMonotone ==
    ASSUME NEW g, NEW done, NEW more, done \subseteq more, NEW passed, NEW later,
           passed # "never" => later # "never", GoalRowOK(g, done, passed)
    PROVE  GoalRowOK(g, more, later)
BY DEF GoalRowOK

LEMMA MemoryMonotone ==
    ASSUME NEW r, NEW done, NEW more, done \subseteq more, NEW passed, NEW later,
           passed # "never" => later # "never", MemoryOK(r, done, passed)
    PROVE  MemoryOK(r, more, later)
BY RowsMonotone, GoalRowMonotone DEF MemoryOK

\* An empty memory claims nothing.
LEMMA IdleOK == ASSUME NEW done, NEW passed PROVE MemoryOK(IdleProc, done, passed)
BY DEF MemoryOK, RowsOK, GoalRowOK, IdleProc, Row, GoalIs

\* About to save a goal row, a process claims what the row claims.
LEMMA FinishOK ==
    ASSUME NEW done, NEW passed, NEW g, GoalRowOK(g, done, passed)
    PROVE  MemoryOK([IdleProc EXCEPT !.pc = "finish", !.verdict = g], done, passed)
BY DEF MemoryOK, RowsOK, IdleProc, Row

\* When evidence is only added, a step of p that leaves its own memory backed
\* leaves every memory backed.
LEMMA MemoriesStep ==
    ASSUME TypeOK, EvidenceInv, NEW p \in Proc, NEW r,
           proc' = [proc EXCEPT ![p] = r],
           ranOk \subseteq ranOk', gatesPassed # "never" => gatesPassed' # "never",
           MemoryOK(r, ranOk', gatesPassed')
    PROVE  \A q \in Proc : MemoryOK(proc'[q], ranOk', gatesPassed')
<1> SUFFICES ASSUME NEW q \in Proc PROVE MemoryOK(proc'[q], ranOk', gatesPassed')
  OBVIOUS
<1>1. CASE q = p
  BY <1>1 DEF TypeOK
<1>2. CASE q # p
  <2>1. proc'[q] = proc[q]
    BY <1>2 DEF TypeOK
  <2>2. MemoryOK(proc[q], ranOk, gatesPassed)
    BY DEF EvidenceInv
  <2>3. QED
    BY <2>1, <2>2, MemoryMonotone
<1>3. QED
  BY <1>1, <1>2

\* A step of p that starts no command and runs no gates keeps the invariant
\* when what it saves and remembers is backed by the evidence there is.
LEMMA LocalStep ==
    ASSUME TypeOK, EvidenceInv, NEW p \in Proc, NEW r,
           proc' = [proc EXCEPT ![p] = r],
           UNCHANGED <<launches, ranOk, gatesPassed>>,
           RowsOK(tasks', ranOk),
           GoalRowOK(goal', ranOk, gatesPassed),
           MemoryOK(r, ranOk, gatesPassed)
    PROVE  EvidenceInv'
<1>1. \A q \in Proc : MemoryOK(proc'[q], ranOk', gatesPassed')
  BY MemoriesStep
<1>2. RealWorkOnRealWork'
  BY DEF EvidenceInv, RealWorkOnRealWork
<1>3. QED
  BY <1>1, <1>2 DEF EvidenceInv

\* A step of p that only ends its call keeps it, too.
LEMMA LeaveStep ==
    ASSUME TypeOK, EvidenceInv, NEW p \in Proc, Leave(p),
           UNCHANGED <<launches, ranOk, gatesPassed>>,
           RowsOK(tasks', ranOk),
           GoalRowOK(goal', ranOk, gatesPassed)
    PROVE  EvidenceInv'
BY IdleOK, LocalStep DEF Leave

\* And one after which p only has a goal row to save.
LEMMA ConcludeStep ==
    ASSUME TypeOK, EvidenceInv, NEW p \in Proc, NEW status, NEW truth,
           Conclude(p, status, truth),
           UNCHANGED <<goal, launches, ranOk, gatesPassed>>,
           RowsOK(tasks', ranOk),
           GoalRowOK(GoalIs(status, truth), ranOk, gatesPassed)
    PROVE  EvidenceInv'
<1>1. GoalRowOK(goal', ranOk, gatesPassed)
  BY DEF EvidenceInv
<1>2. MemoryOK([IdleProc EXCEPT !.pc = "finish", !.verdict = GoalIs(status, truth)],
               ranOk, gatesPassed)
  BY FinishOK
<1>3. QED
  BY <1>1, <1>2, LocalStep DEF Conclude

\* Saving rows that are backed by evidence leaves rows that are.
LEMMA SaveTasksOK ==
    ASSUME NEW S, NEW rows, NEW done, RowsOK(tasks, done), RowsOK(rows, done), SaveTasks(S, rows)
    PROVE  RowsOK(tasks', done)
BY DEF SaveTasks, RowsOK

\* So does saving a single row.
LEMMA SaveOneOK ==
    ASSUME NEW t, NEW row, NEW done, tasks \in [Task -> TaskRow], RowsOK(tasks, done),
           row.truth # "UNAVAILABLE", row.truth = "VERIFIED_SUCCESS" => t \in done,
           tasks' = [tasks EXCEPT ![t] = row]
    PROVE  RowsOK(tasks', done)
BY DEF RowsOK

\* Moving on to a label that promises nothing keeps the memory backed.
LEMMA MoveOK ==
    ASSUME NEW r \in ProcState, NEW done, NEW passed, NEW label,
           label \notin {"pick", "exec", "record", "judge"}, MemoryOK(r, done, passed)
    PROVE  MemoryOK([r EXCEPT !.pc = label], done, passed)
BY DEF MemoryOK, ProcState

(***************************************************************************)
(* The invariant is inductive                                              *)
(***************************************************************************)

\* What p will save and do after it has searched for ready tasks is backed.
LEMMA ReadGraphStep ==
    ASSUME TypeOK, EvidenceInv, NEW p \in Proc, ReadGraph(p, "pick"),
           UNCHANGED <<goal, tasks, launches, ranOk, gatesPassed>>
    PROVE  EvidenceInv'
<1> DEFINE rows == PropagateFailures(DependsOn, tasks)
           ready == ReadyTasks(DependsOn, rows, ~proc[p].execute)
           r == [proc[p] EXCEPT !.pc = "pick", !.snap = rows, !.todo = ready,
                                !.progressed = FALSE]
<1>1. proc[p] \in ProcState /\ tasks \in [Task -> TaskRow] /\ MemoryOK(proc[p], ranOk, gatesPassed)
  BY DEF TypeOK, StoreTypeOK, EvidenceInv
<1>2. RowsOK(rows, ranOk)
  BY <1>1, PropagateOK DEF EvidenceInv
<1>3. proc[p].execute => \A t \in ready : DependsOn[t] \subseteq ranOk
  <2> SUFFICES ASSUME proc[p].execute, NEW t \in ready PROVE DependsOn[t] \subseteq ranOk
    OBVIOUS
  <2>1. ready = ReadyTasks(DependsOn, rows, FALSE)
    BY <1>1 DEF ProcState
  <2>2. QED
    BY <2>1, <1>2, ReadyOK
<1>4. proc' = [proc EXCEPT ![p] = r]
  BY DEF ReadGraph
<1> HIDE DEF rows, ready
<1>5. MemoryOK(r, ranOk, gatesPassed)
  BY <1>1, <1>2, <1>3 DEF MemoryOK, ProcState
<1>6. RowsOK(tasks', ranOk) /\ GoalRowOK(goal', ranOk, gatesPassed)
  BY DEF EvidenceInv
<1>7. QED
  BY <1>4, <1>5, <1>6, LocalStep

\* The labels at which the invariant says nothing about a process's work.
LEMMA QuietLabels ==
    \A label \in {"announce", "scan", "pscan", "conclude", "verify", "gates"} :
        label \notin {"pick", "exec", "record", "judge"}
OBVIOUS

\* A step of p to a label that promises nothing, with its memory as it was.
LEMMA MoveStep ==
    ASSUME TypeOK, EvidenceInv, NEW p \in Proc, NEW label,
           label \notin {"pick", "exec", "record", "judge"},
           proc' = [proc EXCEPT ![p].pc = label],
           UNCHANGED <<tasks, launches, ranOk, gatesPassed>>,
           GoalRowOK(goal', ranOk, gatesPassed)
    PROVE  EvidenceInv'
<1>1. proc' = [proc EXCEPT ![p] = [proc[p] EXCEPT !.pc = label]]
  OBVIOUS
<1>2. MemoryOK([proc[p] EXCEPT !.pc = label], ranOk, gatesPassed)
  BY MoveOK DEF TypeOK, EvidenceInv
<1>3. RowsOK(tasks', ranOk)
  BY DEF EvidenceInv
<1>4. QED
  BY <1>1, <1>2, <1>3, LocalStep

\* A command is started on dependencies that are done, and adds its task to
\* what is done when it succeeds.
LEMMA ExecuteStep ==
    ASSUME TypeOK, EvidenceInv, NEW p \in Proc, Execute(p)
    PROVE  EvidenceInv'
<1>1. /\ proc[p] \in ProcState
      /\ MemoryOK(proc[p], ranOk, gatesPassed)
      /\ proc[p].pc = "exec" /\ proc[p].execute /\ proc[p].cur \in Task
  BY DEF TypeOK, EvidenceInv, Execute, At, MemoryOK
<1>2. PICK ok \in BOOLEAN :
        /\ proc' = [proc EXCEPT ![p].pc = "record", ![p].ok = ok]
        /\ ranOk' = IF ok THEN ranOk \cup {proc[p].cur} ELSE ranOk
  BY DEF Execute
<1>3. ranOk \subseteq ranOk' /\ (ok => proc[p].cur \in ranOk')
  BY <1>2
<1>4. gatesPassed # "never" => gatesPassed' # "never"
  BY DEF Execute
<1> DEFINE r == [proc[p] EXCEPT !.pc = "record", !.ok = ok]
<1>5. proc' = [proc EXCEPT ![p] = r]
  BY <1>2
<1>6. MemoryOK(proc[p], ranOk', gatesPassed')
  BY <1>1, <1>3, <1>4, MemoryMonotone
<1>7. MemoryOK(r, ranOk', gatesPassed')
  BY <1>1, <1>3, <1>6 DEF MemoryOK, ProcState
<1>8. \A q \in Proc : MemoryOK(proc'[q], ranOk', gatesPassed')
  BY <1>3, <1>4, <1>5, <1>7, MemoriesStep
<1>9. RowsOK(tasks', ranOk') /\ GoalRowOK(goal', ranOk', gatesPassed')
  <2>1. tasks' = tasks /\ goal' = goal
    BY DEF Execute, storeVars
  <2>2. QED
    BY <2>1, <1>3, <1>4, RowsMonotone, GoalRowMonotone DEF EvidenceInv
<1>10. RealWorkOnRealWork'
  <2> SUFFICES ASSUME NEW t \in Task, launches'[t] > 0 PROVE DependsOn[t] \subseteq ranOk'
    BY DEF RealWorkOnRealWork
  <2>1. CASE t = proc[p].cur
    BY <2>1, <1>1, <1>3 DEF MemoryOK
  <2>2. CASE t # proc[p].cur
    <3>1. launches'[t] = launches[t]
      BY <2>2 DEF Execute, TypeOK
    <3>2. QED
      BY <3>1, <1>3 DEF EvidenceInv, RealWorkOnRealWork
  <2>3. QED
    BY <2>1, <2>2
<1>11. QED
  BY <1>8, <1>9, <1>10 DEF EvidenceInv

\* A pipeline that passes with gates is remembered as passed.
LEMMA RunGatesStep ==
    ASSUME TypeOK, EvidenceInv, NEW p \in Proc, RunGates(p)
    PROVE  EvidenceInv'
<1>1. proc[p] \in ProcState /\ MemoryOK(proc[p], ranOk, gatesPassed)
  BY DEF TypeOK, EvidenceInv
<1>2. PICK passed \in BOOLEAN :
        /\ proc' = [proc EXCEPT ![p].pc = "judge", ![p].ok = passed]
        /\ gatesPassed' = IF passed /\ proc[p].gates THEN "fresh" ELSE gatesPassed
  BY DEF RunGates
<1>3. ranOk' = ranOk /\ launches' = launches /\ tasks' = tasks /\ goal' = goal
  BY DEF RunGates, storeVars
<1>4. /\ gatesPassed # "never" => gatesPassed' # "never"
      /\ passed /\ proc[p].gates => gatesPassed' # "never"
  BY <1>2
<1> DEFINE r == [proc[p] EXCEPT !.pc = "judge", !.ok = passed]
<1>5. proc' = [proc EXCEPT ![p] = r]
  BY <1>2
<1>6. MemoryOK(proc[p], ranOk', gatesPassed')
  BY <1>1, <1>3, <1>4, MemoryMonotone
<1>7. MemoryOK(r, ranOk', gatesPassed')
  BY <1>1, <1>4, <1>6 DEF MemoryOK, ProcState
<1>8. \A q \in Proc : MemoryOK(proc'[q], ranOk', gatesPassed')
  BY <1>3, <1>4, <1>5, <1>7, MemoriesStep
<1>9. RowsOK(tasks', ranOk') /\ GoalRowOK(goal', ranOk', gatesPassed')
  BY <1>3, <1>4, GoalRowMonotone DEF EvidenceInv
<1>10. RealWorkOnRealWork'
  BY <1>3 DEF EvidenceInv, RealWorkOnRealWork
<1>11. QED
  BY <1>8, <1>9, <1>10 DEF EvidenceInv

\* verify_goal gives VERIFIED_SUCCESS only to rows that all claim it.
LEMMA VerdictOK ==
    ASSUME TypeOK, EvidenceInv, NEW p \in Proc, At(p, "judge")
    PROVE  GoalRowOK(VerdictOf(p), ranOk, gatesPassed)
<1> SUFFICES ASSUME VerdictOf(p).truth = "VERIFIED_SUCCESS"
             PROVE  Task # {} /\ Task \subseteq ranOk /\ gatesPassed # "never"
  BY DEF GoalRowOK
<1>1. proc[p].ok /\ proc[p].gates /\ AllTasksVerified
  BY DEF VerdictOf, GoalIs
<1>2. gatesPassed # "never"
  BY <1>1 DEF EvidenceInv, MemoryOK, At
<1>3. Task # {} /\ Task \subseteq ranOk
  BY <1>1 DEF AllTasksVerified, EvidenceInv, RowsOK
<1>4. QED
  BY <1>2, <1>3

\* Every step keeps what the rows and the memories claim backed by evidence.
LEMMA EvidenceStep == TypeOK /\ EvidenceInv /\ [Next]_vars => EvidenceInv'
<1> SUFFICES ASSUME TypeOK, EvidenceInv, [Next]_vars PROVE EvidenceInv'
  OBVIOUS
<1> USE DEF storeVars, procVars, history
<1>a. /\ tasks \in [Task -> TaskRow]
      /\ RowsOK(tasks, ranOk)
      /\ GoalRowOK(goal, ranOk, gatesPassed)
  BY DEF TypeOK, StoreTypeOK, EvidenceInv
<1>b. ASSUME NEW p \in Proc
      PROVE  proc[p] \in ProcState /\ MemoryOK(proc[p], ranOk, gatesPassed)
  BY <1>b DEF TypeOK, EvidenceInv
<1>c. ASSUME NEW status, NEW truth, truth # "VERIFIED_SUCCESS"
      PROVE  GoalRowOK(GoalIs(status, truth), ranOk, gatesPassed)
  BY <1>c DEF GoalRowOK, GoalIs
<1>1. ASSUME NEW p \in Proc, NEW label \in {"enter", "verify"}, NEW execute \in BOOLEAN,
             NEW gates \in BOOLEAN, Call(p, label, 0, execute, gates)
      PROVE  EvidenceInv'
  <2> DEFINE r == [proc[p] EXCEPT !.pc = label, !.workers = 0, !.execute = execute,
                                  !.gates = gates]
  <2>1. MemoryOK(r, ranOk, gatesPassed)
    BY <1>b DEF MemoryOK, ProcState
  <2>2. proc' = [proc EXCEPT ![p] = r]
    BY <1>1 DEF Call
  <2>3. UNCHANGED <<goal, tasks, launches, ranOk, gatesPassed>>
    BY <1>1 DEF Call
  <2>4. QED
    BY <1>a, <2>1, <2>2, <2>3, LocalStep
<1>2. ASSUME NEW p \in Proc, CallResume(p) PROVE EvidenceInv'
  <2> DEFINE orphans == Orphans(tasks, leases, clock)
             rows == Reconciled(tasks, leases, clock)
             covered == {t \in orphans : leases[t] # NoLease}
  <2>1. RowsOK(rows, ranOk)
    BY <1>a, ReconciledOK
  <2>2. PICK execute \in BOOLEAN, gates \in BOOLEAN :
          proc' = [proc EXCEPT ![p].pc = "reconcile", ![p].execute = execute,
                               ![p].gates = gates, ![p].snap = rows,
                               ![p].todo = orphans, ![p].leased = covered]
    BY <1>2 DEF CallResume
  <2>3. UNCHANGED <<goal, tasks, launches, ranOk, gatesPassed>>
    BY <1>2 DEF CallResume
  <2> HIDE DEF orphans, covered, rows
  <2> DEFINE r == [proc[p] EXCEPT !.pc = "reconcile", !.execute = execute, !.gates = gates,
                                  !.snap = rows, !.todo = orphans, !.leased = covered]
  <2>4. MemoryOK(r, ranOk, gatesPassed)
    BY <1>b, <2>1 DEF MemoryOK, ProcState
  <2>5. proc' = [proc EXCEPT ![p] = r]
    BY <2>2
  <2>6. QED
    BY <1>a, <2>3, <2>4, <2>5, LocalStep
<1>3. ASSUME NEW p \in Proc, SaveReconciled(p) PROVE EvidenceInv'
  <2>1. RowsOK(tasks', ranOk)
    BY <1>3, <1>a, <1>b, SaveTasksOK DEF SaveReconciled, MemoryOK
  <2>2. UNCHANGED <<goal, launches, ranOk, gatesPassed>>
    BY <1>3 DEF SaveReconciled
  <2>3. CASE Conclude(p, "BLOCKED", "WAITING_APPROVAL")
    BY <1>c, <2>1, <2>2, <2>3, ConcludeStep
  <2>4. CASE proc' = [proc EXCEPT ![p].pc = "enter", ![p].todo = {}, ![p].leased = {}]
    <3> DEFINE r == [proc[p] EXCEPT !.pc = "enter", !.todo = {}, !.leased = {}]
    <3>1. MemoryOK(r, ranOk, gatesPassed)
      BY <1>b DEF MemoryOK, ProcState
    <3>2. proc' = [proc EXCEPT ![p] = r]
      BY <2>4
    <3>3. QED
      BY <1>a, <2>1, <2>2, <3>1, <3>2, LocalStep
  <2>5. QED
    BY <1>3, <2>3, <2>4 DEF SaveReconciled
<1>4. ASSUME NEW p \in Proc, Enter(p) PROVE EvidenceInv'
  BY <1>4, <1>a, LeaveStep, MoveStep DEF Enter
<1>5. ASSUME NEW p \in Proc, Announce(p) PROVE EvidenceInv'
  <2>1. GoalRowOK(goal', ranOk, gatesPassed)
    BY <1>5, <1>c DEF Announce
  <2>2. PICK label \in {"scan", "pscan"} : proc' = [proc EXCEPT ![p].pc = label]
    BY <1>5 DEF Announce
  <2>3. UNCHANGED <<tasks, launches, ranOk, gatesPassed>>
    BY <1>5 DEF Announce
  <2>4. QED
    BY <2>1, <2>2, <2>3, QuietLabels, MoveStep
<1>6. ASSUME NEW p \in Proc, Scan(p) PROVE EvidenceInv'
  BY <1>6, ReadGraphStep DEF Scan
<1>7. ASSUME NEW p \in Proc, StartTask(p) PROVE EvidenceInv'
  <2> DEFINE row(t) == Row("RUNNING", "RUNNING", proc[p].snap[t].attempts + 1)
  <2>1. PICK t \in proc[p].todo :
          /\ tasks' = [tasks EXCEPT ![t] = row(t)]
          /\ proc' = [proc EXCEPT ![p].pc = "exec", ![p].cur = t,
                                  ![p].todo = proc[p].todo \ {t},
                                  ![p].snap = [proc[p].snap EXCEPT ![t] = row(t)]]
    BY <1>7 DEF StartTask
  <2>2. row(t).truth = "RUNNING"
    BY DEF Row
  <2> HIDE DEF row
  <2> DEFINE snap == [proc[p].snap EXCEPT ![t] = row(t)]
             r == [proc[p] EXCEPT !.pc = "exec", !.cur = t, !.todo = proc[p].todo \ {t},
                                  !.snap = snap]
  <2>3. RowsOK(tasks', ranOk)
    BY <1>a, <2>1, <2>2, SaveOneOK
  <2>4. RowsOK(snap, ranOk)
    BY <1>b, <2>2 DEF MemoryOK, RowsOK, ProcState
  <2>5. proc[p].pc = "pick" /\ t \in Task
    BY <1>7, <1>b DEF StartTask, At, ProcState
  <2>6. proc' = [proc EXCEPT ![p] = r]
    BY <2>1
  <2> HIDE DEF snap
  <2>7. MemoryOK(r, ranOk, gatesPassed)
    BY <1>b, <2>4, <2>5 DEF MemoryOK, ProcState
  <2>8. UNCHANGED <<goal, launches, ranOk, gatesPassed>>
    BY <1>7 DEF StartTask
  <2>9. QED
    BY <1>a, <2>3, <2>6, <2>7, <2>8, LocalStep
<1>8. ASSUME NEW p \in Proc, RefuseTask(p) PROVE EvidenceInv'
  BY <1>8, <1>a, LeaveStep DEF RefuseTask
<1>9. ASSUME NEW p \in Proc, Direct(p) PROVE EvidenceInv'
  <2> DEFINE r == [proc[p] EXCEPT !.pc = "record", !.ok = TRUE]
  <2>1. MemoryOK(r, ranOk, gatesPassed)
    BY <1>9, <1>b DEF Direct, At, MemoryOK, ProcState
  <2>2. proc' = [proc EXCEPT ![p] = r]
    BY <1>9 DEF Direct
  <2>3. UNCHANGED <<goal, tasks, launches, ranOk, gatesPassed>>
    BY <1>9 DEF Direct
  <2>4. QED
    BY <1>a, <2>1, <2>2, <2>3, LocalStep
<1>10. ASSUME NEW p \in Proc, Execute(p) PROVE EvidenceInv'
  BY <1>10, ExecuteStep
<1>11. ASSUME NEW p \in Proc, Record(p) PROVE EvidenceInv'
  <2>1. /\ OutcomeRow(p).truth # "UNAVAILABLE"
        /\ OutcomeRow(p).truth = "VERIFIED_SUCCESS" => proc[p].cur \in ranOk
    BY <1>11, <1>b DEF Record, At, OutcomeRow, Row, MemoryOK
  <2>2. RowsOK(tasks', ranOk)
    BY <1>11, <1>a, <2>1, SaveOneOK DEF Record
  <2>3. UNCHANGED <<goal, launches, ranOk, gatesPassed>>
    BY <1>11 DEF Record
  <2>4. CASE proc[p].ok
    <3> DEFINE r == [proc[p] EXCEPT !.pc = "pick", !.cur = NoTask, !.ok = FALSE,
                                    !.progressed = TRUE]
    <3>1. MemoryOK(r, ranOk, gatesPassed)
      BY <1>11, <1>b DEF Record, At, MemoryOK, ProcState
    <3>2. proc' = [proc EXCEPT ![p] = r]
      BY <1>11, <2>4 DEF Record
    <3>3. QED
      BY <1>a, <2>2, <2>3, <3>1, <3>2, LocalStep
  <2>5. CASE ~proc[p].ok
    <3> DEFINE r == [proc[p] EXCEPT !.pc = "blockread", !.cur = NoTask]
    <3>1. MemoryOK(r, ranOk, gatesPassed)
      BY <1>b DEF MemoryOK, ProcState
    <3>2. proc' = [proc EXCEPT ![p] = r]
      BY <1>11, <2>5 DEF Record
    <3>3. QED
      BY <1>a, <2>2, <2>3, <3>1, <3>2, LocalStep
  <2>6. QED
    BY <2>4, <2>5
<1>12. ASSUME NEW p \in Proc, ReadForBlocking(p) PROVE EvidenceInv'
  <2> DEFINE rows == PropagateFailures(DependsOn, tasks)
             blocked == NewlyBlocked(DependsOn, tasks)
             r == [proc[p] EXCEPT !.pc = "blocksave", !.snap = rows, !.todo = blocked]
  <2>1. RowsOK(rows, ranOk)
    BY <1>a, PropagateOK
  <2>2. proc' = [proc EXCEPT ![p] = r]
    BY <1>12 DEF ReadForBlocking
  <2>3. UNCHANGED <<goal, tasks, launches, ranOk, gatesPassed>>
    BY <1>12 DEF ReadForBlocking
  <2> HIDE DEF rows, blocked
  <2>4. MemoryOK(r, ranOk, gatesPassed)
    BY <1>b, <2>1 DEF MemoryOK, ProcState
  <2>5. QED
    BY <1>a, <2>2, <2>3, <2>4, LocalStep
<1>13. ASSUME NEW p \in Proc, SaveBlocked(p) PROVE EvidenceInv'
  <2>1. RowsOK(tasks', ranOk)
    BY <1>13, <1>a, <1>b, SaveTasksOK DEF SaveBlocked, MemoryOK
  <2>2. QED
    BY <1>13, <1>c, <2>1, ConcludeStep DEF SaveBlocked
<1>14. ASSUME NEW p \in Proc, EndPass(p) PROVE EvidenceInv'
  <2>1. UNCHANGED <<goal, tasks, launches, ranOk, gatesPassed>>
    BY <1>14 DEF EndPass
  <2>2. CASE Conclude(p, "BLOCKED", "BLOCKED")
    BY <1>a, <1>c, <2>1, <2>2, ConcludeStep
  <2>3. CASE ReadGraph(p, "pick")
    BY <2>1, <2>3, ReadGraphStep
  <2>4. CASE proc' = [proc EXCEPT ![p].pc = "conclude"]
    BY <1>a, <2>1, <2>4, QuietLabels, MoveStep
  <2>5. QED
    BY <1>14, <2>2, <2>3, <2>4 DEF EndPass
<1>15. ASSUME NEW p \in Proc, Decide(p) PROVE EvidenceInv'
  <2>1. UNCHANGED <<goal, tasks, launches, ranOk, gatesPassed>>
    BY <1>15 DEF Decide
  <2>2. ASSUME NEW status, NEW truth, truth # "VERIFIED_SUCCESS", Conclude(p, status, truth)
        PROVE  EvidenceInv'
    BY <1>a, <1>c, <2>1, <2>2, ConcludeStep
  <2>3. CASE proc' = [proc EXCEPT ![p].pc = "verify"]
    BY <1>a, <2>1, <2>3, QuietLabels, MoveStep
  <2>4. QED
    BY <1>15, <2>2, <2>3 DEF Decide
<1>16. ASSUME NEW p \in Proc, Finish(p) PROVE EvidenceInv'
  BY <1>16, <1>a, <1>b, LeaveStep DEF Finish, MemoryOK
<1>17. ASSUME NEW p \in Proc, ReadForVerify(p) PROVE EvidenceInv'
  <2> DEFINE g == GoalIs("VERIFYING", goal.truth)
             r == [proc[p] EXCEPT !.pc = "mark", !.verdict = g]
  <2>1. GoalRowOK(g, ranOk, gatesPassed)
    BY <1>a DEF GoalRowOK, GoalIs
  <2>2. proc' = [proc EXCEPT ![p] = r]
    BY <1>17 DEF ReadForVerify
  <2>3. UNCHANGED <<goal, tasks, launches, ranOk, gatesPassed>>
    BY <1>17 DEF ReadForVerify
  <2> HIDE DEF g
  <2>4. MemoryOK(r, ranOk, gatesPassed)
    BY <1>b, <2>1 DEF MemoryOK, ProcState
  <2>5. QED
    BY <1>a, <2>2, <2>3, <2>4, LocalStep
<1>18. ASSUME NEW p \in Proc, MarkVerifying(p) PROVE EvidenceInv'
  <2>1. GoalRowOK(goal', ranOk, gatesPassed)
    BY <1>18, <1>b DEF MarkVerifying, MemoryOK
  <2>2. proc' = [proc EXCEPT ![p].pc = "gates"]
    BY <1>18 DEF MarkVerifying
  <2>3. UNCHANGED <<tasks, launches, ranOk, gatesPassed>>
    BY <1>18 DEF MarkVerifying
  <2>4. QED
    BY <2>1, <2>2, <2>3, QuietLabels, MoveStep
<1>19. ASSUME NEW p \in Proc, RunGates(p) PROVE EvidenceInv'
  BY <1>19, RunGatesStep
<1>20. ASSUME NEW p \in Proc, Judge(p) PROVE EvidenceInv'
  <2>1. GoalRowOK(GoalIs(VerdictOf(p).status, VerdictOf(p).truth), ranOk, gatesPassed)
    BY <1>20, VerdictOK DEF Judge, GoalRowOK, GoalIs
  <2>2. QED
    BY <1>20, <1>a, <2>1, ConcludeStep DEF Judge
<1>21. ASSUME CancelGoal PROVE EvidenceInv'
  <2>1. GoalRowOK(goal', ranOk, gatesPassed)
    BY <1>21, <1>c DEF CancelGoal
  <2>2. UNCHANGED <<tasks, proc, launches, ranOk, gatesPassed>>
    BY <1>21 DEF CancelGoal
  <2>3. QED
    BY <2>1, <2>2 DEF EvidenceInv, RealWorkOnRealWork
<1>22. ASSUME RecordCost PROVE EvidenceInv'
  BY <1>22 DEF RecordCost, EvidenceInv, RealWorkOnRealWork
<1>23. ASSUME NEW p \in Proc, Crash(p) PROVE EvidenceInv'
  BY <1>23, <1>a, LeaveStep DEF Crash
<1>24. CASE UNCHANGED vars
  BY <1>24 DEF vars, EvidenceInv, RealWorkOnRealWork
<1>25. QED
  BY <1>1, <1>2, <1>3, <1>4, <1>5, <1>6, <1>7, <1>8, <1>9, <1>10, <1>11, <1>12, <1>13, <1>14,
     <1>15, <1>16, <1>17, <1>18, <1>19, <1>20, <1>21, <1>22, <1>23, <1>24
     DEF Next, Progress, Step, CallRun, CallVerify

\* Nothing is claimed of a goal just created.
LEMMA EvidenceInit == Init => EvidenceInv
<1> SUFFICES ASSUME Init PROVE EvidenceInv
  OBVIOUS
<1>1. RowsOK(tasks, ranOk) /\ GoalRowOK(goal, ranOk, gatesPassed) /\ RealWorkOnRealWork
  BY DEF Init, StoreInit, RowsOK, GoalRowOK, RealWorkOnRealWork, Row, GoalIs
<1>2. \A p \in Proc : MemoryOK(proc[p], ranOk, gatesPassed)
  BY IdleOK DEF Init
<1>3. QED
  BY <1>1, <1>2 DEF EvidenceInv

\* What the rows and the memories of all processes claim is backed by what
\* has been executed, in every reachable state.
THEOREM EvidenceCorrect == Spec => []EvidenceInv
BY EvidenceInit, TypeCorrect, EvidenceStep, PTL DEF Spec

\* A goal is VERIFIED_SUCCESS only when it has tasks, the command of each of
\* them has been executed with success and real gates have passed, for any
\* graph, any number of processes, crashes and cancellations anywhere.
THEOREM VerifiedTruthHolds == Spec => []VerifiedTruth
<1>1. EvidenceInv => VerifiedTruth
  BY DEF EvidenceInv, GoalRowOK, VerifiedTruth
<1>2. QED
  BY <1>1, EvidenceCorrect, PTL

\* No command is started before the commands of the tasks it depends on have
\* succeeded, even when other processes change the rows meanwhile.
THEOREM RealWorkOnRealWorkHolds == Spec => []RealWorkOnRealWork
<1>1. EvidenceInv => RealWorkOnRealWork
  BY DEF EvidenceInv
<1>2. QED
  BY <1>1, EvidenceCorrect, PTL

(***************************************************************************)
(* One process at a time                                                   *)
(***************************************************************************)

\* A single process drives the goal; it may crash and be started again.
OneProcess == \A p, q \in Proc : p = q

\* Every start is paid for by an attempt in the row ts[t], and what has been
\* attempted more than once may be repeated within every budget.
BudgetKept(ts, starts) ==
    \A t \in Task :
        /\ starts[t] <= ts[t].attempts
        /\ \/ ts[t].attempts <= 1
           \/ /\ ts[t].attempts <= MaxAttempts
              /\ ts[t].attempts <= RetryLimit
              /\ ts[t].attempts <= TicketRetry
        /\ t \notin Idempotent \/ t \in Uncertain => ts[t].attempts <= 1
        /\ ts[t].status = "PENDING" => ts[t].attempts = 0 \/ Retriable(t, ts[t])

\* What ReadGraph finds to start in rows ts.
ReadyIn(ts, simulated) == ReadyTasks(DependsOn, PropagateFailures(DependsOn, ts), simulated)

\* What a process r has read still agrees with the stored rows ts.
UpToDate(r, ts, starts) ==
    /\ r.pc = "reconcile" =>
           \A t \in r.todo : ts[t].status = "RUNNING" /\ r.snap[t] = ReconciledRow(t, ts[t])
    /\ r.pc \in {"pick", "exec", "record"} =>
           \A t \in r.todo : ts[t].status = "PENDING" /\ r.snap[t] = ts[t]
    /\ r.pc \in {"exec", "record"} =>
           /\ r.cur \in Task \ r.todo
           /\ ts[r.cur].status = "RUNNING" /\ r.snap[r.cur] = ts[r.cur]
    /\ r.pc = "exec" => starts[r.cur] < ts[r.cur].attempts
    /\ r.pc = "blocksave" => /\ r.todo = NewlyBlocked(DependsOn, ts)
                             /\ r.snap = PropagateFailures(DependsOn, ts)
    /\ r.pc = "pick" /\ ~r.progressed => r.todo = ReadyIn(ts, ~r.execute)
    /\ r.pc = "conclude" => ReadyIn(ts, ~r.execute) = {}

\* A claim of VERIFIED_SUCCESS rests on gates that passed after the last
\* command, and while commands may still be started there is no such claim.
FreshGates(r, g, passed) ==
    /\ g.truth = "VERIFIED_SUCCESS" => passed = "fresh"
    /\ r.pc \in {"scan", "pick", "exec", "record", "blockread", "blocksave", "conclude"} =>
           g.truth # "VERIFIED_SUCCESS"
    /\ r.pc \in {"mark", "finish"} /\ r.verdict.truth = "VERIFIED_SUCCESS" => passed = "fresh"
    /\ r.pc = "judge" /\ r.ok /\ r.gates => passed = "fresh"

\* Rows and starts keep the budgets, the only process remembers what is stored,
\* and a claim of success is not older than the last command.
SoloInv ==
    /\ BudgetKept(tasks, launches)
    /\ goal.truth = "VERIFIED_SUCCESS" => gatesPassed = "fresh"
    /\ \A p \in Proc : /\ UpToDate(proc[p], tasks, launches)
                       /\ FreshGates(proc[p], goal, gatesPassed)

\* Propagation only blocks tasks that are PENDING.
LEMMA BlockedArePending ==
    ASSUME NEW deps, NEW ts, NEW t \in NewlyBlocked(deps, ts)
    PROVE  t \in Task /\ ts[t].status = "PENDING"
<1> DEFINE S == FailedOrBlocked(ts) \cup {u \in Task : ts[u].status = "PENDING"}
<1>1. S \in SUBSET Task /\ ClosedUnderFailure(deps, ts, S)
  BY DEF ClosedUnderFailure, FailedOrBlocked
<1>2. t \in Task /\ t \in S /\ t \notin FailedOrBlocked(ts)
  BY <1>1 DEF NewlyBlocked, Doomed
<1>3. QED
  BY <1>2

\* Propagation keeps attempts, and leaves a row PENDING only by not touching it.
LEMMA PropagatedRow ==
    ASSUME NEW deps, NEW ts \in [Task -> TaskRow], NEW t \in Task
    PROVE  /\ PropagateFailures(deps, ts)[t].attempts = ts[t].attempts
           /\ PropagateFailures(deps, ts)[t].status = "PENDING" =>
                  PropagateFailures(deps, ts)[t] = ts[t]
           /\ t \in NewlyBlocked(deps, ts) => PropagateFailures(deps, ts)[t].status = "BLOCKED"
           /\ t \notin NewlyBlocked(deps, ts) => PropagateFailures(deps, ts)[t] = ts[t]
<1> DEFINE row == [ts[t] EXCEPT !.status = "BLOCKED", !.truth = "BLOCKED"]
<1>1. row.attempts = ts[t].attempts /\ row.status = "BLOCKED"
  BY DEF TaskRow
<1>2. PropagateFailures(deps, ts)[t] = IF t \in NewlyBlocked(deps, ts) THEN row ELSE ts[t]
  BY DEF PropagateFailures
<1> HIDE DEF row
<1>3. QED
  BY <1>1, <1>2

\* A task found ready has a stored row that is PENDING, and read as it is.
LEMMA ReadyRow ==
    ASSUME NEW ts \in [Task -> TaskRow], NEW simulated, NEW t \in ReadyIn(ts, simulated)
    PROVE  /\ t \in Task /\ ts[t].status = "PENDING"
           /\ PropagateFailures(DependsOn, ts)[t] = ts[t]
<1>1. t \in Task /\ PropagateFailures(DependsOn, ts)[t].status = "PENDING"
  BY DEF ReadyIn, ReadyTasks
<1>2. QED
  BY <1>1, PropagatedRow

\* Rows with the same attempts keep every budget, when no row becomes PENDING
\* that may not be retried.
LEMMA BudgetSameAttempts ==
    ASSUME NEW ts, NEW new, NEW starts, BudgetKept(ts, starts),
           \A t \in Task : /\ new[t].attempts = ts[t].attempts
                           /\ new[t].status = "PENDING" =>
                                  ts[t].status = "PENDING" \/ Retriable(t, ts[t])
    PROVE  BudgetKept(new, starts)
BY DEF BudgetKept, Retriable

\* A reconciled orphan keeps its attempts and is PENDING only when it may be
\* retried.
LEMMA ReconciledRowFacts ==
    ASSUME NEW t, NEW row
    PROVE  /\ ReconciledRow(t, row).attempts = row.attempts
           /\ ReconciledRow(t, row).status = "PENDING" => Retriable(t, row)
BY DEF ReconciledRow, Row

\* At these labels a process holds nothing that could be out of date.
LEMMA NothingToUpdate ==
    ASSUME NEW r, NEW ts, NEW starts,
           r.pc \notin {"reconcile", "pick", "exec", "record", "blocksave", "conclude"}
    PROVE  UpToDate(r, ts, starts)
BY DEF UpToDate

\* A step of the only process keeps the invariant when its new memory agrees
\* with what it leaves stored.
LEMMA SoloMemory ==
    ASSUME OneProcess, proc \in [Proc -> ProcState], NEW p \in Proc, NEW r,
           proc' = [proc EXCEPT ![p] = r],
           BudgetKept(tasks', launches'),
           UpToDate(r, tasks', launches'),
           FreshGates(r, goal', gatesPassed')
    PROVE  SoloInv'
<1>1. ASSUME NEW q \in Proc PROVE proc'[q] = r
  BY <1>1 DEF OneProcess
<1>2. goal'.truth = "VERIFIED_SUCCESS" => gatesPassed' = "fresh"
  BY DEF FreshGates
<1>3. QED
  BY <1>1, <1>2 DEF SoloInv

\* A call that ends leaves nothing to be out of date.
LEMMA SoloLeave ==
    ASSUME OneProcess, proc \in [Proc -> ProcState], NEW p \in Proc, Leave(p),
           BudgetKept(tasks', launches'),
           goal'.truth = "VERIFIED_SUCCESS" => gatesPassed' = "fresh"
    PROVE  SoloInv'
<1>1. IdleProc.pc = "idle"
  BY DEF IdleProc
<1>2. UpToDate(IdleProc, tasks', launches')
  BY <1>1, NothingToUpdate
<1>3. FreshGates(IdleProc, goal', gatesPassed')
  BY <1>1 DEF FreshGates
<1>4. QED
  BY <1>2, <1>3, SoloMemory DEF Leave

\* So does one that is about to save a goal row that claims no more than
\* fresh gates allow.
LEMMA SoloConclude ==
    ASSUME OneProcess, proc \in [Proc -> ProcState], NEW p \in Proc, NEW status, NEW truth,
           Conclude(p, status, truth),
           BudgetKept(tasks', launches'),
           goal'.truth = "VERIFIED_SUCCESS" => gatesPassed' = "fresh",
           truth = "VERIFIED_SUCCESS" => gatesPassed' = "fresh"
    PROVE  SoloInv'
<1> DEFINE r == [IdleProc EXCEPT !.pc = "finish", !.verdict = GoalIs(status, truth)]
<1>1. r.pc = "finish" /\ r.verdict.truth = truth
  BY DEF IdleProc, GoalIs
<1>2. proc' = [proc EXCEPT ![p] = r]
  BY DEF Conclude
<1> HIDE DEF r
<1>3. UpToDate(r, tasks', launches')
  BY <1>1, NothingToUpdate
<1>4. FreshGates(r, goal', gatesPassed')
  BY <1>1 DEF FreshGates
<1>5. QED
  BY <1>2, <1>3, <1>4, SoloMemory

\* What p reads agrees with what is stored.
LEMMA SoloReadGraph ==
    ASSUME OneProcess, TypeOK, SoloInv, NEW p \in Proc, ReadGraph(p, "pick"),
           goal.truth # "VERIFIED_SUCCESS",
           UNCHANGED <<goal, tasks, launches, gatesPassed>>
    PROVE  SoloInv'
<1> DEFINE rows == PropagateFailures(DependsOn, tasks)
           ready == ReadyIn(tasks, ~proc[p].execute)
           r == [proc[p] EXCEPT !.pc = "pick", !.snap = rows, !.todo = ready,
                                !.progressed = FALSE]
<1>1. proc[p] \in ProcState /\ tasks \in [Task -> TaskRow] /\ proc \in [Proc -> ProcState]
  BY DEF TypeOK, StoreTypeOK
<1>2. \A t \in ready : tasks[t].status = "PENDING" /\ rows[t] = tasks[t]
  BY <1>1, ReadyRow
<1>3. proc' = [proc EXCEPT ![p] = r]
  BY DEF ReadGraph, ReadyIn
<1>4. ready = ReadyIn(tasks, ~proc[p].execute)
  OBVIOUS
<1> HIDE DEF rows, ready
<1>5. /\ r.pc = "pick" /\ r.snap = rows /\ r.todo = ready /\ ~r.progressed
      /\ r.execute = proc[p].execute
  BY <1>1 DEF ProcState
<1> HIDE DEF r
<1>6. UpToDate(r, tasks, launches)
  BY <1>2, <1>4, <1>5 DEF UpToDate
<1>7. FreshGates(r, goal, gatesPassed)
  BY <1>5 DEF FreshGates
<1>8. BudgetKept(tasks, launches)
  BY DEF SoloInv
<1>9. QED
  BY <1>1, <1>3, <1>6, <1>7, <1>8, SoloMemory

\* A step to a label at which nothing is remembered keeps the invariant.
LEMMA SoloMove ==
    ASSUME OneProcess, TypeOK, SoloInv, NEW p \in Proc, NEW label,
           label \notin {"reconcile", "pick", "exec", "record", "blocksave", "conclude", "judge",
                         "mark", "finish"},
           label \in {"scan", "blockread"} => goal'.truth # "VERIFIED_SUCCESS",
           goal'.truth = "VERIFIED_SUCCESS" => gatesPassed' = "fresh",
           proc' = [proc EXCEPT ![p].pc = label],
           UNCHANGED <<tasks, launches>>
    PROVE  SoloInv'
<1> DEFINE r == [proc[p] EXCEPT !.pc = label]
<1>1. proc[p] \in ProcState /\ proc \in [Proc -> ProcState]
  BY DEF TypeOK
<1>2. proc' = [proc EXCEPT ![p] = r]
  OBVIOUS
<1>3. r.pc = label
  BY <1>1 DEF ProcState
<1> HIDE DEF r
<1>4. UpToDate(r, tasks, launches)
  BY <1>3, NothingToUpdate
<1>5. FreshGates(r, goal', gatesPassed')
  BY <1>3 DEF FreshGates
<1>6. BudgetKept(tasks', launches')
  BY DEF SoloInv
<1>7. QED
  BY <1>1, <1>2, <1>4, <1>5, <1>6, SoloMemory

\* Every step of the only process keeps the invariant.
LEMMA SoloStep == OneProcess /\ TypeOK /\ SoloInv /\ [Next]_vars => SoloInv'
<1> SUFFICES ASSUME OneProcess, TypeOK, SoloInv, [Next]_vars PROVE SoloInv'
  OBVIOUS
<1> USE DEF storeVars, procVars, history
<1>a. /\ tasks \in [Task -> TaskRow]
      /\ proc \in [Proc -> ProcState]
      /\ launches \in [Task -> Nat]
      /\ BudgetKept(tasks, launches)
      /\ goal.truth = "VERIFIED_SUCCESS" => gatesPassed = "fresh"
  BY DEF TypeOK, StoreTypeOK, SoloInv
<1>b. ASSUME NEW p \in Proc
      PROVE  /\ proc[p] \in ProcState
             /\ UpToDate(proc[p], tasks, launches)
             /\ FreshGates(proc[p], goal, gatesPassed)
  BY <1>b DEF TypeOK, SoloInv
<1>1. ASSUME NEW p \in Proc, NEW label \in {"enter", "verify"}, NEW execute \in BOOLEAN,
             NEW gates \in BOOLEAN, Call(p, label, 0, execute, gates)
      PROVE  SoloInv'
  <2> DEFINE r == [proc[p] EXCEPT !.pc = label, !.workers = 0, !.execute = execute,
                                  !.gates = gates]
  <2>1. r.pc = label
    BY <1>b DEF ProcState
  <2>2. proc' = [proc EXCEPT ![p] = r]
    BY <1>1 DEF Call
  <2>3. UNCHANGED <<goal, tasks, launches, gatesPassed>>
    BY <1>1 DEF Call
  <2> HIDE DEF r
  <2>4. UpToDate(r, tasks, launches)
    BY <2>1, NothingToUpdate
  <2>5. FreshGates(r, goal, gatesPassed)
    BY <2>1, <1>a DEF FreshGates
  <2>6. QED
    BY <1>a, <2>2, <2>3, <2>4, <2>5, SoloMemory
<1>2. ASSUME NEW p \in Proc, CallResume(p) PROVE SoloInv'
  <2> DEFINE orphans == Orphans(tasks, leases, clock)
             rows == Reconciled(tasks, leases, clock)
             covered == {t \in orphans : leases[t] # NoLease}
  <2>1. \A t \in orphans : tasks[t].status = "RUNNING" /\ rows[t] = ReconciledRow(t, tasks[t])
    BY DEF Orphans, Reconciled
  <2>2. PICK execute \in BOOLEAN, gates \in BOOLEAN :
          proc' = [proc EXCEPT ![p].pc = "reconcile", ![p].execute = execute,
                               ![p].gates = gates, ![p].snap = rows,
                               ![p].todo = orphans, ![p].leased = covered]
    BY <1>2 DEF CallResume
  <2>3. UNCHANGED <<goal, tasks, launches, gatesPassed>>
    BY <1>2 DEF CallResume
  <2> HIDE DEF orphans, covered, rows
  <2> DEFINE r == [proc[p] EXCEPT !.pc = "reconcile", !.execute = execute, !.gates = gates,
                                  !.snap = rows, !.todo = orphans, !.leased = covered]
  <2>4. r.pc = "reconcile" /\ r.snap = rows /\ r.todo = orphans
    BY <1>b DEF ProcState
  <2>5. proc' = [proc EXCEPT ![p] = r]
    BY <2>2
  <2> HIDE DEF r
  <2>6. UpToDate(r, tasks, launches)
    BY <2>1, <2>4 DEF UpToDate
  <2>7. FreshGates(r, goal, gatesPassed)
    BY <2>4, <1>a DEF FreshGates
  <2>8. QED
    BY <1>a, <2>3, <2>5, <2>6, <2>7, SoloMemory
<1>3. ASSUME NEW p \in Proc, SaveReconciled(p) PROVE SoloInv'
  <2>1. \A t \in proc[p].todo :
            tasks[t].status = "RUNNING" /\ proc[p].snap[t] = ReconciledRow(t, tasks[t])
    BY <1>3, <1>b DEF SaveReconciled, At, UpToDate
  <2>2. ASSUME NEW t \in Task
        PROVE  /\ tasks'[t].attempts = tasks[t].attempts
               /\ tasks'[t].status = "PENDING" =>
                      tasks[t].status = "PENDING" \/ Retriable(t, tasks[t])
    <3>1. tasks'[t] = IF t \in proc[p].todo THEN proc[p].snap[t] ELSE tasks[t]
      BY <1>3 DEF SaveReconciled, SaveTasks
    <3>2. QED
      BY <3>1, <2>1, ReconciledRowFacts
  <2>3. BudgetKept(tasks', launches)
    BY <1>a, <2>2, BudgetSameAttempts
  <2>4. UNCHANGED <<goal, launches, gatesPassed>>
    BY <1>3 DEF SaveReconciled
  <2>5. CASE Conclude(p, "BLOCKED", "WAITING_APPROVAL")
    BY <1>a, <2>3, <2>4, <2>5, SoloConclude
  <2>6. CASE proc' = [proc EXCEPT ![p].pc = "enter", ![p].todo = {}, ![p].leased = {}]
    <3> DEFINE r == [proc[p] EXCEPT !.pc = "enter", !.todo = {}, !.leased = {}]
    <3>1. r.pc = "enter"
      BY <1>b DEF ProcState
    <3>2. proc' = [proc EXCEPT ![p] = r]
      BY <2>6
    <3> HIDE DEF r
    <3>3. UpToDate(r, tasks', launches)
      BY <3>1, NothingToUpdate
    <3>4. FreshGates(r, goal, gatesPassed)
      BY <3>1, <1>a DEF FreshGates
    <3>5. QED
      BY <1>a, <2>3, <2>4, <3>2, <3>3, <3>4, SoloMemory
  <2>7. QED
    BY <1>3, <2>5, <2>6 DEF SaveReconciled
<1>4. ASSUME NEW p \in Proc, Enter(p) PROVE SoloInv'
  <2>1. UNCHANGED <<goal, tasks, launches, gatesPassed>>
    BY <1>4 DEF Enter
  <2>2. CASE Leave(p)
    BY <1>a, <2>1, <2>2, SoloLeave
  <2>3. CASE proc' = [proc EXCEPT ![p].pc = "announce"]
    BY <1>a, <2>1, <2>3, SoloMove
  <2>4. QED
    BY <1>4, <2>2, <2>3 DEF Enter
<1>5. ASSUME NEW p \in Proc, Announce(p) PROVE SoloInv'
  <2>1. goal'.truth # "VERIFIED_SUCCESS"
    BY <1>5 DEF Announce, GoalIs
  <2>2. PICK label \in {"scan", "pscan"} : proc' = [proc EXCEPT ![p].pc = label]
    BY <1>5 DEF Announce
  <2>3. UNCHANGED <<tasks, launches>>
    BY <1>5 DEF Announce
  <2>4. QED
    BY <2>1, <2>2, <2>3, SoloMove
<1>6. ASSUME NEW p \in Proc, Scan(p) PROVE SoloInv'
  <2>1. goal.truth # "VERIFIED_SUCCESS"
    BY <1>6, <1>b DEF Scan, At, FreshGates
  <2>2. QED
    BY <1>6, <2>1, SoloReadGraph DEF Scan
<1>7. ASSUME NEW p \in Proc, StartTask(p) PROVE SoloInv'
  <2> DEFINE row(t) == Row("RUNNING", "RUNNING", proc[p].snap[t].attempts + 1)
  <2>1. PICK t \in proc[p].todo :
          /\ tasks' = [tasks EXCEPT ![t] = row(t)]
          /\ proc' = [proc EXCEPT ![p].pc = "exec", ![p].cur = t,
                                  ![p].todo = proc[p].todo \ {t},
                                  ![p].snap = [proc[p].snap EXCEPT ![t] = row(t)]]
    BY <1>7 DEF StartTask
  <2>2. /\ proc[p].pc = "pick" /\ t \in Task /\ proc[p].todo \subseteq Task
        /\ proc[p].snap \in [Task -> TaskRow]
        /\ \A u \in proc[p].todo : tasks[u].status = "PENDING" /\ proc[p].snap[u] = tasks[u]
        /\ goal.truth # "VERIFIED_SUCCESS"
    BY <1>7, <1>b DEF StartTask, At, ProcState, UpToDate, FreshGates
  <2>3. row(t).status = "RUNNING" /\ row(t).attempts = tasks[t].attempts + 1
    BY <2>2 DEF Row
  <2> HIDE DEF row
  <2> DEFINE snap == [proc[p].snap EXCEPT ![t] = row(t)]
             r == [proc[p] EXCEPT !.pc = "exec", !.cur = t, !.todo = proc[p].todo \ {t},
                                  !.snap = snap]
  <2>4. proc' = [proc EXCEPT ![p] = r]
    BY <2>1
  <2>5. /\ snap[t] = row(t) /\ tasks'[t] = row(t)
        /\ \A u \in Task \ {t} : snap[u] = proc[p].snap[u] /\ tasks'[u] = tasks[u]
    BY <2>1, <2>2, <1>a
  <2> HIDE DEF snap
  <2>6. r.pc = "exec" /\ r.cur = t /\ r.todo = proc[p].todo \ {t} /\ r.snap = snap
    BY <1>b DEF ProcState
  <2> HIDE DEF r
  <2>7. UNCHANGED <<goal, launches, gatesPassed>>
    BY <1>7 DEF StartTask
  <2>8. /\ tasks[t].attempts \in Nat /\ launches[t] \in Nat /\ launches[t] <= tasks[t].attempts
        /\ tasks[t].attempts = 0 \/ Retriable(t, tasks[t])
    BY <1>a, <2>2 DEF BudgetKept, TaskRow
  <2>9. BudgetKept(tasks', launches)
    <3> SUFFICES ASSUME NEW u \in Task
                 PROVE  /\ launches[u] <= tasks'[u].attempts
                        /\ \/ tasks'[u].attempts <= 1
                           \/ /\ tasks'[u].attempts <= MaxAttempts
                              /\ tasks'[u].attempts <= RetryLimit
                              /\ tasks'[u].attempts <= TicketRetry
                        /\ u \notin Idempotent \/ u \in Uncertain => tasks'[u].attempts <= 1
                        /\ tasks'[u].status = "PENDING" =>
                               tasks'[u].attempts = 0 \/ Retriable(u, tasks'[u])
      BY DEF BudgetKept
    <3>1. CASE u = t
      <4>1. tasks'[u].attempts = tasks[t].attempts + 1 /\ tasks'[u].status = "RUNNING"
        BY <3>1, <2>3, <2>5
      <4>2. QED
        BY <3>1, <4>1, <2>8, BudgetAssumption DEF Retriable
    <3>2. CASE u # t
      BY <3>2, <2>5, <1>a DEF BudgetKept
    <3>3. QED
      BY <3>1, <3>2
  <2>10. UpToDate(r, tasks', launches)
    <3>1. launches[t] < tasks'[t].attempts
      BY <2>3, <2>5, <2>8
    <3>2. \A u \in r.todo : tasks'[u].status = "PENDING" /\ r.snap[u] = tasks'[u]
      BY <2>2, <2>5, <2>6
    <3>3. r.cur \in Task \ r.todo /\ tasks'[r.cur].status = "RUNNING" /\ r.snap[r.cur] = tasks'[r.cur]
      BY <2>2, <2>3, <2>5, <2>6
    <3>4. QED
      BY <3>1, <3>2, <3>3, <2>6 DEF UpToDate
  <2>11. FreshGates(r, goal, gatesPassed)
    BY <2>2, <2>6 DEF FreshGates
  <2>12. QED
    BY <1>a, <2>4, <2>7, <2>9, <2>10, <2>11, SoloMemory
<1>8. ASSUME NEW p \in Proc, RefuseTask(p) PROVE SoloInv'
  BY <1>8, <1>a, SoloLeave DEF RefuseTask
<1>9. ASSUME NEW p \in Proc, Direct(p) PROVE SoloInv'
  <2> DEFINE r == [proc[p] EXCEPT !.pc = "record", !.ok = TRUE]
  <2>1. /\ r.pc = "record" /\ r.todo = proc[p].todo /\ r.snap = proc[p].snap
        /\ r.cur = proc[p].cur
    BY <1>b DEF ProcState
  <2>2. proc' = [proc EXCEPT ![p] = r]
    BY <1>9 DEF Direct
  <2> HIDE DEF r
  <2>3. UNCHANGED <<goal, tasks, launches, gatesPassed>>
    BY <1>9 DEF Direct
  <2>4. UpToDate(r, tasks, launches)
    BY <1>9, <1>b, <2>1 DEF Direct, At, UpToDate
  <2>5. FreshGates(r, goal, gatesPassed)
    BY <1>9, <1>b, <2>1 DEF Direct, At, FreshGates
  <2>6. QED
    BY <1>a, <2>2, <2>3, <2>4, <2>5, SoloMemory
<1>10. ASSUME NEW p \in Proc, Execute(p) PROVE SoloInv'
  <2>1. PICK success \in BOOLEAN :
          proc' = [proc EXCEPT ![p].pc = "record", ![p].ok = success]
    BY <1>10 DEF Execute
  <2> DEFINE r == [proc[p] EXCEPT !.pc = "record", !.ok = success]
  <2>2. /\ r.pc = "record" /\ r.todo = proc[p].todo /\ r.snap = proc[p].snap
        /\ r.cur = proc[p].cur
    BY <1>b DEF ProcState
  <2>3. proc' = [proc EXCEPT ![p] = r]
    BY <2>1
  <2> HIDE DEF r
  <2>4. /\ UNCHANGED <<goal, tasks>>
        /\ launches' = [launches EXCEPT ![proc[p].cur] = @ + 1]
    BY <1>10 DEF Execute
  <2>5. /\ proc[p].pc = "exec" /\ proc[p].cur \in Task
        /\ launches[proc[p].cur] < tasks[proc[p].cur].attempts
        /\ goal.truth # "VERIFIED_SUCCESS"
    BY <1>10, <1>b DEF Execute, At, UpToDate, FreshGates
  <2>6. BudgetKept(tasks, launches')
    <3> SUFFICES ASSUME NEW u \in Task PROVE launches'[u] <= tasks[u].attempts
      BY <1>a DEF BudgetKept
    <3>1. CASE u = proc[p].cur
      <4>1. launches'[u] = launches[u] + 1 /\ launches[u] \in Nat /\ tasks[u].attempts \in Nat
        BY <3>1, <2>4, <1>a DEF TaskRow
      <4>2. QED
        BY <4>1, <3>1, <2>5
    <3>2. CASE u # proc[p].cur
      BY <3>2, <2>4, <1>a DEF BudgetKept
    <3>3. QED
      BY <3>1, <3>2
  <2>7. UpToDate(r, tasks, launches')
    BY <1>b, <2>2, <2>5 DEF UpToDate
  <2>8. FreshGates(r, goal, gatesPassed')
    BY <2>2, <2>5 DEF FreshGates
  <2>9. QED
    BY <1>a, <2>3, <2>4, <2>6, <2>7, <2>8, SoloMemory
<1>11. ASSUME NEW p \in Proc, Record(p) PROVE SoloInv'
  <2> DEFINE t == proc[p].cur
  <2>1. /\ proc[p].pc = "record" /\ t \in Task \ proc[p].todo
        /\ tasks[t].status = "RUNNING" /\ proc[p].snap[t] = tasks[t]
        /\ \A u \in proc[p].todo : tasks[u].status = "PENDING" /\ proc[p].snap[u] = tasks[u]
        /\ goal.truth # "VERIFIED_SUCCESS"
        /\ proc[p].todo \subseteq Task
    BY <1>11, <1>b DEF Record, At, UpToDate, FreshGates, ProcState
  <2>2. OutcomeRow(p).attempts = tasks[t].attempts /\ OutcomeRow(p).status # "PENDING"
    BY <2>1 DEF OutcomeRow, Row
  <2>3. tasks' = [tasks EXCEPT ![t] = OutcomeRow(p)] /\ UNCHANGED <<goal, launches, gatesPassed>>
    BY <1>11 DEF Record
  <2>4. tasks'[t] = OutcomeRow(p) /\ \A u \in Task \ {t} : tasks'[u] = tasks[u]
    BY <2>1, <2>3, <1>a
  <2>5. BudgetKept(tasks', launches)
    <3>1. \A u \in Task : /\ tasks'[u].attempts = tasks[u].attempts
                          /\ tasks'[u].status = "PENDING" => tasks[u].status = "PENDING"
      BY <2>2, <2>4
    <3>2. QED
      BY <3>1, <1>a, BudgetSameAttempts
  <2>6. CASE proc[p].ok
    <3> DEFINE r == [proc[p] EXCEPT !.pc = "pick", !.cur = NoTask, !.ok = FALSE,
                                    !.progressed = TRUE]
    <3>1. r.pc = "pick" /\ r.progressed /\ r.todo = proc[p].todo /\ r.snap = proc[p].snap
      BY <1>b DEF ProcState
    <3>2. proc' = [proc EXCEPT ![p] = r]
      BY <1>11, <2>6 DEF Record
    <3> HIDE DEF r
    <3>3. \A u \in proc[p].todo : tasks'[u] = tasks[u]
      BY <2>1, <2>4
    <3> HIDE DEF t
    <3>4. UpToDate(r, tasks', launches)
      BY <2>1, <3>1, <3>3 DEF UpToDate
    <3>5. FreshGates(r, goal, gatesPassed)
      BY <2>1, <3>1 DEF FreshGates
    <3>6. QED
      BY <1>a, <2>3, <2>5, <3>2, <3>4, <3>5, SoloMemory
  <2>7. CASE ~proc[p].ok
    <3> DEFINE r == [proc[p] EXCEPT !.pc = "blockread", !.cur = NoTask]
    <3>1. r.pc = "blockread"
      BY <1>b DEF ProcState
    <3>2. proc' = [proc EXCEPT ![p] = r]
      BY <1>11, <2>7 DEF Record
    <3> HIDE DEF r
    <3>4. UpToDate(r, tasks', launches)
      BY <3>1, NothingToUpdate
    <3>5. FreshGates(r, goal, gatesPassed)
      BY <2>1, <3>1 DEF FreshGates
    <3>6. QED
      BY <1>a, <2>3, <2>5, <3>2, <3>4, <3>5, SoloMemory
  <2>8. QED
    BY <2>6, <2>7
<1>12. ASSUME NEW p \in Proc, ReadForBlocking(p) PROVE SoloInv'
  <2> DEFINE rows == PropagateFailures(DependsOn, tasks)
             blocked == NewlyBlocked(DependsOn, tasks)
             r == [proc[p] EXCEPT !.pc = "blocksave", !.snap = rows, !.todo = blocked]
  <2>1. proc' = [proc EXCEPT ![p] = r]
    BY <1>12 DEF ReadForBlocking
  <2>2. UNCHANGED <<goal, tasks, launches, gatesPassed>>
    BY <1>12 DEF ReadForBlocking
  <2>3. r.pc = "blocksave" /\ r.snap = rows /\ r.todo = blocked
    BY <1>b DEF ProcState
  <2> HIDE DEF r
  <2>4. UpToDate(r, tasks, launches)
    BY <2>3 DEF UpToDate
  <2>5. FreshGates(r, goal, gatesPassed)
    BY <1>12, <1>b, <2>3 DEF ReadForBlocking, At, FreshGates
  <2>6. QED
    BY <1>a, <2>1, <2>2, <2>4, <2>5, SoloMemory
<1>13. ASSUME NEW p \in Proc, SaveBlocked(p) PROVE SoloInv'
  <2>1. /\ proc[p].todo = NewlyBlocked(DependsOn, tasks)
        /\ proc[p].snap = PropagateFailures(DependsOn, tasks)
    BY <1>13, <1>b DEF SaveBlocked, At, UpToDate
  <2>2. ASSUME NEW t \in Task
        PROVE  /\ tasks'[t].attempts = tasks[t].attempts
               /\ tasks'[t].status = "PENDING" => tasks[t].status = "PENDING"
    <3>1. tasks'[t] = IF t \in proc[p].todo THEN proc[p].snap[t] ELSE tasks[t]
      BY <1>13 DEF SaveBlocked, SaveTasks
    <3>2. QED
      BY <3>1, <2>1, <1>a, PropagatedRow
  <2>3. BudgetKept(tasks', launches)
    BY <1>a, <2>2, BudgetSameAttempts
  <2>4. UNCHANGED <<goal, launches, gatesPassed>> /\ Conclude(p, "FAILED", "EXECUTION_FAILED")
    BY <1>13 DEF SaveBlocked
  <2>5. QED
    BY <1>a, <2>3, <2>4, SoloConclude
<1>14. ASSUME NEW p \in Proc, EndPass(p) PROVE SoloInv'
  <2>1. UNCHANGED <<goal, tasks, launches, gatesPassed>>
    BY <1>14 DEF EndPass
  <2>2. proc[p].pc = "pick" /\ proc[p].todo = {} /\ goal.truth # "VERIFIED_SUCCESS"
    BY <1>14, <1>b DEF EndPass, At, FreshGates
  <2>3. CASE Conclude(p, "BLOCKED", "BLOCKED")
    BY <1>a, <2>1, <2>3, SoloConclude
  <2>4. CASE ReadGraph(p, "pick")
    BY <2>1, <2>2, <2>4, SoloReadGraph
  <2>5. CASE proc' = [proc EXCEPT ![p].pc = "conclude"] /\ ~proc[p].progressed
    <3> DEFINE r == [proc[p] EXCEPT !.pc = "conclude"]
    <3>1. r.pc = "conclude" /\ r.execute = proc[p].execute
      BY <1>b DEF ProcState
    <3>2. proc' = [proc EXCEPT ![p] = r]
      BY <2>5
    <3> HIDE DEF r
    <3>3. UpToDate(r, tasks, launches)
      BY <1>b, <2>2, <2>5, <3>1 DEF UpToDate
    <3>4. FreshGates(r, goal, gatesPassed)
      BY <2>2, <3>1 DEF FreshGates
    <3>5. QED
      BY <1>a, <2>1, <3>2, <3>3, <3>4, SoloMemory
  <2>6. QED
    BY <1>14, <2>3, <2>4, <2>5 DEF EndPass
<1>15. ASSUME NEW p \in Proc, Decide(p) PROVE SoloInv'
  <2>1. UNCHANGED <<goal, tasks, launches, gatesPassed>>
    BY <1>15 DEF Decide
  <2>2. ASSUME NEW status, NEW truth, truth # "VERIFIED_SUCCESS", Conclude(p, status, truth)
        PROVE  SoloInv'
    BY <1>a, <2>1, <2>2, SoloConclude
  <2>3. CASE proc' = [proc EXCEPT ![p].pc = "verify"]
    BY <1>a, <2>1, <2>3, SoloMove
  <2>4. QED
    BY <1>15, <2>2, <2>3 DEF Decide
<1>16. ASSUME NEW p \in Proc, Finish(p) PROVE SoloInv'
  <2>1. goal'.truth = "VERIFIED_SUCCESS" => gatesPassed' = "fresh"
    BY <1>16, <1>b DEF Finish, At, FreshGates
  <2>2. QED
    BY <1>16, <1>a, <2>1, SoloLeave DEF Finish
<1>17. ASSUME NEW p \in Proc, ReadForVerify(p) PROVE SoloInv'
  <2> DEFINE g == GoalIs("VERIFYING", goal.truth)
             r == [proc[p] EXCEPT !.pc = "mark", !.verdict = g]
  <2>1. proc' = [proc EXCEPT ![p] = r]
    BY <1>17 DEF ReadForVerify
  <2>2. UNCHANGED <<goal, tasks, launches, gatesPassed>>
    BY <1>17 DEF ReadForVerify
  <2>3. g.truth = goal.truth
    BY DEF GoalIs
  <2> HIDE DEF g
  <2>4. r.pc = "mark" /\ r.verdict = g
    BY <1>b DEF ProcState
  <2> HIDE DEF r
  <2>5. UpToDate(r, tasks, launches)
    BY <2>4, NothingToUpdate
  <2>6. FreshGates(r, goal, gatesPassed)
    BY <1>a, <2>3, <2>4 DEF FreshGates
  <2>7. QED
    BY <1>a, <2>1, <2>2, <2>5, <2>6, SoloMemory
<1>18. ASSUME NEW p \in Proc, MarkVerifying(p) PROVE SoloInv'
  <2>1. goal'.truth = "VERIFIED_SUCCESS" => gatesPassed' = "fresh"
    BY <1>18, <1>b DEF MarkVerifying, At, FreshGates
  <2>2. QED
    BY <1>18, <2>1, SoloMove DEF MarkVerifying
<1>19. ASSUME NEW p \in Proc, RunGates(p) PROVE SoloInv'
  <2>1. PICK passed \in BOOLEAN :
          /\ proc' = [proc EXCEPT ![p].pc = "judge", ![p].ok = passed]
          /\ gatesPassed' = IF passed /\ proc[p].gates THEN "fresh" ELSE gatesPassed
    BY <1>19 DEF RunGates
  <2> DEFINE r == [proc[p] EXCEPT !.pc = "judge", !.ok = passed]
  <2>2. r.pc = "judge" /\ r.ok = passed /\ r.gates = proc[p].gates
    BY <1>b DEF ProcState
  <2>3. proc' = [proc EXCEPT ![p] = r]
    BY <2>1
  <2> HIDE DEF r
  <2>4. UNCHANGED <<goal, tasks, launches>>
    BY <1>19 DEF RunGates
  <2>5. UpToDate(r, tasks, launches)
    BY <2>2, NothingToUpdate
  <2>6. FreshGates(r, goal, gatesPassed')
    BY <1>a, <2>1, <2>2 DEF FreshGates
  <2>7. QED
    BY <1>a, <2>3, <2>4, <2>5, <2>6, SoloMemory
<1>20. ASSUME NEW p \in Proc, Judge(p) PROVE SoloInv'
  <2>1. VerdictOf(p).truth = "VERIFIED_SUCCESS" => proc[p].ok /\ proc[p].gates
    BY DEF VerdictOf, GoalIs
  <2>2. VerdictOf(p).truth = "VERIFIED_SUCCESS" => gatesPassed = "fresh"
    BY <1>20, <1>b, <2>1 DEF Judge, At, FreshGates
  <2>3. QED
    BY <1>20, <1>a, <2>2, SoloConclude DEF Judge
<1>21. ASSUME CancelGoal PROVE SoloInv'
  <2>1. goal'.truth # "VERIFIED_SUCCESS" /\ UNCHANGED <<tasks, proc, launches, gatesPassed>>
    BY <1>21 DEF CancelGoal, GoalIs
  <2>2. ASSUME NEW q \in Proc PROVE FreshGates(proc[q], goal', gatesPassed)
    BY <1>b, <2>1 DEF FreshGates
  <2>3. QED
    BY <1>b, <1>a, <2>1, <2>2 DEF SoloInv
<1>22. ASSUME RecordCost PROVE SoloInv'
  BY <1>22 DEF RecordCost, SoloInv
<1>23. ASSUME NEW p \in Proc, Crash(p) PROVE SoloInv'
  BY <1>23, <1>a, SoloLeave DEF Crash
<1>24. CASE UNCHANGED vars
  BY <1>24 DEF vars, SoloInv
<1>25. QED
  BY <1>1, <1>2, <1>3, <1>4, <1>5, <1>6, <1>7, <1>8, <1>9, <1>10, <1>11, <1>12, <1>13, <1>14,
     <1>15, <1>16, <1>17, <1>18, <1>19, <1>20, <1>21, <1>22, <1>23, <1>24
     DEF Next, Progress, Step, CallRun, CallVerify

\* A goal just created has made no attempt and claims nothing.
LEMMA SoloInit == Init => SoloInv
<1> SUFFICES ASSUME Init PROVE SoloInv
  OBVIOUS
<1>1. BudgetKept(tasks, launches) /\ goal.truth # "VERIFIED_SUCCESS"
  BY DEF Init, StoreInit, BudgetKept, Row, GoalIs
<1>2. ASSUME NEW p \in Proc
      PROVE  UpToDate(proc[p], tasks, launches) /\ FreshGates(proc[p], goal, gatesPassed)
  BY <1>1, NothingToUpdate DEF Init, IdleProc, FreshGates
<1>3. QED
  BY <1>1, <1>2 DEF SoloInv

\* With one process, what run_goal, resume_goal and verify_goal remember agrees
\* with the store, attempts pay for every start, and claims of success rest on
\* fresh gates.
THEOREM SoloInvCorrect == ASSUME OneProcess PROVE Spec => []SoloInv
<1>1. TypeOK /\ SoloInv /\ [Next]_vars => SoloInv'
  BY SoloStep
<1>2. QED
  BY <1>1, SoloInit, TypeCorrect, PTL DEF Spec

\* A command that must not be repeated is started once at most: resume_goal
\* leaves its orphan to a human.
THEOREM NoRepeatedSideEffectHolds == ASSUME OneProcess PROVE Spec => []NoRepeatedSideEffect
<1>1. TypeOK /\ SoloInv => NoRepeatedSideEffect
  BY DEF TypeOK, StoreTypeOK, TaskRow, SoloInv, BudgetKept, NoRepeatedSideEffect
<1>2. QED
  BY <1>1, SoloInvCorrect, TypeCorrect, PTL

\* What attempts pay for stays within every budget.
LEMMA PaidStarts == TypeOK /\ SoloInv => RetryWithinBudget
<1> SUFFICES ASSUME TypeOK, SoloInv, NEW t \in Task
             PROVE  \/ launches[t] <= 1
                    \/ /\ launches[t] <= MaxAttempts
                       /\ launches[t] <= RetryLimit
                       /\ launches[t] <= TicketRetry
  BY DEF RetryWithinBudget
<1>1. launches[t] \in Nat /\ tasks[t].attempts \in Nat
  BY DEF TypeOK, StoreTypeOK, TaskRow
<1>2. /\ launches[t] <= tasks[t].attempts
      /\ \/ tasks[t].attempts <= 1
         \/ /\ tasks[t].attempts <= MaxAttempts
            /\ tasks[t].attempts <= RetryLimit
            /\ tasks[t].attempts <= TicketRetry
  BY DEF SoloInv, BudgetKept
<1>3. QED
  BY <1>1, <1>2, BudgetAssumption

\* Crashing and resuming anywhere, resume_goal never starts a command more
\* often than its attempts, the goal's retry limit and the ticket allow.
THEOREM RetryWithinBudgetHolds == ASSUME OneProcess PROVE Spec => []RetryWithinBudget
BY PaidStarts, SoloInvCorrect, TypeCorrect, PTL

\* verify_goal's VERIFIED_SUCCESS rests on gates run after the last command:
\* run_goal takes the claim back, saving RUNNING, before it starts anything.
THEOREM GatesAfterWorkHolds == ASSUME OneProcess PROVE Spec => []GatesAfterWork
<1>1. SoloInv => GatesAfterWork
  BY DEF SoloInv, GatesAfterWork
<1>2. QED
  BY <1>1, SoloInvCorrect, PTL

\* run_goal leaves its loop only when the stored rows have no ready task.
THEOREM NoReadyTaskLeftHolds == ASSUME OneProcess PROVE Spec => []NoReadyTaskLeft
<1>1. SoloInv => NoReadyTaskLeft
  BY DEF SoloInv, UpToDate, ReadyIn, NoReadyTaskLeft, At
<1>2. QED
  BY <1>1, SoloInvCorrect, PTL

\* No step changes a COMPLETED row.
LEMMA CompletedStep ==
    ASSUME TypeOK, SoloInv, [Next]_vars, NEW t \in Task, tasks[t].status = "COMPLETED"
    PROVE  tasks'[t] = tasks[t]
<1> USE DEF storeVars, procVars, history
<1>a. ASSUME NEW p \in Proc
      PROVE  /\ proc[p] \in ProcState /\ UpToDate(proc[p], tasks, launches)
             /\ tasks \in [Task -> TaskRow]
  BY <1>a DEF TypeOK, StoreTypeOK, SoloInv
<1>1. ASSUME NEW p \in Proc, SaveReconciled(p) PROVE tasks'[t] = tasks[t]
  BY <1>1, <1>a DEF SaveReconciled, SaveTasks, At, UpToDate
<1>2. ASSUME NEW p \in Proc, StartTask(p) PROVE tasks'[t] = tasks[t]
  BY <1>2, <1>a DEF StartTask, At, UpToDate
<1>3. ASSUME NEW p \in Proc, Record(p) PROVE tasks'[t] = tasks[t]
  BY <1>3, <1>a DEF Record, At, UpToDate
<1>4. ASSUME NEW p \in Proc, SaveBlocked(p) PROVE tasks'[t] = tasks[t]
  <2>1. proc[p].todo = NewlyBlocked(DependsOn, tasks)
    BY <1>4, <1>a DEF SaveBlocked, At, UpToDate
  <2>2. t \notin proc[p].todo
    BY <2>1, BlockedArePending
  <2>3. QED
    BY <1>4, <2>2 DEF SaveBlocked, SaveTasks
<1>5. ASSUME NEW p \in Proc,
             \/ CallRun(p) \/ CallVerify(p) \/ CallResume(p) \/ Enter(p) \/ Announce(p)
             \/ Scan(p) \/ RefuseTask(p) \/ Direct(p) \/ Execute(p) \/ ReadForBlocking(p)
             \/ EndPass(p) \/ Decide(p) \/ Finish(p) \/ ReadForVerify(p) \/ MarkVerifying(p)
             \/ RunGates(p) \/ Judge(p) \/ Crash(p)
      PROVE  UNCHANGED tasks
  BY <1>5, Zenon
     DEF CallRun, CallVerify, Call, CallResume, Enter, Announce, Scan, RefuseTask, Direct,
         Execute, ReadForBlocking, EndPass, Decide, Finish, ReadForVerify, MarkVerifying,
         RunGates, Judge, Crash
<1>6. CancelGoal \/ RecordCost \/ UNCHANGED vars => UNCHANGED tasks
  BY DEF CancelGoal, RecordCost, vars
<1>7. QED
  BY <1>1, <1>2, <1>3, <1>4, <1>5, <1>6 DEF Next, Progress, Step

\* No save of run_goal, resume_goal or their reconciliation takes the result
\* of a completed task back.
THEOREM CompletedIsFinalHolds == ASSUME OneProcess PROVE Spec => CompletedIsFinal
<1>1. TypeOK /\ SoloInv /\ [Next]_vars
        => [\A t \in Task : tasks[t].status = "COMPLETED" => tasks'[t] = tasks[t]]_vars
  BY CompletedStep
<1>2. QED
  BY <1>1, SoloInvCorrect, TypeCorrect, PTL DEF Spec, CompletedIsFinal
=============================================================================
