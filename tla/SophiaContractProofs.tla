------------------------- MODULE SophiaContractProofs -------------------------
(***************************************************************************)
(* What the Sophia contract promises, for any task graph and any number of *)
(* callers, whose operations may overlap.  Any number of processes: what   *)
(* Sophia may claim of a goal was earned, and a task held for approval is  *)
(* not started.  One process that runs the goal: reconciliation repeats    *)
(* nothing.                                                                *)
(*                                                                         *)
(* The goal is run by the steps of GoalRun, so its rows and the memories   *)
(* of the processes are backed by evidence as in GoalRunProofs; the rows   *)
(* and the truth an operation of the contract carries from one store call  *)
(* to the next have to be backed by it as well.                            *)
(***************************************************************************)
EXTENDS SophiaContract, GoalRunProofs

(***************************************************************************)
(* The inductive invariant                                                 *)
(***************************************************************************)

\* All the work of the goal is done and real gates have passed.
Earned == Task # {} /\ Task \subseteq ranOk /\ gatesPassed # "never"

\* Only an earned success is carried from call to call.
CarriedOK ==
    /\ ticket = "VERIFIED_SUCCESS" => Earned
    /\ submit.truth = "VERIFIED_SUCCESS" => Earned
    /\ \A d \in Desk : /\ RowsOK(desk[d].rows, ranOk)
                       /\ desk[d].truth = "VERIFIED_SUCCESS" => Earned

SophiaInv == SophiaTypeOK /\ EvidenceInv /\ CarriedOK

DeskState ==
    [pc : DeskPC, rows : [Task -> TaskRow], todo : SUBSET Task,
     truth : TruthStatus, run : {"none", "passed", "failed"}]

SubmitState ==
    [pc : {"planned", "call", "run", "truth", "done"}, by : Proc, truth : TruthStatus]

(***************************************************************************)
(* Evidence                                                                *)
(***************************************************************************)

\* What has been done stays done.
LEMMA EvidenceGrows ==
    ASSUME [Next]_vars
    PROVE  ranOk \subseteq ranOk' /\ (gatesPassed # "never" => gatesPassed' # "never")
<1> USE DEF history
<1>1. ASSUME NEW p \in Proc, Execute(p)
      PROVE  ranOk \subseteq ranOk' /\ (gatesPassed # "never" => gatesPassed' # "never")
  BY <1>1 DEF Execute
<1>2. ASSUME NEW p \in Proc, RunGates(p)
      PROVE  ranOk \subseteq ranOk' /\ (gatesPassed # "never" => gatesPassed' # "never")
  BY <1>2 DEF RunGates
<1>3. ASSUME UNCHANGED <<ranOk, gatesPassed>>
      PROVE  ranOk \subseteq ranOk' /\ (gatesPassed # "never" => gatesPassed' # "never")
  BY <1>3
<1>4. ASSUME NEW p \in Proc, Step(p), ~Execute(p), ~RunGates(p)
      PROVE  UNCHANGED <<ranOk, gatesPassed>>
  BY <1>4 DEF Step, SaveReconciled, Enter, Announce, Scan, StartTask, RefuseTask, Direct, Record,
              ReadForBlocking, SaveBlocked, EndPass, Decide, Finish, ReadForVerify,
              MarkVerifying, Judge
<1>5. ASSUME NEW p \in Proc, CallRun(p) \/ CallVerify(p) \/ CallResume(p) \/ Crash(p)
      PROVE  UNCHANGED <<ranOk, gatesPassed>>
  BY <1>5 DEF CallRun, CallVerify, CallResume, Call, Crash
<1>6. ASSUME CancelGoal \/ RecordCost \/ UNCHANGED vars
      PROVE  UNCHANGED <<ranOk, gatesPassed>>
  BY <1>6 DEF CancelGoal, RecordCost, vars
<1>7. QED
  BY <1>1, <1>2, <1>3, <1>4, <1>5, <1>6 DEF Next, Progress

\* So what was earned stays earned, and rows that were backed by evidence
\* still are.
LEMMA EarnedStays ==
    ASSUME [Next]_vars, NEW rows
    PROVE  /\ Earned => Earned'
           /\ RowsOK(rows, ranOk) => RowsOK(rows, ranOk')
BY EvidenceGrows, RowsMonotone DEF Earned

\* A step of GoalRun that leaves what is carried alone keeps the invariant.
LEMMA GoalStep ==
    ASSUME SophiaInv, [Next]_vars
    PROVE  /\ TypeOK' /\ EvidenceInv'
           /\ Earned => Earned'
           /\ \A d \in Desk : RowsOK(desk[d].rows, ranOk')
<1>1. TypeOK /\ EvidenceInv /\ \A d \in Desk : RowsOK(desk[d].rows, ranOk)
  BY DEF SophiaInv, SophiaTypeOK, CarriedOK
<1>2. QED
  BY <1>1, TypeStep, EvidenceStep, EarnedStays

\* Saving backed rows, as an operation of the contract does, keeps it too.
LEMMA SaveStep ==
    ASSUME SophiaInv,
           tasks' \in [Task -> TaskRow], RowsOK(tasks', ranOk),
           goal' \in GoalRow, GoalRowOK(goal', ranOk, gatesPassed),
           leases' \in [Task -> Nat],
           UNCHANGED <<clock, procVars, refused, history>>
    PROVE  /\ TypeOK' /\ EvidenceInv'
           /\ Earned => Earned'
           /\ ranOk' = ranOk
<1>1. TypeOK /\ EvidenceInv
  BY DEF SophiaInv, SophiaTypeOK
<1>2. TypeOK'
  BY <1>1 DEF TypeOK, StoreTypeOK, procVars, history
<1>3. UNCHANGED <<proc, launches, ranOk, gatesPassed>>
  BY DEF procVars, history
<1>4. EvidenceInv'
  BY <1>1, <1>3 DEF EvidenceInv, RealWorkOnRealWork
<1>5. QED
  BY <1>2, <1>3, <1>4 DEF Earned

(***************************************************************************)
(* What is carried                                                         *)
(***************************************************************************)

\* Memory of the desk with other typed fields is typed.
LEMMA DeskType ==
    ASSUME NEW m \in DeskState, NEW label \in DeskPC
    PROVE  /\ [m EXCEPT !.pc = label] \in DeskState
           /\ [m EXCEPT !.pc = label].pc = label
           /\ [m EXCEPT !.pc = label].rows = m.rows
           /\ [m EXCEPT !.pc = label].truth = m.truth
BY DEF DeskState

\* The labels of the desk.
LEMMA DeskLabels ==
    /\ "idle" \in DeskPC /\ "rows" \in DeskPC /\ "goal" \in DeskPC /\ "ticket" \in DeskPC
    /\ "reconcile" \in DeskPC /\ "outcome" \in DeskPC /\ "read" \in DeskPC
    /\ "verified" \in DeskPC /\ "status" \in DeskPC
BY DEF DeskPC

LEMMA Truths ==
    /\ "PLANNED" \in TruthStatus /\ "CANCELLED" \in TruthStatus /\ "RUNNING" \in TruthStatus
    /\ "WAITING_APPROVAL" \in TruthStatus
BY DEF TruthStatus

\* The idle desk claims nothing.
LEMMA IdleDeskOK ==
    /\ IdleDesk \in DeskState
    /\ IdleDesk.truth = "PLANNED"
    /\ \A done : RowsOK(IdleDesk.rows, done)
BY DEF IdleDesk, DeskState, DeskPC, Row, TaskRow, TaskStatus, TruthStatus, RowsOK

\* A row held for approval is a row, and claims nothing.
LEMMA HeldRow ==
    ASSUME NEW rows \in [Task -> TaskRow], NEW S, NEW done, RowsOK(rows, done)
    PROVE  LET marked == [t \in Task |-> IF t \in S
                                         THEN Row("BLOCKED", "WAITING_APPROVAL", rows[t].attempts)
                                         ELSE rows[t]]
           IN  marked \in [Task -> TaskRow] /\ RowsOK(marked, done)
BY DEF Row, TaskRow, TaskStatus, TruthStatus, RowsOK

\* The parts of the invariant, put together.
LEMMA Together ==
    ASSUME TypeOK', EvidenceInv',
           ticket' \in TruthStatus, latest' \in {"none", "passed", "failed"},
           submit' \in SubmitState, desk' \in [Desk -> DeskState], requests' \in Nat,
           held' \subseteq Task, clobbered' \in BOOLEAN,
           ticket' = "VERIFIED_SUCCESS" => Earned',
           submit'.truth = "VERIFIED_SUCCESS" => Earned',
           \A d \in Desk : /\ RowsOK(desk'[d].rows, ranOk')
                           /\ desk'[d].truth = "VERIFIED_SUCCESS" => Earned'
    PROVE  SophiaInv'
<1>1. SophiaTypeOK'
  BY DEF SophiaTypeOK, SubmitState, DeskState
<1>2. CarriedOK'
  BY DEF CarriedOK, RowsOK
<1>3. QED
  BY <1>1, <1>2 DEF SophiaInv

\* The invariant, taken apart.
LEMMA Apart ==
    ASSUME SophiaInv
    PROVE  /\ TypeOK /\ EvidenceInv
           /\ ticket \in TruthStatus
           /\ latest \in {"none", "passed", "failed"}
           /\ submit \in SubmitState
           /\ desk \in [Desk -> DeskState]
           /\ requests \in Nat
           /\ held \subseteq Task
           /\ clobbered \in BOOLEAN
           /\ ticket = "VERIFIED_SUCCESS" => Earned
           /\ submit.truth = "VERIFIED_SUCCESS" => Earned
           /\ \A d \in Desk : /\ RowsOK(desk[d].rows, ranOk)
                              /\ desk[d].truth = "VERIFIED_SUCCESS" => Earned
BY DEF SophiaInv, SophiaTypeOK, CarriedOK, SubmitState, DeskState

(***************************************************************************)
(* Steps that run the goal                                                 *)
(***************************************************************************)

\* Whatever the desk and submit_task do not change stays as it was.
LEMMA RunningStep ==
    ASSUME SophiaInv, [Next]_vars, UNCHANGED deskVars,
           ticket' \in TruthStatus, latest' \in {"none", "passed", "failed"},
           submit' \in SubmitState,
           ticket' = "VERIFIED_SUCCESS" => Earned,
           submit'.truth = "VERIFIED_SUCCESS" => Earned
    PROVE  SophiaInv'
<1>1. TypeOK' /\ EvidenceInv' /\ (Earned => Earned') /\ \A d \in Desk : RowsOK(desk[d].rows, ranOk')
  BY GoalStep
<1>2. UNCHANGED <<desk, requests, held, clobbered>>
  BY DEF deskVars
<1>3. QED
  BY <1>1, <1>2, Apart, Together

\* submit_task without the run.
LEMMA SubmitKeeps ==
    ASSUME SophiaInv, SubmitOnly \/ SubmitRunning \/ SubmitCall \/ SubmitTruth
    PROVE  SophiaInv'
<1> USE Apart
<1>1. CASE SubmitOnly
  BY <1>1, RunningStep DEF SubmitOnly, SubmitState
<1>2. CASE SubmitRunning
  BY <1>2, RunningStep, Truths DEF SubmitRunning, SubmitState
<1>3. CASE SubmitCall
  <2>1. submit.by \in Proc /\ CallRun(submit.by)
    BY <1>3 DEF SubmitCall, SubmitState
  <2>2. [Next]_vars
    BY <2>1 DEF Next, Progress
  <2>3. QED
    BY <1>3, <2>2, RunningStep DEF SubmitCall, SubmitState
<1>4. CASE SubmitTruth
  BY <1>4, RunningStep DEF SubmitTruth, SubmitState
<1>5. QED
  BY <1>1, <1>2, <1>3, <1>4

\* The truth submit_task takes from the run is the one the goal was saved with.
LEMMA RunKeeps ==
    ASSUME SophiaInv, NEW p \in Proc, RunStep(p)
    PROVE  SophiaInv'
<1> USE Apart
<1>1. [Next]_vars
  BY DEF RunStep, Next, Progress
<1>2. UNCHANGED deskVars /\ ticket' = ticket
  BY DEF RunStep
<1>3. latest' \in {"none", "passed", "failed"}
  BY DEF RunStep
<1>4. /\ proc[p].verdict.truth \in TruthStatus
      /\ proc[p].verdict.truth = "VERIFIED_SUCCESS" => Earned
  BY DEF TypeOK, ProcState, GoalRow, EvidenceInv, MemoryOK, GoalRowOK, Earned
<1>5. /\ submit' \in SubmitState
      /\ submit'.truth = "VERIFIED_SUCCESS" => Earned
  <2>1. CASE submit' = submit
    BY <2>1
  <2>2. CASE submit' = [submit EXCEPT !.pc = "done"]
    BY <2>2 DEF SubmitState
  <2>3. CASE submit' = [submit EXCEPT !.pc = "truth", !.truth = proc[p].verdict.truth]
    BY <2>3, <1>4 DEF SubmitState
  <2>4. QED
    BY <2>1, <2>2, <2>3 DEF RunStep, AfterStep
<1>6. QED
  BY <1>1, <1>2, <1>3, <1>5, RunningStep

\* The command line, and crashes.
LEMMA OthersKeep ==
    ASSUME SophiaInv, NEW p \in Proc, CommandLine(p) \/ ProcessCrash(p)
    PROVE  SophiaInv'
<1> USE Apart
<1>1. CASE CommandLine(p)
  <2>1. [Next]_vars
    BY <1>1 DEF CommandLine, Next, Progress
  <2>2. QED
    BY <1>1, <2>1, RunningStep DEF CommandLine
<1>2. CASE ProcessCrash(p)
  <2>1. [Next]_vars
    BY <1>2 DEF ProcessCrash, Next
  <2>2. submit' = submit \/ submit' = [submit EXCEPT !.pc = "done"]
    BY <1>2 DEF ProcessCrash
  <2>3. submit' \in SubmitState /\ submit'.truth = submit.truth
    BY <2>2 DEF SubmitState
  <2>4. QED
    BY <1>2, <2>1, <2>3, RunningStep DEF ProcessCrash
<1>3. QED
  BY <1>1, <1>2

(***************************************************************************)
(* Steps of the desk                                                       *)
(***************************************************************************)

\* A caller goes on; the others stay where they are.
LEMMA DeskMoves ==
    ASSUME SophiaInv, NEW d \in Desk, NEW m \in DeskState, DeskTo(d, m)
    PROVE  /\ desk' \in [Desk -> DeskState] /\ requests' \in Nat
           /\ desk'[d] = m /\ \A e \in Desk \ {d} : desk'[e] = desk[e]
BY Apart DEF DeskTo

\* A step of the desk that reads, or writes the ticket.
LEMMA DeskKeeps ==
    ASSUME SophiaInv, [Next]_vars, NEW d \in Desk, NEW m \in DeskState, DeskTo(d, m),
           RowsOK(m.rows, ranOk), m.truth = "VERIFIED_SUCCESS" => Earned,
           ticket' \in TruthStatus, ticket' = "VERIFIED_SUCCESS" => Earned,
           UNCHANGED <<latest, submit, held, clobbered>>
    PROVE  SophiaInv'
<1>1. TypeOK' /\ EvidenceInv' /\ (Earned => Earned') /\ \A e \in Desk : RowsOK(desk[e].rows, ranOk')
  BY GoalStep
<1>2. RowsOK(m.rows, ranOk')
  BY EarnedStays
<1>3. /\ desk' \in [Desk -> DeskState] /\ requests' \in Nat
      /\ desk'[d] = m /\ \A e \in Desk \ {d} : desk'[e] = desk[e]
  BY DeskMoves
<1>4. ASSUME NEW e \in Desk
      PROVE  RowsOK(desk'[e].rows, ranOk') /\ (desk'[e].truth = "VERIFIED_SUCCESS" => Earned')
  BY <1>1, <1>2, <1>3, Apart
<1>5. QED
  BY <1>1, <1>3, <1>4, Apart, Together

\* A step of the desk that saves rows.
LEMMA DeskSaves ==
    ASSUME SophiaInv, NEW d \in Desk, NEW m \in DeskState, DeskTo(d, m),
           RowsOK(m.rows, ranOk), m.truth = "VERIFIED_SUCCESS" => Earned,
           tasks' \in [Task -> TaskRow], RowsOK(tasks', ranOk),
           goal' \in GoalRow, GoalRowOK(goal', ranOk, gatesPassed),
           leases' \in [Task -> Nat], held' \subseteq Task, clobbered' \in BOOLEAN,
           UNCHANGED <<clock, procVars, refused, history, ticket, latest, submit>>
    PROVE  SophiaInv'
<1>1. TypeOK' /\ EvidenceInv' /\ (Earned => Earned') /\ ranOk' = ranOk
  BY SaveStep
<1>2. /\ desk' \in [Desk -> DeskState] /\ requests' \in Nat
      /\ desk'[d] = m /\ \A e \in Desk \ {d} : desk'[e] = desk[e]
  BY DeskMoves
<1>3. ASSUME NEW e \in Desk
      PROVE  RowsOK(desk'[e].rows, ranOk') /\ (desk'[e].truth = "VERIFIED_SUCCESS" => Earned')
  BY <1>1, <1>2, Apart
<1>4. QED
  BY <1>1, <1>2, <1>3, Apart, Together

\* The operations begin.
LEMMA BeginKeeps ==
    ASSUME SophiaInv, NEW d \in Desk, RequestCancel(d) \/ ApprovalRead(d) \/ ReconcileRead(d) \/ StatusTicket(d)
    PROVE  SophiaInv'
<1> USE Apart, IdleDeskOK, DeskLabels, Truths
<1>0. tasks \in [Task -> TaskRow] /\ RowsOK(tasks, ranOk)
  BY DEF TypeOK, StoreTypeOK, EvidenceInv
<1>1. CASE RequestCancel(d)
  <2>1. [Next]_vars
    BY <1>1 DEF RequestCancel, Next, Progress
  <2> DEFINE m == [IdleDesk EXCEPT !.pc = "ticket", !.truth = "CANCELLED"]
  <2>2. m \in DeskState /\ m.rows = IdleDesk.rows /\ m.truth = "CANCELLED"
    BY DEF DeskState
  <2>3. DeskTo(d, m) /\ UNCHANGED <<ticket, latest, submit, held, clobbered>>
    BY <1>1 DEF RequestCancel
  <2> HIDE DEF m
  <2>4. QED
    BY <2>1, <2>2, <2>3, DeskKeeps
<1>2. CASE ApprovalRead(d)
  <2>1. [Next]_vars
    BY <1>2 DEF ApprovalRead
  <2>2. PICK S \in {Task} \cup {{t} : t \in Task} :
            DeskTo(d, [IdleDesk EXCEPT !.pc = "rows", !.todo = S,
                      !.rows = [t \in Task |-> IF t \in S THEN Row("BLOCKED", "WAITING_APPROVAL", tasks[t].attempts)
                                               ELSE tasks[t]]])
    BY <1>2 DEF ApprovalRead
  <2> DEFINE marked == [t \in Task |-> IF t \in S THEN Row("BLOCKED", "WAITING_APPROVAL", tasks[t].attempts)
                                       ELSE tasks[t]]
             m == [IdleDesk EXCEPT !.pc = "rows", !.todo = S, !.rows = marked]
  <2>3. marked \in [Task -> TaskRow] /\ RowsOK(marked, ranOk)
    BY <1>0, HeldRow
  <2>4. DeskTo(d, m)
    BY <2>2
  <2> HIDE DEF marked
  <2>5. m \in DeskState /\ m.rows = marked /\ m.truth = "PLANNED"
    <3>1. [IdleDesk EXCEPT !.pc = "rows", !.todo = S] \in DeskState
      BY DEF DeskState
    <3>2. QED
      BY <2>3, <3>1 DEF DeskState
  <2>6. UNCHANGED <<ticket, latest, submit, held, clobbered>>
    BY <1>2 DEF ApprovalRead
  <2> HIDE DEF m
  <2>7. QED
    BY <2>1, <2>3, <2>4, <2>5, <2>6, DeskKeeps
<1>3. CASE ReconcileRead(d)
  <2>1. [Next]_vars
    BY <1>3 DEF ReconcileRead
  <2> DEFINE rows == Reconciled(tasks, leases, clock)
             orphans == Orphans(tasks, leases, clock)
             m == [IdleDesk EXCEPT !.pc = "reconcile", !.rows = rows, !.todo = orphans]
  <2>2. rows \in [Task -> TaskRow] /\ RowsOK(rows, ranOk)
    BY <1>0, ReconciledType, ReconciledOK
  <2>3. orphans \in SUBSET Task
    BY DEF Orphans
  <2>4. DeskTo(d, m) /\ UNCHANGED <<ticket, latest, submit, held, clobbered>>
    BY <1>3 DEF ReconcileRead
  <2> HIDE DEF rows, orphans
  <2>5. m \in DeskState /\ m.rows = rows /\ m.truth = "PLANNED"
    <3>1. [IdleDesk EXCEPT !.pc = "reconcile", !.rows = rows] \in DeskState
      BY <2>2 DEF DeskState
    <3>2. QED
      BY <2>3, <3>1 DEF DeskState
  <2> HIDE DEF m
  <2>6. QED
    BY <2>1, <2>2, <2>4, <2>5, DeskKeeps
<1>4. CASE StatusTicket(d)
  <2>1. [Next]_vars
    BY <1>4 DEF StatusTicket
  <2> DEFINE m == [IdleDesk EXCEPT !.pc = "read", !.truth = ticket]
  <2>2. m \in DeskState /\ m.rows = IdleDesk.rows /\ m.truth = ticket
    BY DEF DeskState
  <2>3. DeskTo(d, m) /\ UNCHANGED <<ticket, latest, submit, held, clobbered>>
    BY <1>4 DEF StatusTicket
  <2> HIDE DEF m
  <2>4. QED
    BY <2>1, <2>2, <2>3, DeskKeeps
<1>5. QED
  BY <1>1, <1>2, <1>3, <1>4

\* report_approval_required and resume_reconcile save rows and goal.
LEMMA SavesKeep ==
    ASSUME SophiaInv, NEW d \in Desk, ApprovalRows(d) \/ ApprovalGoal(d) \/ ReconcileRows(d) \/ ReconcileGoal(d)
    PROVE  SophiaInv'
<1> USE Apart, IdleDeskOK, DeskLabels, Truths
<1>0. /\ tasks \in [Task -> TaskRow] /\ RowsOK(tasks, ranOk)
      /\ goal \in GoalRow /\ GoalRowOK(goal, ranOk, gatesPassed)
      /\ leases \in [Task -> Nat]
      /\ desk[d].rows \in [Task -> TaskRow] /\ desk[d].todo \subseteq Task
  BY DEF TypeOK, StoreTypeOK, EvidenceInv, DeskState
<1>a. LET blocked == GoalIs("BLOCKED", "WAITING_APPROVAL")
      IN  blocked \in GoalRow /\ blocked.truth = "WAITING_APPROVAL"
          /\ GoalRowOK(blocked, ranOk, gatesPassed)
  BY DEF GoalIs, GoalRow, GoalStatus, GoalRowOK
<1>1. CASE ApprovalRows(d)
  <2> DEFINE m == [desk[d] EXCEPT !.pc = "goal"]
  <2>1. m \in DeskState /\ m.rows = desk[d].rows /\ m.truth = desk[d].truth
    BY DeskType
  <2>2. DeskTo(d, m) /\ tasks' = desk[d].rows
    BY <1>1 DEF ApprovalRows
  <2>3. clobbered' \in BOOLEAN
    BY <1>1 DEF ApprovalRows
  <2>4. held' \subseteq Task
    BY <1>0, <1>1 DEF ApprovalRows, Holdable
  <2>5. UNCHANGED <<goal, leases, clock, procVars, refused, history, ticket, latest, submit>>
    BY <1>1 DEF ApprovalRows
  <2> HIDE DEF m
  <2>6. QED
    BY <1>0, <2>1, <2>2, <2>3, <2>4, <2>5, DeskSaves
<1>2. CASE ApprovalGoal(d)
  <2> DEFINE m == [IdleDesk EXCEPT !.pc = "ticket", !.truth = "WAITING_APPROVAL"]
  <2>1. m \in DeskState /\ m.rows = IdleDesk.rows /\ m.truth = "WAITING_APPROVAL"
    BY DEF DeskState
  <2>2. DeskTo(d, m) /\ goal' = GoalIs("BLOCKED", "WAITING_APPROVAL")
    BY <1>2 DEF ApprovalGoal
  <2>3. UNCHANGED <<tasks, leases, clock, procVars, refused, history, ticket, latest, submit,
                    held, clobbered>>
    BY <1>2 DEF ApprovalGoal
  <2> HIDE DEF m
  <2>4. QED
    BY <1>0, <1>a, <2>1, <2>2, <2>3, DeskSaves
<1>3. CASE ReconcileRows(d)
  <2> DEFINE m == [desk[d] EXCEPT !.pc = "outcome"]
  <2>1. m \in DeskState /\ m.rows = desk[d].rows /\ m.truth = desk[d].truth
    BY DeskType
  <2>2. DeskTo(d, m) /\ SaveTasks(desk[d].todo, desk[d].rows)
    BY <1>3 DEF ReconcileRows
  <2>3. tasks' \in [Task -> TaskRow] /\ RowsOK(tasks', ranOk)
    BY <1>0, <2>2, SaveTasksType, SaveTasksOK
  <2>4. leases' \in [Task -> Nat]
    BY <1>0, <1>3 DEF ReconcileRows, NoLease
  <2>5. UNCHANGED <<goal, clock, procVars, refused, history, ticket, latest, submit,
                    held, clobbered>>
    BY <1>3 DEF ReconcileRows
  <2> HIDE DEF m
  <2>6. QED
    BY <1>0, <2>1, <2>2, <2>3, <2>4, <2>5, DeskSaves
<1>4. CASE ReconcileGoal(d)
  <2>1. goal' \in GoalRow /\ GoalRowOK(goal', ranOk, gatesPassed)
    BY <1>0, <1>a, <1>4 DEF ReconcileGoal
  <2>2. PICK truth : truth = goal'.truth
    OBVIOUS
  <2>3. truth \in TruthStatus /\ (truth = "VERIFIED_SUCCESS" => Earned)
    BY <2>1, <2>2 DEF GoalRow, GoalRowOK, Earned
  <2> DEFINE m == [IdleDesk EXCEPT !.pc = "ticket", !.truth = truth]
  <2>4. m \in DeskState /\ m.rows = IdleDesk.rows /\ m.truth = truth
    BY <2>3 DEF DeskState
  <2>5. DeskTo(d, m)
    BY <1>4, <2>2 DEF ReconcileGoal, DeskTo
  <2>6. UNCHANGED <<tasks, leases, clock, procVars, refused, history, ticket, latest, submit,
                    held, clobbered>>
    BY <1>4 DEF ReconcileGoal
  <2> HIDE DEF m
  <2>7. QED
    BY <1>0, <2>1, <2>3, <2>4, <2>5, <2>6, DeskSaves
<1>5. QED
  BY <1>1, <1>2, <1>3, <1>4

\* The ticket is mirrored; get_status reads; the caller of the contract dies.
LEMMA EndsKeep ==
    ASSUME SophiaInv, NEW d \in Desk,
           DeskTicket(d) \/ StatusGoal(d) \/ StatusVerification(d) \/ StatusAnswer(d) \/ DeskCrash(d)
    PROVE  SophiaInv'
<1> USE Apart, IdleDeskOK, DeskLabels
<1>0. [Next]_vars /\ UNCHANGED <<latest, submit, held, clobbered>>
  BY DEF DeskTicket, StatusGoal, StatusVerification, StatusAnswer, DeskCrash
<1>1. CASE DeskTicket(d) \/ StatusAnswer(d) \/ DeskCrash(d)
  <2>1. DeskTo(d, IdleDesk)
    BY <1>1 DEF DeskTicket, StatusAnswer, DeskCrash
  <2>2. ticket' = ticket \/ ticket' = desk[d].truth
    BY <1>1 DEF DeskTicket, StatusAnswer, DeskCrash
  <2>3. ticket' \in TruthStatus /\ (ticket' = "VERIFIED_SUCCESS" => Earned)
    BY <2>2 DEF DeskState
  <2>4. QED
    BY <1>0, <2>1, <2>3, DeskKeeps
<1>2. CASE StatusGoal(d)
  <2> DEFINE truth == IF goal.truth # "PLANNED" THEN goal.truth ELSE desk[d].truth
             m == [desk[d] EXCEPT !.pc = "verified", !.truth = truth]
  <2>1. truth \in TruthStatus /\ (truth = "VERIFIED_SUCCESS" => Earned)
    BY DEF DeskState, TypeOK, StoreTypeOK, GoalRow, EvidenceInv, GoalRowOK, Earned
  <2>2. DeskTo(d, m) /\ ticket' = ticket
    BY <1>2 DEF StatusGoal
  <2> HIDE DEF truth
  <2>3. m \in DeskState /\ m.rows = desk[d].rows /\ m.truth = truth
    BY <2>1 DEF DeskState
  <2> HIDE DEF m
  <2>4. QED
    BY <1>0, <2>1, <2>2, <2>3, DeskKeeps
<1>3. CASE StatusVerification(d)
  <2> DEFINE m == [desk[d] EXCEPT !.pc = "status", !.run = latest]
  <2>1. m \in DeskState /\ m.rows = desk[d].rows /\ m.truth = desk[d].truth
    BY DEF DeskState
  <2>2. DeskTo(d, m) /\ ticket' = ticket
    BY <1>3 DEF StatusVerification
  <2> HIDE DEF m
  <2>3. QED
    BY <1>0, <2>1, <2>2, DeskKeeps
<1>4. QED
  BY <1>1, <1>2, <1>3

(***************************************************************************)
(* The theorems                                                            *)
(***************************************************************************)

LEMMA SophiaStep == SophiaInv /\ [SNext]_svars => SophiaInv'
<1> SUFFICES ASSUME SophiaInv, [SNext]_svars PROVE SophiaInv'
  OBVIOUS
<1>1. ASSUME NEW p \in Proc, SubmitStep(p) \/ CommandLine(p) \/ ProcessCrash(p)
      PROVE  SophiaInv'
  BY <1>1, SubmitKeeps, RunKeeps, OthersKeep DEF SubmitStep
<1>2. ASSUME NEW d \in Desk, RequestCancel(d) \/ ApprovalRead(d) \/ ReconcileRead(d) \/ StatusTicket(d)
      PROVE  SophiaInv'
  BY <1>2, BeginKeeps
<1>3. ASSUME NEW d \in Desk, DeskStep(d) \/ DeskCrash(d)
      PROVE  SophiaInv'
  BY <1>3, SavesKeep, EndsKeep DEF DeskStep
<1>4. CASE UNCHANGED svars
  <2>1. [Next]_vars /\ UNCHANGED <<ticket, latest, submit, deskVars>>
    BY <1>4 DEF svars
  <2>2. QED
    BY <2>1, Apart, RunningStep
<1>5. QED
  BY <1>1, <1>2, <1>3, <1>4 DEF SNext

\* Ticket, submission and desk keep their types, and no success is carried
\* that was not earned, whatever the operations of the contract interleave with.
THEOREM SophiaCorrect == SophiaSpec => []SophiaInv
<1>1. SInit => SophiaInv
  <2> SUFFICES ASSUME SInit PROVE SophiaInv
    OBVIOUS
  <2>1. TypeOK /\ EvidenceInv
    BY TypeInit, EvidenceInit DEF SInit
  <2>2. /\ IdleDesk \in DeskState /\ IdleDesk.truth = "PLANNED"
        /\ RowsOK(IdleDesk.rows, ranOk)
    BY IdleDeskOK
  <2>3. SophiaTypeOK
    <3>1. desk \in [Desk -> DeskState] /\ submit \in SubmitState
      BY <2>2, Truths DEF SInit, SubmitState
    <3>2. QED
      BY <2>1, <3>1, Truths DEF SInit, SophiaTypeOK, DeskState, SubmitState
  <2>4. CarriedOK
    BY <2>2 DEF SInit, CarriedOK
  <2>5. QED
    BY <2>1, <2>3, <2>4 DEF SophiaInv
<1>2. QED
  BY <1>1, SophiaStep, PTL DEF SophiaSpec

\* Neither the ticket nor an envelope claims a success that was not earned:
\* mirrored truths and answers put together from several reads included.
THEOREM ClaimIsEarnedHolds == SophiaSpec => []ClaimIsEarned
<1>1. SophiaInv => ClaimIsEarned
  BY DEF SophiaInv, CarriedOK, Earned, ClaimIsEarned, ClaimPermitted
<1>2. QED
  BY <1>1, SophiaCorrect, PTL

(***************************************************************************)
(* What is held stays off, what may be started once is started once        *)
(***************************************************************************)

\* No process will start t: its row is BLOCKED and nobody has it in hand.
Off(t) ==
    /\ tasks[t].status = "BLOCKED"
    /\ \A p \in Proc : t \notin proc[p].todo /\ proc[p].cur # t

\* A process between calls has nothing in hand.
IdleMemory == \A p \in Proc : proc[p].pc = "idle" => proc[p].todo = {} /\ proc[p].cur = NoTask

\* What is held is off, and no caller of the contract is about to undo that.
HeldInv ==
    /\ IdleMemory
    /\ \A d \in Desk : desk[d].pc = "rows" => \A t \in desk[d].todo : desk[d].rows[t].status = "BLOCKED"
    /\ \A t \in held : Off(t) /\ \A d \in Desk : ~Undoes(d, t)

\* The command of t must not be repeated.
OnceOnly(t) == t \notin Idempotent \/ t \in Uncertain

\* A process with memory r starts t only when it has not been started, and is
\* about to save no row that would let it be read as startable.
MayStart(r, t, starts) ==
    /\ r.pc \in {"pick", "exec", "record"} /\ t \in r.todo => starts = 0
    /\ r.pc \in {"exec", "record"} => r.cur \notin r.todo
    /\ r.pc = "exec" /\ r.cur = t => starts = 0
    /\ r.pc \in {"reconcile", "blocksave"} /\ t \in r.todo => r.snap[t].status # "PENDING"

\* The one start of t is still to come, in its row or in one hand, or is over.
Once(t) ==
    /\ launches[t] <= 1
    /\ tasks[t].status = "PENDING" =>
           launches[t] = 0 /\ \A p \in Proc : proc[p].pc = "exec" => proc[p].cur # t
    /\ \A p \in Proc : MayStart(proc[p], t, launches[t])

\* Every task whose command must not be repeated is started once at most, and
\* no caller that changes its row is going to save it as PENDING; unless an approval has
\* written rows that were out of date.
OnceInv ==
    clobbered \/ \A t \in Task : OnceOnly(t) =>
        /\ Once(t)
        /\ \A d \in Desk : desk[d].pc \in {"rows", "reconcile"} /\ t \in desk[d].todo
                              => desk[d].rows[t].status # "PENDING"

\* Where the rest of a run is a matter of gates and of the goal row, nothing is
\* in hand that could be started.
AtRest == {"idle", "enter", "announce", "scan", "pscan", "blockread", "conclude", "verify",
           "mark", "gates", "judge", "finish"}

\* p drops what it has in hand, or goes on with it; the store's rows stay.
Quiet(p) ==
    /\ tasks' = tasks /\ launches' = launches
    /\ \A q \in Proc \ {p} : proc'[q] = proc[q]
    /\ proc'[p].todo \subseteq proc[p].todo
    /\ proc'[p].cur \in {proc[p].cur, NoTask}
    /\ proc'[p].pc = "idle" => proc'[p].todo = {} /\ proc'[p].cur = NoTask
    /\ \/ proc'[p].pc \in AtRest
       \/ /\ proc[p].pc = "exec" /\ proc'[p].pc = "record"
          /\ proc'[p].todo = proc[p].todo /\ proc'[p].cur = proc[p].cur

\* A call that ends is quiet.
LEMMA EndQuiet ==
    ASSUME TypeOK, NEW p \in Proc, NEW status, NEW truth,
           Leave(p) \/ Conclude(p, status, truth), UNCHANGED <<tasks, launches>>
    PROVE  Quiet(p)
<1> DEFINE finish == [IdleProc EXCEPT !.pc = "finish", !.verdict = GoalIs(status, truth)]
<1>1. /\ IdleProc.pc = "idle" /\ IdleProc.todo = {} /\ IdleProc.cur = NoTask
      /\ finish.pc = "finish" /\ finish.todo = {} /\ finish.cur = NoTask
  BY DEF IdleProc
<1> HIDE DEF finish
<1>2. PICK r \in {IdleProc, finish} : proc' = [proc EXCEPT ![p] = r]
  BY DEF Leave, Conclude, finish
<1>3. proc'[p] = r /\ \A q \in Proc \ {p} : proc'[q] = proc[q]
  BY <1>2 DEF TypeOK
<1>4. QED
  BY <1>1, <1>3 DEF Quiet, AtRest

\* So is a step to a label where nothing is started.
LEMMA LabelQuiet ==
    ASSUME TypeOK, NEW p \in Proc, NEW r, proc' = [proc EXCEPT ![p] = r],
           UNCHANGED <<tasks, launches>>,
           r.todo \subseteq proc[p].todo, r.cur = proc[p].cur,
           \/ r.pc \in AtRest \ {"idle"}
           \/ proc[p].pc = "exec" /\ r.pc = "record" /\ r.todo = proc[p].todo
    PROVE  Quiet(p)
<1>1. proc'[p] = r /\ \A q \in Proc \ {p} : proc'[q] = proc[q]
  BY DEF TypeOK
<1>2. QED
  BY <1>1 DEF Quiet

\* These are the steps of a run that start nothing and save no task row.
LEMMA QuietStep ==
    ASSUME TypeOK, NEW p \in Proc,
           \/ CallRun(p) \/ CallVerify(p) \/ Crash(p) \/ Enter(p) \/ Announce(p) \/ RefuseTask(p)
           \/ Direct(p) \/ Decide(p) \/ Finish(p) \/ ReadForVerify(p) \/ MarkVerifying(p)
           \/ RunGates(p) \/ Judge(p)
           \/ EndPass(p) /\ ~ReadGraph(p, "pick")
    PROVE  Quiet(p)
<1> USE DEF storeVars, history
<1>a. proc[p] \in ProcState
  BY DEF TypeOK
<1>b. UNCHANGED <<tasks, launches>>
  BY Zenon DEF CallRun, CallVerify, Call, Crash, Enter, Announce, RefuseTask, Direct, Decide, Finish,
         ReadForVerify, MarkVerifying, RunGates, Judge, EndPass
<1>1. ASSUME NEW label \in AtRest \ {"idle"}, proc' = [proc EXCEPT ![p].pc = label]
      PROVE  Quiet(p)
  <2> DEFINE r == [proc[p] EXCEPT !.pc = label]
  <2>1. proc' = [proc EXCEPT ![p] = r]
    BY <1>1
  <2>2. r.pc = label /\ r.todo = proc[p].todo /\ r.cur = proc[p].cur
    BY <1>a DEF ProcState
  <2> HIDE DEF r
  <2>3. QED
    BY <1>1, <1>b, <2>1, <2>2, LabelQuiet
<1>2. ASSUME Leave(p) \/ \E status, truth : Conclude(p, status, truth) PROVE Quiet(p)
  BY <1>2, <1>b, EndQuiet
<1>3. ASSUME NEW label \in {"enter", "verify"}, NEW execute \in BOOLEAN, NEW gates \in BOOLEAN,
             Call(p, label, 0, execute, gates)
      PROVE  Quiet(p)
  <2> DEFINE r == [proc[p] EXCEPT !.pc = label, !.workers = 0, !.execute = execute, !.gates = gates]
  <2>1. proc' = [proc EXCEPT ![p] = r]
    BY <1>3 DEF Call
  <2>2. r.pc = label /\ r.todo = proc[p].todo /\ r.cur = proc[p].cur
    BY <1>a DEF ProcState
  <2> HIDE DEF r
  <2>3. QED
    BY <1>b, <2>1, <2>2, LabelQuiet DEF AtRest
<1>4. ASSUME NEW label, NEW ok, proc' = [proc EXCEPT ![p].pc = label, ![p].ok = ok],
             label = "judge" \/ (label = "record" /\ proc[p].pc = "exec")
      PROVE  Quiet(p)
  <2> DEFINE r == [proc[p] EXCEPT !.pc = label, !.ok = ok]
  <2>1. proc' = [proc EXCEPT ![p] = r]
    BY <1>4
  <2>2. r.pc = label /\ r.todo = proc[p].todo /\ r.cur = proc[p].cur
    BY <1>a DEF ProcState
  <2> HIDE DEF r
  <2>3. QED
    BY <1>b, <1>4, <2>1, <2>2, LabelQuiet DEF AtRest
<1>5. ASSUME ReadForVerify(p) PROVE Quiet(p)
  <2> DEFINE g == GoalIs("VERIFYING", goal.truth)
             r == [proc[p] EXCEPT !.pc = "mark", !.verdict = g]
  <2>1. proc' = [proc EXCEPT ![p] = r]
    BY <1>5 DEF ReadForVerify
  <2> HIDE DEF g
  <2>2. r.pc = "mark" /\ r.todo = proc[p].todo /\ r.cur = proc[p].cur
    BY <1>a DEF ProcState
  <2> HIDE DEF r
  <2>3. QED
    BY <1>b, <2>1, <2>2, LabelQuiet DEF AtRest
<1>6. ASSUME Enter(p) \/ Announce(p) \/ Decide(p) \/ MarkVerifying(p)
             \/ (EndPass(p) /\ ~ReadGraph(p, "pick"))
      PROVE  Quiet(p)
  <2>1. \/ Leave(p) \/ \E status, truth : Conclude(p, status, truth)
        \/ \E label \in {"announce", "scan", "pscan", "verify", "gates", "conclude"} :
               proc' = [proc EXCEPT ![p].pc = label]
    BY <1>6 DEF Enter, Announce, Decide, MarkVerifying, EndPass
  <2>2. QED
    BY <2>1, <1>1, <1>2 DEF AtRest
<1>7. ASSUME Direct(p) \/ RunGates(p) PROVE Quiet(p)
  BY <1>7, <1>4 DEF Direct, RunGates, At
<1>8. ASSUME Crash(p) \/ RefuseTask(p) \/ Finish(p) \/ Judge(p) PROVE Quiet(p)
  BY <1>8, <1>2 DEF Crash, RefuseTask, Finish, Judge
<1>9. QED
  BY <1>3, <1>5, <1>6, <1>7, <1>8 DEF CallRun, CallVerify

\* A step starts no task that is off and leaves it off, and starts no task a
\* second time that may be started once.
Kept(t) ==
    /\ Off(t) => Off(t)' /\ launches'[t] = launches[t]
    /\ OneProcess /\ OnceOnly(t) /\ Once(t) => Once(t)'

\* Quiet steps do.
LEMMA QuietKeeps ==
    ASSUME TypeOK, IdleMemory, NEW p \in Proc, Quiet(p), NEW t \in Task
    PROVE  Kept(t) /\ IdleMemory'
<1>1. IdleMemory'
  BY DEF Quiet, IdleMemory
<1>2. t # NoTask
  BY ProcAssumption
<1>3. Off(t) => Off(t)' /\ launches'[t] = launches[t]
  BY <1>2 DEF Quiet, Off
<1>4. ASSUME OneProcess, Once(t) PROVE Once(t)'
  <2>1. \A q \in Proc : q = p
    BY <1>4 DEF OneProcess
  <2>2. tasks' = tasks /\ launches' = launches /\ MayStart(proc[p], t, launches[t])
    BY <1>4 DEF Quiet, Once
  <2>3. MayStart(proc'[p], t, launches[t])
    BY <2>2 DEF Quiet, AtRest, MayStart
  <2>4. tasks[t].status = "PENDING" => launches[t] = 0 /\ (proc'[p].pc = "exec" => proc'[p].cur # t)
    BY <1>4 DEF Quiet, AtRest, Once
  <2>5. QED
    BY <1>4, <2>1, <2>2, <2>3, <2>4 DEF Once
<1>5. QED
  BY <1>1, <1>3, <1>4 DEF Kept

\* p has a new memory r with nothing in hand but tasks whose rows, as stored
\* now, are not BLOCKED.
LEMMA HandKeepsOff ==
    ASSUME TypeOK, IdleMemory, NEW p \in Proc, NEW r, proc' = [proc EXCEPT ![p] = r],
           NEW t \in Task, tasks'[t] = tasks[t], launches'[t] = launches[t],
           r.pc # "idle",
           Off(t) => t \notin r.todo /\ r.cur # t
    PROVE  /\ Off(t) => Off(t)' /\ launches'[t] = launches[t]
           /\ IdleMemory'
<1>1. proc'[p] = r /\ \A q \in Proc \ {p} : proc'[q] = proc[q]
  BY DEF TypeOK
<1>2. QED
  BY <1>1 DEF Off, IdleMemory

\* The only process has a new memory that may start what has not been started.
LEMMA HandKeepsOnce ==
    ASSUME TypeOK, OneProcess, NEW p \in Proc, NEW r, proc' = [proc EXCEPT ![p] = r],
           NEW t \in Task, launches'[t] <= 1,
           tasks'[t].status = "PENDING" => launches'[t] = 0 /\ (r.pc = "exec" => r.cur # t),
           MayStart(r, t, launches'[t])
    PROVE  Once(t)'
<1>1. \A q \in Proc : proc'[q] = r
  BY DEF TypeOK, OneProcess
<1>2. QED
  BY <1>1 DEF Once

\* resume_goal reads: only RUNNING tasks are orphans, and one that may be started
\* once is not made PENDING again.
LEMMA ResumeKeeps ==
    ASSUME TypeOK, IdleMemory, NEW p \in Proc, CallResume(p), NEW t \in Task
    PROVE  Kept(t) /\ IdleMemory'
<1> DEFINE orphans == Orphans(tasks, leases, clock)
           rows == Reconciled(tasks, leases, clock)
           covered == {u \in orphans : leases[u] # NoLease}
<1>1. PICK execute \in BOOLEAN, gates \in BOOLEAN :
        proc' = [proc EXCEPT ![p].pc = "reconcile", ![p].execute = execute, ![p].gates = gates,
                             ![p].snap = rows, ![p].todo = orphans, ![p].leased = covered]
  BY DEF CallResume
<1>2. UNCHANGED <<tasks, launches>> /\ proc[p].pc = "idle"
  BY DEF CallResume, storeVars, history, At
<1>3. t \in orphans => tasks[t].status = "RUNNING" /\ rows[t] = ReconciledRow(t, tasks[t])
  BY DEF Orphans, Reconciled
<1>4. t \in orphans /\ OnceOnly(t) => rows[t].status # "PENDING"
  BY <1>3, ReconciledRowFacts DEF OnceOnly, Retriable
<1> HIDE DEF orphans, rows, covered
<1> DEFINE r == [proc[p] EXCEPT !.pc = "reconcile", !.execute = execute, !.gates = gates,
                                !.snap = rows, !.todo = orphans, !.leased = covered]
<1>5. proc' = [proc EXCEPT ![p] = r]
  BY <1>1
<1>6. r.pc = "reconcile" /\ r.snap = rows /\ r.todo = orphans /\ r.cur = proc[p].cur
  BY DEF TypeOK, ProcState
<1> HIDE DEF r
<1>7. Off(t) => t \notin r.todo /\ r.cur # t
  BY <1>3, <1>6 DEF Off
<1>8. ASSUME OneProcess, OnceOnly(t), Once(t) PROVE Once(t)'
  <2>1. MayStart(r, t, launches[t])
    BY <1>4, <1>6, <1>8 DEF MayStart
  <2>2. QED
    BY <1>2, <1>5, <1>6, <1>8, <2>1, HandKeepsOnce DEF Once
<1>9. QED
  BY <1>2, <1>5, <1>6, <1>7, <1>8, HandKeepsOff DEF Kept

\* The reconciled rows are saved.
LEMMA SaveReconciledKeeps ==
    ASSUME TypeOK, IdleMemory, NEW p \in Proc, SaveReconciled(p), NEW t \in Task
    PROVE  Kept(t) /\ IdleMemory'
<1>1. launches' = launches /\ proc[p].pc = "reconcile"
      /\ tasks'[t] = IF t \in proc[p].todo THEN proc[p].snap[t] ELSE tasks[t]
  BY DEF SaveReconciled, SaveTasks, At, history
<1>2. PICK r : /\ proc' = [proc EXCEPT ![p] = r]
               /\ r.pc \in {"finish", "enter"} /\ r.todo = {} /\ r.cur \in {proc[p].cur, NoTask}
  <2> DEFINE finish == [IdleProc EXCEPT !.pc = "finish", !.verdict = GoalIs("BLOCKED", "WAITING_APPROVAL")]
             enter == [proc[p] EXCEPT !.pc = "enter", !.todo = {}, !.leased = {}]
  <2>1. proc' = [proc EXCEPT ![p] = finish] \/ proc' = [proc EXCEPT ![p] = enter]
    BY DEF SaveReconciled, Conclude
  <2>2. finish.pc = "finish" /\ finish.todo = {} /\ finish.cur = NoTask
    BY DEF IdleProc
  <2>3. enter.pc = "enter" /\ enter.todo = {} /\ enter.cur = proc[p].cur
    BY DEF TypeOK, ProcState
  <2> HIDE DEF finish, enter
  <2>4. QED
    BY <2>1, <2>2, <2>3
<1>3. ASSUME Off(t) PROVE tasks'[t] = tasks[t] /\ t \notin r.todo /\ r.cur # t
  BY <1>1, <1>2, <1>3, ProcAssumption DEF Off
<1>4. Off(t) => Off(t)' /\ launches'[t] = launches[t]
  <2>1. proc'[p] = r /\ \A q \in Proc \ {p} : proc'[q] = proc[q]
    BY <1>2 DEF TypeOK
  <2>2. QED
    BY <1>1, <1>3, <2>1 DEF Off
<1>5. IdleMemory'
  BY <1>2 DEF TypeOK, IdleMemory
<1>6. ASSUME OneProcess, OnceOnly(t), Once(t) PROVE Once(t)'
  <2>1. MayStart(r, t, launches[t])
    BY <1>2 DEF MayStart
  <2>2. t \in proc[p].todo => tasks'[t].status # "PENDING"
    BY <1>1, <1>6 DEF Once, MayStart
  <2>3. QED
    BY <1>1, <1>2, <1>6, <2>1, <2>2, HandKeepsOnce DEF Once
<1>7. QED
  BY <1>4, <1>5, <1>6 DEF Kept

\* The rows are read: what is found ready is PENDING in the store.
LEMMA ReadKeeps ==
    ASSUME TypeOK, IdleMemory, NEW p \in Proc, ReadGraph(p, "pick"),
           UNCHANGED <<tasks, launches>>, NEW t \in Task
    PROVE  Kept(t) /\ IdleMemory'
<1> DEFINE rows == PropagateFailures(DependsOn, tasks)
           ready == ReadyIn(tasks, ~proc[p].execute)
           r == [proc[p] EXCEPT !.pc = "pick", !.snap = rows, !.todo = ready,
                                !.progressed = FALSE]
<1>1. t \in ready => tasks[t].status = "PENDING"
  BY ReadyRow DEF TypeOK, StoreTypeOK
<1>2. proc' = [proc EXCEPT ![p] = r]
  BY DEF ReadGraph, ReadyIn
<1> HIDE DEF rows, ready
<1>3. r.pc = "pick" /\ r.todo = ready /\ r.cur = proc[p].cur
  BY DEF TypeOK, ProcState
<1> HIDE DEF r
<1>4. Off(t) => t \notin r.todo /\ r.cur # t
  BY <1>1, <1>3 DEF Off
<1>5. ASSUME OneProcess, OnceOnly(t), Once(t) PROVE Once(t)'
  <2>1. MayStart(r, t, launches[t])
    BY <1>1, <1>3, <1>5 DEF MayStart, Once
  <2>2. QED
    BY <1>2, <1>3, <1>5, <2>1, HandKeepsOnce DEF Once
<1>6. QED
  BY <1>2, <1>3, <1>4, <1>5, HandKeepsOff DEF Kept

\* One of them is started.
LEMMA StartKeeps ==
    ASSUME TypeOK, IdleMemory, NEW p \in Proc, StartTask(p), NEW t \in Task
    PROVE  Kept(t) /\ IdleMemory'
<1> DEFINE row(u) == Row("RUNNING", "RUNNING", proc[p].snap[u].attempts + 1)
<1>1. PICK u \in proc[p].todo :
        /\ tasks' = [tasks EXCEPT ![u] = row(u)]
        /\ proc' = [proc EXCEPT ![p].pc = "exec", ![p].cur = u, ![p].todo = proc[p].todo \ {u},
                                ![p].snap = [proc[p].snap EXCEPT ![u] = row(u)]]
  BY DEF StartTask
<1>2. launches' = launches /\ proc[p].pc = "pick"
  BY DEF StartTask, At, history
<1>3. row(u).status = "RUNNING" /\ tasks \in [Task -> TaskRow]
  BY DEF Row, TypeOK, StoreTypeOK
<1> DEFINE snap == [proc[p].snap EXCEPT ![u] = row(u)]
           r == [proc[p] EXCEPT !.pc = "exec", !.cur = u, !.todo = proc[p].todo \ {u}, !.snap = snap]
<1>4. proc' = [proc EXCEPT ![p] = r]
  BY <1>1
<1>5. tasks'[t] = tasks[t] \/ (u = t /\ tasks'[t].status = "RUNNING")
  BY <1>1, <1>3
<1> HIDE DEF snap, row
<1>6. r.pc = "exec" /\ r.cur = u /\ r.todo = proc[p].todo \ {u}
  BY DEF TypeOK, ProcState
<1> HIDE DEF r
<1>7. Off(t) => Off(t)' /\ launches'[t] = launches[t]
  <2>1. proc'[p] = r /\ \A q \in Proc \ {p} : proc'[q] = proc[q]
    BY <1>4 DEF TypeOK
  <2>2. QED
    BY <1>2, <1>5, <1>6, <2>1 DEF Off
<1>8. IdleMemory'
  BY <1>4, <1>6 DEF TypeOK, IdleMemory
<1>9. ASSUME OneProcess, OnceOnly(t), Once(t) PROVE Once(t)'
  <2>1. MayStart(r, t, launches[t])
    BY <1>1, <1>2, <1>6, <1>9 DEF MayStart, Once
  <2>2. tasks'[t].status = "PENDING" => launches[t] = 0 /\ r.cur # t
    BY <1>5, <1>6, <1>9, <1>1, <1>3 DEF Once
  <2>3. QED
    BY <1>2, <1>4, <1>9, <2>1, <2>2, HandKeepsOnce DEF Once
<1>10. QED
  BY <1>7, <1>8, <1>9 DEF Kept

\* A command is started: the task in hand has not been started before.
LEMMA ExecuteKeeps ==
    ASSUME TypeOK, IdleMemory, NEW p \in Proc, Execute(p), NEW t \in Task
    PROVE  Kept(t) /\ IdleMemory'
<1>1. /\ tasks' = tasks /\ proc[p].pc = "exec" /\ proc[p].cur \in Task
      /\ launches' = [launches EXCEPT ![proc[p].cur] = @ + 1]
      /\ launches \in [Task -> Nat] /\ proc[p] \in ProcState
  BY GraphAssumption DEF Execute, storeVars, At, TypeOK
<1>2. PICK ok \in BOOLEAN : proc' = [proc EXCEPT ![p].pc = "record", ![p].ok = ok]
  BY DEF Execute
<1> DEFINE r == [proc[p] EXCEPT !.pc = "record", !.ok = ok]
<1>3. proc' = [proc EXCEPT ![p] = r]
  BY <1>2
<1>4. r.pc = "record" /\ r.cur = proc[p].cur /\ r.todo = proc[p].todo
  BY <1>1 DEF ProcState
<1> HIDE DEF r
<1>5. Off(t) => launches'[t] = launches[t] /\ t \notin r.todo /\ r.cur # t
  BY <1>1, <1>4 DEF Off
<1>6. Off(t) => Off(t)' /\ launches'[t] = launches[t]
  <2>1. proc'[p] = r /\ \A q \in Proc \ {p} : proc'[q] = proc[q]
    BY <1>3 DEF TypeOK
  <2>2. QED
    BY <1>1, <1>5, <2>1 DEF Off
<1>7. IdleMemory'
  BY <1>3, <1>4 DEF TypeOK, IdleMemory
<1>8. ASSUME OneProcess, OnceOnly(t), Once(t) PROVE Once(t)'
  <2>1. MayStart(proc[p], t, launches[t])
    BY <1>8 DEF Once
  <2>2. /\ launches'[t] = IF t = proc[p].cur THEN launches[t] + 1 ELSE launches[t]
        /\ t = proc[p].cur => launches[t] = 0 /\ t \notin proc[p].todo
    BY <1>1, <2>1 DEF MayStart
  <2>3. MayStart(r, t, launches'[t])
    BY <1>1, <1>4, <2>1, <2>2 DEF MayStart
  <2>4. launches'[t] <= 1 /\ (tasks[t].status = "PENDING" => launches'[t] = 0)
    BY <1>1, <1>8, <2>2 DEF Once
  <2>5. QED
    BY <1>1, <1>3, <1>4, <1>8, <2>3, <2>4, HandKeepsOnce
<1>9. QED
  BY <1>6, <1>7, <1>8 DEF Kept

\* Its outcome is recorded.
LEMMA RecordKeeps ==
    ASSUME TypeOK, IdleMemory, NEW p \in Proc, Record(p), NEW t \in Task
    PROVE  Kept(t) /\ IdleMemory'
<1>1. launches' = launches /\ proc[p].pc = "record" /\ tasks \in [Task -> TaskRow]
      /\ tasks' = [tasks EXCEPT ![proc[p].cur] = OutcomeRow(p)]
  BY DEF Record, At, history, TypeOK, StoreTypeOK
<1>2. OutcomeRow(p).status # "PENDING"
  BY DEF OutcomeRow, Row
<1>3. PICK r : /\ proc' = [proc EXCEPT ![p] = r]
               /\ r.pc \in {"pick", "blockread"} /\ r.todo = proc[p].todo /\ r.cur = NoTask
  <2> DEFINE good == [proc[p] EXCEPT !.pc = "pick", !.cur = NoTask, !.ok = FALSE,
                                     !.progressed = TRUE]
             bad == [proc[p] EXCEPT !.pc = "blockread", !.cur = NoTask]
  <2>1. proc' = [proc EXCEPT ![p] = good] \/ proc' = [proc EXCEPT ![p] = bad]
    BY DEF Record
  <2>2. good.pc = "pick" /\ good.todo = proc[p].todo /\ good.cur = NoTask
    BY DEF TypeOK, ProcState
  <2>3. bad.pc = "blockread" /\ bad.todo = proc[p].todo /\ bad.cur = NoTask
    BY DEF TypeOK, ProcState
  <2> HIDE DEF good, bad
  <2>4. QED
    BY <2>1, <2>2, <2>3
<1>4. tasks'[t] = IF t = proc[p].cur THEN OutcomeRow(p) ELSE tasks[t]
  BY <1>1
<1>5. Off(t) => Off(t)' /\ launches'[t] = launches[t]
  <2>1. proc'[p] = r /\ \A q \in Proc \ {p} : proc'[q] = proc[q]
    BY <1>3 DEF TypeOK
  <2>2. QED
    BY <1>1, <1>3, <1>4, <2>1, ProcAssumption DEF Off
<1>6. IdleMemory'
  BY <1>3 DEF TypeOK, IdleMemory
<1>7. ASSUME OneProcess, OnceOnly(t), Once(t) PROVE Once(t)'
  <2>1. MayStart(proc[p], t, launches[t]) /\ launches[t] <= 1
    BY <1>7 DEF Once
  <2>2. MayStart(r, t, launches[t])
    BY <1>1, <1>3, <2>1 DEF MayStart
  <2>3. tasks'[t].status = "PENDING" => launches[t] = 0
    BY <1>2, <1>4, <1>7 DEF Once
  <2>4. QED
    BY <1>1, <1>3, <1>7, <2>1, <2>2, <2>3, HandKeepsOnce
<1>8. QED
  BY <1>5, <1>6, <1>7 DEF Kept

\* After a failure the rows are read: only PENDING ones are to be blocked.
LEMMA ReadForBlockingKeeps ==
    ASSUME TypeOK, IdleMemory, NEW p \in Proc, ReadForBlocking(p), NEW t \in Task
    PROVE  Kept(t) /\ IdleMemory'
<1> DEFINE rows == PropagateFailures(DependsOn, tasks)
           blocked == NewlyBlocked(DependsOn, tasks)
           r == [proc[p] EXCEPT !.pc = "blocksave", !.snap = rows, !.todo = blocked]
<1>1. UNCHANGED <<tasks, launches>> /\ proc' = [proc EXCEPT ![p] = r]
  BY DEF ReadForBlocking, storeVars, history
<1>2. t \in blocked => tasks[t].status = "PENDING" /\ rows[t].status = "BLOCKED"
  BY BlockedArePending, PropagatedRow DEF TypeOK, StoreTypeOK
<1> HIDE DEF rows, blocked
<1>3. r.pc = "blocksave" /\ r.snap = rows /\ r.todo = blocked /\ r.cur = proc[p].cur
  BY DEF TypeOK, ProcState
<1> HIDE DEF r
<1>4. Off(t) => t \notin r.todo /\ r.cur # t
  BY <1>2, <1>3 DEF Off
<1>5. ASSUME OneProcess, OnceOnly(t), Once(t) PROVE Once(t)'
  <2>1. MayStart(r, t, launches[t])
    BY <1>2, <1>3 DEF MayStart
  <2>2. QED
    BY <1>1, <1>3, <1>5, <2>1, HandKeepsOnce DEF Once
<1>6. QED
  BY <1>1, <1>3, <1>4, <1>5, HandKeepsOff DEF Kept

\* They are saved as BLOCKED.
LEMMA SaveBlockedKeeps ==
    ASSUME TypeOK, IdleMemory, NEW p \in Proc, SaveBlocked(p), NEW t \in Task
    PROVE  Kept(t) /\ IdleMemory'
<1> DEFINE r == [IdleProc EXCEPT !.pc = "finish", !.verdict = GoalIs("FAILED", "EXECUTION_FAILED")]
<1>1. launches' = launches /\ proc[p].pc = "blocksave" /\ proc' = [proc EXCEPT ![p] = r]
      /\ tasks'[t] = IF t \in proc[p].todo THEN proc[p].snap[t] ELSE tasks[t]
  BY DEF SaveBlocked, SaveTasks, At, history, Conclude
<1>2. r.pc = "finish" /\ r.todo = {} /\ r.cur = NoTask
  BY DEF IdleProc
<1> HIDE DEF r
<1>3. Off(t) => Off(t)' /\ launches'[t] = launches[t]
  <2>1. proc'[p] = r /\ \A q \in Proc \ {p} : proc'[q] = proc[q]
    BY <1>1 DEF TypeOK
  <2>2. QED
    BY <1>1, <1>2, <2>1, ProcAssumption DEF Off
<1>4. IdleMemory'
  BY <1>1, <1>2 DEF TypeOK, IdleMemory
<1>5. ASSUME OneProcess, OnceOnly(t), Once(t) PROVE Once(t)'
  <2>1. MayStart(proc[p], t, launches[t]) /\ launches[t] <= 1
    BY <1>5 DEF Once
  <2>2. MayStart(r, t, launches[t])
    BY <1>2 DEF MayStart
  <2>3. tasks'[t].status = "PENDING" => launches[t] = 0
    BY <1>1, <1>5, <2>1 DEF MayStart, Once
  <2>4. QED
    BY <1>1, <1>2, <1>5, <2>1, <2>2, <2>3, HandKeepsOnce
<1>6. QED
  BY <1>3, <1>4, <1>5 DEF Kept

\* Every step of the goal engine.
LEMMA RunKeepsAll ==
    ASSUME TypeOK, IdleMemory, [Next]_vars, NEW t \in Task
    PROVE  Kept(t) /\ IdleMemory'
<1>1. ASSUME CancelGoal \/ RecordCost \/ UNCHANGED vars PROVE Kept(t) /\ IdleMemory'
  <2>1. UNCHANGED <<tasks, launches, proc>>
    BY <1>1 DEF CancelGoal, RecordCost, vars, storeVars, procVars, history
  <2>2. QED
    BY <2>1 DEF Kept, Off, Once, IdleMemory
<1>2. ASSUME NEW p \in Proc, CallRun(p) \/ CallVerify(p) \/ CallResume(p) \/ Step(p) \/ Crash(p)
      PROVE  Kept(t) /\ IdleMemory'
  <2>1. CASE CallResume(p)
    BY <2>1, ResumeKeeps
  <2>2. CASE SaveReconciled(p)
    BY <2>2, SaveReconciledKeeps
  <2>3. CASE Scan(p) \/ (EndPass(p) /\ ReadGraph(p, "pick"))
    <3>1. ReadGraph(p, "pick") /\ UNCHANGED <<tasks, launches>>
      BY <2>3 DEF Scan, EndPass, storeVars, history
    <3>2. QED
      BY <3>1, ReadKeeps
  <2>4. CASE StartTask(p)
    BY <2>4, StartKeeps
  <2>5. CASE Execute(p)
    BY <2>5, ExecuteKeeps
  <2>6. CASE Record(p)
    BY <2>6, RecordKeeps
  <2>7. CASE ReadForBlocking(p)
    BY <2>7, ReadForBlockingKeeps
  <2>8. CASE SaveBlocked(p)
    BY <2>8, SaveBlockedKeeps
  <2>9. ASSUME \/ CallRun(p) \/ CallVerify(p) \/ Crash(p) \/ Enter(p) \/ Announce(p) \/ RefuseTask(p)
               \/ Direct(p) \/ Decide(p) \/ Finish(p) \/ ReadForVerify(p) \/ MarkVerifying(p)
               \/ RunGates(p) \/ Judge(p)
               \/ (EndPass(p) /\ ~ReadGraph(p, "pick"))
        PROVE  Kept(t) /\ IdleMemory'
    <3>1. Quiet(p)
      BY <2>9, QuietStep
    <3>2. QED
      BY <3>1, QuietKeeps
  <2>10. QED
    BY <1>2, <2>1, <2>2, <2>3, <2>4, <2>5, <2>6, <2>7, <2>8, <2>9 DEF Step
<1>3. QED
  BY <1>1, <1>2 DEF Next, Progress

\* What a step of the contract does for both invariants: what is held stays off
\* and is not started, and what may be started once is not started again.
DeskKept ==
    /\ HeldInv'
    /\ \A t \in held : launches'[t] = launches[t]
    /\ OneProcess /\ OnceInv => OnceInv'

\* The callers that move go on to a call that saves no rows they have read.
CarriesNoRows == \A d \in Desk : desk'[d] = desk[d] \/ desk'[d].pc \notin {"rows", "reconcile"}

\* Steps in which no caller reads rows to save or saves them.
LEMMA NoRowsKeeps ==
    ASSUME HeldInv, held \subseteq Task, UNCHANGED <<held, clobbered>>, CarriesNoRows,
           IdleMemory', \A t \in Task : Kept(t)
    PROVE  DeskKept
<1>1. HeldInv'
  <2>1. ASSUME NEW d \in Desk, desk'[d].pc = "rows", NEW t \in desk'[d].todo
        PROVE  desk'[d].rows[t].status = "BLOCKED"
    BY <2>1 DEF HeldInv, CarriesNoRows
  <2>2. ASSUME NEW t \in held, NEW d \in Desk PROVE ~Undoes(d, t)'
    BY DEF HeldInv, CarriesNoRows, Undoes
  <2>3. \A t \in held : Off(t)'
    BY DEF HeldInv, Kept
  <2>4. QED
    BY <2>1, <2>2, <2>3 DEF HeldInv
<1>2. \A t \in held : launches'[t] = launches[t]
  BY DEF HeldInv, Kept
<1>3. ASSUME OneProcess, OnceInv PROVE OnceInv'
  BY <1>3 DEF OnceInv, CarriesNoRows, Kept
<1>4. QED
  BY <1>1, <1>2, <1>3 DEF DeskKept

\* Steps that touch neither the rows nor what the processes are doing.
LEMMA CalmKeeps ==
    ASSUME HeldInv, held \subseteq Task, UNCHANGED <<held, clobbered>>, CarriesNoRows,
           UNCHANGED <<tasks, launches, proc>>
    PROVE  DeskKept
<1>1. IdleMemory'
  BY DEF HeldInv, IdleMemory
<1>2. ASSUME NEW t \in Task PROVE Kept(t)
  BY DEF Kept, Off, Once
<1>3. QED
  BY <1>1, <1>2, NoRowsKeeps

\* Steps of the goal engine.
LEMMA EngineKeeps ==
    ASSUME SophiaInv, HeldInv, [Next]_vars, UNCHANGED <<held, clobbered>>, CarriesNoRows
    PROVE  DeskKept
<1>1. TypeOK /\ held \subseteq Task /\ IdleMemory
  BY Apart DEF HeldInv
<1>2. IdleMemory'
  <2>1. CASE Task = {}
    <3>1. \A p \in Proc : proc'[p] \in ProcState
      BY GoalStep DEF TypeOK
    <3>2. QED
      BY <2>1, <3>1 DEF ProcState, IdleMemory
  <2>2. CASE Task # {}
    BY <1>1, <2>2, RunKeepsAll
  <2>3. QED
    BY <2>1, <2>2
<1>3. \A t \in Task : Kept(t)
  BY <1>1, RunKeepsAll
<1>4. QED
  BY <1>1, <1>2, <1>3, NoRowsKeeps

\* A caller that begins with rows it is about to save, none of which undoes what
\* is held or makes startable again what may be started once.
LEMMA ReadsRows ==
    ASSUME SophiaInv, HeldInv, NEW d \in Desk, NEW m \in DeskState, DeskTo(d, m),
           UNCHANGED <<held, clobbered, tasks, launches, proc>>,
           m.pc = "rows" => \A t \in m.todo : m.rows[t].status = "BLOCKED",
           \A t \in held : m.pc = "rows" \/ t \in m.todo => m.rows[t].status = "BLOCKED",
           \A t \in m.todo : OnceOnly(t) => m.rows[t].status # "PENDING"
    PROVE  DeskKept
<1>1. held \subseteq Task /\ desk'[d] = m /\ \A e \in Desk \ {d} : desk'[e] = desk[e]
  BY DeskMoves, Apart
<1>2. HeldInv'
  <2>1. ASSUME NEW e \in Desk, desk'[e].pc = "rows", NEW t \in desk'[e].todo
        PROVE  desk'[e].rows[t].status = "BLOCKED"
    BY <1>1, <2>1 DEF HeldInv
  <2>2. ASSUME NEW t \in held, NEW e \in Desk PROVE ~Undoes(e, t)'
    BY <1>1 DEF HeldInv, Undoes
  <2>3. IdleMemory' /\ \A t \in held : Off(t)'
    BY DEF HeldInv, IdleMemory, Off
  <2>4. QED
    BY <2>1, <2>2, <2>3 DEF HeldInv
<1>3. ASSUME OnceInv PROVE OnceInv'
  <2>1. ASSUME NEW t \in Task, OnceOnly(t), NEW e \in Desk, t \in desk'[e].todo,
               desk[e].pc \in {"rows", "reconcile"} /\ t \in desk[e].todo
                   => desk[e].rows[t].status # "PENDING",
               desk'[e].pc \in {"rows", "reconcile"}
        PROVE  desk'[e].rows[t].status # "PENDING"
    BY <1>1, <2>1
  <2>2. QED
    BY <1>3, <2>1 DEF OnceInv, Once
<1>4. QED
  BY <1>2, <1>3 DEF DeskKept

\* Approval: the rows are read, those of S marked.
LEMMA ApprovalReadKeeps ==
    ASSUME SophiaInv, HeldInv, NEW d \in Desk, ApprovalRead(d)
    PROVE  DeskKept
<1>1. held \subseteq Task /\ TypeOK /\ UNCHANGED <<held, clobbered, tasks, launches, proc>>
  BY Apart DEF ApprovalRead, vars, procVars, history
<1>2. PICK S \in {Task} \cup {{t} : t \in Task} :
        DeskTo(d, [IdleDesk EXCEPT !.pc = "rows", !.todo = S,
                      !.rows = [t \in Task |-> IF t \in S THEN Row("BLOCKED", "WAITING_APPROVAL", tasks[t].attempts)
                                               ELSE tasks[t]]])
  BY DEF ApprovalRead
<1>3. S \subseteq Task
  OBVIOUS
<1> DEFINE marked == [t \in Task |-> IF t \in S THEN Row("BLOCKED", "WAITING_APPROVAL", tasks[t].attempts)
                                     ELSE tasks[t]]
           m == [IdleDesk EXCEPT !.pc = "rows", !.todo = S, !.rows = marked]
<1>4. DeskTo(d, m)
  BY <1>2
<1>5. marked \in [Task -> TaskRow]
  BY <1>1 DEF TypeOK, StoreTypeOK, Row, TaskRow, TaskStatus, TruthStatus
<1>6. /\ \A t \in S : marked[t].status = "BLOCKED"
      /\ \A t \in Task : tasks[t].status = "BLOCKED" => marked[t].status = "BLOCKED"
  BY <1>3 DEF Row
<1> HIDE DEF marked
<1>7. m \in DeskState /\ m.pc = "rows" /\ m.todo = S /\ m.rows = marked
  BY <1>3, <1>5, IdleDeskOK, DeskLabels DEF DeskState
<1> HIDE DEF m
<1>8. \A t \in held : m.rows[t].status = "BLOCKED"
  BY <1>1, <1>6, <1>7 DEF HeldInv, Off
<1>9. \A t \in m.todo : m.rows[t].status = "BLOCKED"
  BY <1>6, <1>7
<1>10. QED
  BY <1>1, <1>4, <1>7, <1>8, <1>9, ReadsRows

\* The marked rows are saved, and the others as they were read.
LEMMA ApprovalRowsKeeps ==
    ASSUME SophiaInv, HeldInv, NEW d \in Desk, ApprovalRows(d)
    PROVE  DeskKept
<1>1. /\ held \subseteq Task /\ desk[d] \in DeskState /\ TypeOK
      /\ UNCHANGED <<launches, proc>> /\ tasks' = desk[d].rows /\ desk[d].pc = "rows"
      /\ clobbered' = (clobbered \/ \E t \in Task \ desk[d].todo : tasks[t] # desk[d].rows[t])
      /\ held' = held \cup Holdable(d)
  BY Apart DEF ApprovalRows, procVars, history
<1>2. desk'[d].pc = "goal" /\ \A e \in Desk \ {d} : desk'[e] = desk[e]
  <2> DEFINE m == [desk[d] EXCEPT !.pc = "goal"]
  <2>1. m \in DeskState /\ m.pc = "goal" /\ DeskTo(d, m)
    BY <1>1, DeskType, DeskLabels DEF ApprovalRows
  <2> HIDE DEF m
  <2>2. QED
    BY <2>1, DeskMoves
<1>3. desk[d].todo \subseteq Task
  BY <1>1 DEF DeskState
<1>4. \A t \in desk[d].todo : tasks'[t].status = "BLOCKED"
  BY <1>1 DEF HeldInv
<1>5. ASSUME NEW t \in held, NEW e \in Desk PROVE Off(t)' /\ ~Undoes(e, t)'
  <2>1. Off(t) /\ desk[d].rows[t].status = "BLOCKED" /\ ~Undoes(e, t)
    BY <1>1 DEF HeldInv, Undoes
  <2>2. QED
    BY <1>1, <1>2, <2>1 DEF Off, Undoes
<1>6. ASSUME NEW t \in Holdable(d), NEW e \in Desk PROVE Off(t)' /\ ~Undoes(e, t)'
  <2>1. t \in desk[d].todo /\ (\A p \in Proc : At(p, "idle")) /\ (e # d => ~Undoes(e, t))
    BY DEF Holdable
  <2>2. t # NoTask /\ \A p \in Proc : proc[p].todo = {} /\ proc[p].cur = NoTask
    BY <1>3, <2>1, ProcAssumption DEF HeldInv, IdleMemory, At
  <2>3. Off(t)'
    BY <1>1, <1>4, <2>1, <2>2 DEF Off
  <2>4. ~Undoes(e, t)'
    BY <1>2, <2>1 DEF Undoes
  <2>5. QED
    BY <2>3, <2>4
<1>7. HeldInv'
  <2>1. IdleMemory'
    BY <1>1 DEF HeldInv, IdleMemory
  <2>2. ASSUME NEW e \in Desk, desk'[e].pc = "rows", NEW t \in desk'[e].todo
        PROVE  desk'[e].rows[t].status = "BLOCKED"
    BY <1>2, <2>2 DEF HeldInv
  <2>3. \A t \in held' : Off(t)' /\ \A e \in Desk : ~Undoes(e, t)'
    <3>1. \A t \in held \cup Holdable(d) : Off(t)'
      <4>1. \A t \in held : Off(t)'
        BY <1>1 DEF HeldInv, Off, Undoes
      <4>2. \A t \in Holdable(d) : Off(t)'
        BY <1>6
      <4>3. QED
        BY <4>1, <4>2
    <3>2. \A t \in held \cup Holdable(d) : \A e \in Desk : ~Undoes(e, t)'
      BY <1>5, <1>6
    <3>3. QED
      BY <1>1, <3>1, <3>2
  <2>4. QED
    BY <2>1, <2>2, <2>3 DEF HeldInv
<1>8. ASSUME OnceInv PROVE OnceInv'
  <2>1. CASE clobbered'
    BY <2>1 DEF OnceInv
  <2>2. CASE ~clobbered'
    <3>1. ~clobbered /\ \A t \in Task \ desk[d].todo : tasks'[t] = tasks[t]
      BY <1>1, <2>2
    <3>2. ASSUME NEW t \in Task, Once(t) PROVE Once(t)'
      BY <1>1, <1>4, <3>1, <3>2 DEF Once
    <3>3. ASSUME NEW t \in Task, OnceOnly(t), NEW e \in Desk,
                 desk'[e].pc \in {"rows", "reconcile"}, t \in desk'[e].todo
          PROVE  desk'[e].rows[t].status # "PENDING"
      BY <1>2, <1>8, <3>1, <3>3 DEF OnceInv
    <3>4. ASSUME NEW t \in Task, OnceOnly(t) PROVE Once(t)'
      BY <1>8, <3>1, <3>2, <3>4 DEF OnceInv
    <3>5. QED
      BY <3>3, <3>4 DEF OnceInv
  <2>3. QED
    BY <2>1, <2>2
<1>9. QED
  BY <1>1, <1>7, <1>8 DEF DeskKept

\* Reconciliation: only RUNNING tasks are orphans, so none that is held, and one
\* that may be started once is not made PENDING.
LEMMA ReconcileReadKeeps ==
    ASSUME SophiaInv, HeldInv, NEW d \in Desk, ReconcileRead(d)
    PROVE  DeskKept
<1> DEFINE rows == Reconciled(tasks, leases, clock)
           orphans == Orphans(tasks, leases, clock)
           m == [IdleDesk EXCEPT !.pc = "reconcile", !.rows = rows, !.todo = orphans]
<1>1. held \subseteq Task /\ TypeOK /\ UNCHANGED <<held, clobbered, tasks, launches, proc>>
  BY Apart DEF ReconcileRead, vars, procVars, history
<1>2. \A t \in orphans : tasks[t].status = "RUNNING" /\ rows[t] = ReconciledRow(t, tasks[t])
  BY DEF Orphans, Reconciled
<1>3. \A t \in orphans : OnceOnly(t) => rows[t].status # "PENDING"
  BY <1>2, ReconciledRowFacts DEF OnceOnly, Retriable
<1>4. DeskTo(d, m)
  BY DEF ReconcileRead
<1>5. rows \in [Task -> TaskRow] /\ orphans \subseteq Task
  BY <1>1, ReconciledType DEF TypeOK, StoreTypeOK, Orphans
<1> HIDE DEF rows, orphans
<1>6. m \in DeskState /\ m.pc = "reconcile" /\ m.rows = rows /\ m.todo = orphans
  BY <1>5, IdleDeskOK, DeskLabels DEF DeskState
<1> HIDE DEF m
<1>7. \A t \in held : t \notin m.todo
  BY <1>1, <1>2, <1>6 DEF HeldInv, Off
<1>8. QED
  BY <1>1, <1>3, <1>4, <1>6, <1>7, ReadsRows

\* The orphans are saved, whatever has become of them since; one that has been
\* held was not going to be saved as anything but BLOCKED.
LEMMA ReconcileRowsKeeps ==
    ASSUME SophiaInv, HeldInv, NEW d \in Desk, ReconcileRows(d)
    PROVE  DeskKept
<1>1. /\ held \subseteq Task /\ desk[d] \in DeskState /\ desk[d].pc = "reconcile"
      /\ UNCHANGED <<held, clobbered, launches, proc>>
      /\ \A t \in Task : tasks'[t] = IF t \in desk[d].todo THEN desk[d].rows[t] ELSE tasks[t]
  BY Apart DEF ReconcileRows, SaveTasks, procVars, history
<1>2. desk'[d].pc = "outcome" /\ \A e \in Desk \ {d} : desk'[e] = desk[e]
  <2> DEFINE m == [desk[d] EXCEPT !.pc = "outcome"]
  <2>1. m \in DeskState /\ m.pc = "outcome" /\ DeskTo(d, m)
    BY <1>1, DeskType, DeskLabels DEF ReconcileRows
  <2> HIDE DEF m
  <2>2. QED
    BY <2>1, DeskMoves
<1>3. ASSUME NEW t \in held PROVE Off(t)'
  BY <1>1, <1>3 DEF HeldInv, Off, Undoes
<1>4. HeldInv'
  <2>1. IdleMemory'
    BY <1>1 DEF HeldInv, IdleMemory
  <2>2. ASSUME NEW e \in Desk, desk'[e].pc = "rows", NEW t \in desk'[e].todo
        PROVE  desk'[e].rows[t].status = "BLOCKED"
    BY <1>2, <2>2 DEF HeldInv
  <2>3. ASSUME NEW t \in held, NEW e \in Desk PROVE ~Undoes(e, t)'
    BY <1>2 DEF HeldInv, Undoes
  <2>4. QED
    BY <1>1, <1>3, <2>1, <2>2, <2>3 DEF HeldInv
<1>5. ASSUME OnceInv PROVE OnceInv'
  <2>1. ASSUME NEW t \in Task, Once(t), t \in desk[d].todo => desk[d].rows[t].status # "PENDING"
        PROVE  Once(t)'
    BY <1>1, <2>1 DEF Once
  <2>2. CASE clobbered
    BY <1>1, <2>2 DEF OnceInv
  <2>3. CASE ~clobbered
    <3>1. ASSUME NEW t \in Task, OnceOnly(t) PROVE Once(t)'
      BY <1>1, <1>5, <2>1, <2>3, <3>1 DEF OnceInv
    <3>2. ASSUME NEW t \in Task, OnceOnly(t), NEW e \in Desk,
                 desk'[e].pc \in {"rows", "reconcile"}, t \in desk'[e].todo
          PROVE  desk'[e].rows[t].status # "PENDING"
      BY <1>2, <1>5, <2>3, <3>2 DEF OnceInv
    <3>3. QED
      BY <3>1, <3>2 DEF OnceInv
  <2>4. QED
    BY <2>2, <2>3
<1>6. QED
  BY <1>1, <1>4, <1>5 DEF DeskKept

\* Every step of the contract.
LEMMA ContractKeeps ==
    ASSUME SophiaInv, HeldInv, [SNext]_svars
    PROVE  DeskKept
<1>1. ASSUME NEW p \in Proc, SubmitStep(p) \/ CommandLine(p) \/ ProcessCrash(p)
      PROVE  DeskKept
  <2>1. [Next]_vars
    BY <1>1 DEF SubmitStep, SubmitOnly, SubmitRunning, SubmitCall, SubmitTruth, RunStep,
                CommandLine, ProcessCrash, Next, Progress
  <2>2. UNCHANGED deskVars
    BY <1>1 DEF SubmitStep, SubmitOnly, SubmitRunning, SubmitCall, SubmitTruth, RunStep,
                CommandLine, ProcessCrash
  <2>3. QED
    BY <2>1, <2>2, EngineKeeps DEF deskVars, CarriesNoRows
<1>2. ASSUME NEW d \in Desk,
             RequestCancel(d) \/ StatusTicket(d) \/ ApprovalGoal(d) \/ ReconcileGoal(d) \/ DeskTicket(d)
             \/ StatusGoal(d) \/ StatusVerification(d) \/ StatusAnswer(d) \/ DeskCrash(d)
      PROVE  DeskKept
  <2>1. held \subseteq Task /\ UNCHANGED <<held, clobbered, tasks, launches, proc>>
    BY <1>2, Apart, Zenon DEF RequestCancel, CancelGoal, StatusTicket, ApprovalGoal, ReconcileGoal, DeskTicket,
             StatusGoal, StatusVerification, StatusAnswer, DeskCrash, vars, procVars, history
  <2>2. \E m : DeskTo(d, m) /\ m.pc \notin {"rows", "reconcile"}
    <3>1. /\ IdleDesk.pc = "idle"
          /\ \A truth : [IdleDesk EXCEPT !.pc = "ticket", !.truth = truth].pc = "ticket"
          /\ \A truth : [IdleDesk EXCEPT !.pc = "read", !.truth = truth].pc = "read"
          /\ \A truth : [desk[d] EXCEPT !.pc = "verified", !.truth = truth].pc = "verified"
          /\ \A run : [desk[d] EXCEPT !.pc = "status", !.run = run].pc = "status"
      BY Apart DEF IdleDesk, DeskState
    <3>2. \/ \E truth : DeskTo(d, [IdleDesk EXCEPT !.pc = "ticket", !.truth = truth])
          \/ \E truth : DeskTo(d, [IdleDesk EXCEPT !.pc = "read", !.truth = truth])
          \/ \E truth : DeskTo(d, [desk[d] EXCEPT !.pc = "verified", !.truth = truth])
          \/ \E run : DeskTo(d, [desk[d] EXCEPT !.pc = "status", !.run = run])
          \/ DeskTo(d, IdleDesk)
      BY <1>2 DEF RequestCancel, StatusTicket, ApprovalGoal, ReconcileGoal, DeskTicket,
               StatusGoal, StatusVerification, StatusAnswer, DeskCrash
    <3>3. ASSUME NEW truth, DeskTo(d, [IdleDesk EXCEPT !.pc = "ticket", !.truth = truth])
          PROVE  \E m : DeskTo(d, m) /\ m.pc \notin {"rows", "reconcile"}
      BY <3>1, <3>3
    <3>4. ASSUME NEW truth, DeskTo(d, [IdleDesk EXCEPT !.pc = "read", !.truth = truth])
          PROVE  \E m : DeskTo(d, m) /\ m.pc \notin {"rows", "reconcile"}
      BY <3>1, <3>4
    <3>5. ASSUME NEW truth, DeskTo(d, [desk[d] EXCEPT !.pc = "verified", !.truth = truth])
          PROVE  \E m : DeskTo(d, m) /\ m.pc \notin {"rows", "reconcile"}
      BY <3>1, <3>5
    <3>6. ASSUME NEW run, DeskTo(d, [desk[d] EXCEPT !.pc = "status", !.run = run])
          PROVE  \E m : DeskTo(d, m) /\ m.pc \notin {"rows", "reconcile"}
      BY <3>1, <3>6
    <3>7. DeskTo(d, IdleDesk) => \E m : DeskTo(d, m) /\ m.pc \notin {"rows", "reconcile"}
      BY <3>1
    <3>8. QED
      BY <3>2, <3>3, <3>4, <3>5, <3>6, <3>7
  <2>3. PICK m : DeskTo(d, m) /\ m.pc \notin {"rows", "reconcile"}
    BY <2>2
  <2>4. CarriesNoRows
    BY <2>3, Apart DEF CarriesNoRows, DeskTo
  <2>5. QED
    BY <2>1, <2>4, CalmKeeps
<1>3. ASSUME NEW d \in Desk, ApprovalRead(d) \/ ApprovalRows(d) \/ ReconcileRead(d) \/ ReconcileRows(d)
      PROVE  DeskKept
  BY <1>3, ApprovalReadKeeps, ApprovalRowsKeeps, ReconcileReadKeeps, ReconcileRowsKeeps
<1>4. CASE UNCHANGED svars
  <2>1. held \subseteq Task /\ UNCHANGED <<held, clobbered, tasks, launches, proc, desk>>
    BY <1>4, Apart DEF svars, vars, deskVars
  <2>2. QED
    BY <2>1, CalmKeeps DEF CarriesNoRows
<1>5. QED
  BY <1>1, <1>2, <1>3, <1>4 DEF SNext, DeskStep

\* A task held for approval while nothing ran, and while no other caller had read
\* rows to save over it, stays off, and nobody becomes about to undo that: of any
\* number of processes and of callers whose operations overlap.
THEOREM HeldInvCorrect == SophiaSpec => []HeldInv
<1>1. SInit => HeldInv
  <2> SUFFICES ASSUME SInit PROVE HeldInv
    OBVIOUS
  <2>1. (\A d \in Desk : desk[d].pc = "idle") /\ held = {}
    BY DEF SInit, IdleDesk
  <2>2. IdleMemory
    BY DEF SInit, Init, IdleMemory, IdleProc
  <2>3. QED
    BY <2>1, <2>2 DEF HeldInv
<1>2. SophiaInv /\ HeldInv /\ [SNext]_svars => HeldInv'
  BY ContractKeeps DEF DeskKept
<1>3. QED
  BY <1>1, <1>2, SophiaCorrect, PTL DEF SophiaSpec

\* Fail-closed checkpoint: no run, resume or reconciliation, on behalf of
\* anybody, starts a task that was held for approval while nothing ran and no
\* other caller was about to write over it; nor does an approval of another task
\* that is read later let it go.
THEOREM ApprovalFailsClosedHolds == SophiaSpec => ApprovalFailsClosed
<1>1. SophiaInv /\ HeldInv /\ [SNext]_svars => [\A t \in held : launches'[t] = launches[t]]_svars
  BY ContractKeeps DEF DeskKept
<1>2. QED
  BY <1>1, HeldInvCorrect, SophiaCorrect, PTL DEF SophiaSpec, ApprovalFailsClosed

\* With one process running the goal, a task that must not be repeated is in one
\* place only until it is started, and startable nowhere afterwards, unless an
\* approval has saved rows that were out of date.
THEOREM OnceInvCorrect ==
    ASSUME OneProcess
    PROVE  SophiaSpec => []OnceInv
<1>1. SInit => OnceInv
  <2> SUFFICES ASSUME SInit, NEW t \in Task
               PROVE  Once(t) /\ \A d \in Desk : desk[d].pc = "idle"
    BY DEF OnceInv
  <2>1. \A d \in Desk : desk[d].pc = "idle"
    BY DEF SInit, IdleDesk
  <2>2. launches[t] = 0 /\ \A p \in Proc : proc[p].pc = "idle"
    BY DEF SInit, Init, IdleProc
  <2>3. QED
    BY <2>1, <2>2 DEF Once, MayStart
<1>2. SophiaInv /\ HeldInv /\ OnceInv /\ [SNext]_svars => OnceInv'
  BY ContractKeeps DEF DeskKept
<1>3. QED
  BY <1>1, <1>2, HeldInvCorrect, SophiaCorrect, PTL DEF SophiaSpec

\* Without duplicating non-idempotent work: resume_reconcile may take a live
\* task for an orphan, a crash may come between any two store calls, and still
\* no command that must not be repeated is, in a process that is the only one
\* to run the goal.
THEOREM ReconcileNeverDuplicatesHolds ==
    ASSUME OneProcess
    PROVE  SophiaSpec => []ReconcileNeverDuplicates
<1>1. OnceInv => ReconcileNeverDuplicates
  BY DEF OnceInv, OnceOnly, Once, ReconcileNeverDuplicates
<1>2. QED
  BY <1>1, OnceInvCorrect, PTL
=============================================================================
