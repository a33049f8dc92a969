---------------------------- MODULE SophiaContract ----------------------------
(***************************************************************************)
(* The operations of src/core/contracts/sophia_integration_v1.py that      *)
(* touch a goal: submit_task, request_cancel, report_approval_required,    *)
(* resume_reconcile and get_status.  Each one is several store calls,      *)
(* without a transaction around them, while processes run the goal.        *)
(*                                                                         *)
(* The ticket is its truth_status.  Its admission is in TicketAdmission;   *)
(* here create_goal has returned and submit_task goes on.                  *)
(***************************************************************************)
EXTENDS GoalRun

CONSTANTS
    Desk,           \* other callers of the contract, in processes of their own
    MaxCalls        \* bound: operations they begin and runs, together

ASSUME CallsAssumption == MaxCalls \in Nat

VARIABLES
    ticket,         \* truth_status of the ticket
    latest,         \* the latest verification run: it passed, it failed, or none
    submit,         \* submit_task: where it is, who runs it, what it will write
    desk,           \* desk -> the operation this caller of the contract is in
    requests,       \* operations they have begun
    held,           \* history: tasks held for approval while nothing ran or was
                    \* about to be written over them
    clobbered       \* history: report_approval_required wrote over a newer row

deskVars == <<desk, requests, held, clobbered>>
svars == <<vars, ticket, latest, submit, deskVars>>

DeskPC == {"idle", "rows", "goal", "ticket", "reconcile", "outcome", "read", "verified", "status"}

\* rows and todo are the task rows about to be saved, truth what is about to be
\* written to the ticket or has been read for the answer.
IdleDesk ==
    [pc |-> "idle", rows |-> [t \in Task |-> Row("PENDING", "PLANNED", 0)], todo |-> {},
     truth |-> "PLANNED", run |-> "none"]

SInit ==
    /\ Init
    /\ ticket = "PLANNED"
    /\ latest = "none"
    /\ \E p \in Proc : submit = [pc |-> "planned", by |-> p, truth |-> "PLANNED"]
    /\ desk = [d \in Desk |-> IdleDesk]
    /\ requests = 0
    /\ held = {}
    /\ clobbered = FALSE

(***************************************************************************)
(* submit_task, and the runs of a goal                                     *)
(***************************************************************************)

\* Without execute_immediately the submission ends here.
SubmitOnly ==
    /\ submit.pc = "planned"
    /\ submit' = [submit EXCEPT !.pc = "done"]
    /\ UNCHANGED <<vars, ticket, latest, deskVars>>

SubmitRunning ==
    /\ submit.pc = "planned"
    /\ ticket' = "RUNNING"
    /\ submit' = [submit EXCEPT !.pc = "call"]
    /\ UNCHANGED <<vars, latest, deskVars>>

CallsLeft == runs + requests < MaxCalls

SubmitCall ==
    /\ submit.pc = "call" /\ CallsLeft
    /\ CallRun(submit.by)
    /\ submit' = [submit EXCEPT !.pc = "run"]
    /\ UNCHANGED <<ticket, latest, deskVars>>

\* Mutant of AfterStep: an exception counts as a finished goal.
AfterStepAlways(p) ==
    IF submit.pc = "run" /\ submit.by = p /\ proc'[p].pc = "idle"
    THEN [submit EXCEPT !.pc = "truth", !.truth = "VERIFIED_SUCCESS"]
    ELSE submit

\* run_goal returns the goal to submit_task, or raises, which ends it.
AfterStep(p) ==
    IF submit.pc = "run" /\ submit.by = p /\ proc'[p].pc = "idle"
    THEN IF At(p, "finish") THEN [submit EXCEPT !.pc = "truth", !.truth = proc[p].verdict.truth]
                            ELSE [submit EXCEPT !.pc = "done"]
    ELSE submit

\* A store call of a run, on behalf of submit_task or of the command line; the
\* one that runs the gates saves a verification run.
RunStep(p) ==
    /\ Step(p)
    /\ submit' = AfterStep(p)
    /\ latest' = IF At(p, "gates") THEN (IF proc'[p].ok THEN "passed" ELSE "failed") ELSE latest
    /\ UNCHANGED <<ticket, deskVars>>

SubmitTruth ==
    /\ submit.pc = "truth"
    /\ ticket' = submit.truth
    /\ submit' = [submit EXCEPT !.pc = "done"]
    /\ UNCHANGED <<vars, latest, deskVars>>

\* p is not in the middle of submit_task.
Available(p) == submit.by # p \/ submit.pc = "done"

\* goal run, goal resume and goal verify of the command line: no ticket.
CommandLine(p) ==
    /\ Available(p) /\ CallsLeft
    /\ CallRun(p) \/ CallVerify(p) \/ CallResume(p)
    /\ UNCHANGED <<ticket, latest, submit, deskVars>>

ProcessCrash(p) ==
    /\ IF At(p, "idle") THEN ~Available(p) /\ UNCHANGED vars ELSE Crash(p)
    /\ submit' = IF submit.by = p THEN [submit EXCEPT !.pc = "done"] ELSE submit
    /\ UNCHANGED <<ticket, latest, deskVars>>

(***************************************************************************)
(* The other operations                                                    *)
(***************************************************************************)

\* d goes on with a request, or begins one.
DeskTo(d, memory) ==
    /\ desk' = [desk EXCEPT ![d] = memory]
    /\ requests' = IF desk[d].pc = "idle" THEN requests + 1 ELSE requests

Ready(d) == desk[d].pc = "idle" /\ CallsLeft

\* request_cancel: the goal, then the ticket.
RequestCancel(d) ==
    /\ Ready(d)
    /\ CancelGoal
    /\ DeskTo(d, [IdleDesk EXCEPT !.pc = "ticket", !.truth = "CANCELLED"])
    /\ UNCHANGED <<ticket, latest, submit, held, clobbered>>

\* report_approval_required reads the rows and marks one task, or all.
ApprovalRead(d) ==
    /\ Ready(d)
    /\ \E S \in {Task} \cup {{t} : t \in Task} :
           DeskTo(d, [IdleDesk EXCEPT !.pc = "rows", !.todo = S,
                      !.rows = [t \in Task |-> IF t \in S THEN Row("BLOCKED", "WAITING_APPROVAL", tasks[t].attempts)
                                               ELSE tasks[t]]])
    /\ UNCHANGED <<vars, ticket, latest, submit, held, clobbered>>

\* Desk e is about to save the row of t as something other than BLOCKED.
Undoes(e, t) ==
    /\ desk[e].pc = "rows" \/ (desk[e].pc = "reconcile" /\ t \in desk[e].todo)
    /\ desk[e].rows[t].status # "BLOCKED"

\* The tasks d marks while no process runs and no other caller undoes it.
Holdable(d) ==
    {t \in desk[d].todo : /\ \A p \in Proc : At(p, "idle")
                          /\ \A e \in Desk \ {d} : ~Undoes(e, t)}

\* Mutant of ApprovalRows: only the goal and the ticket are saved.
ApprovalRowsNotSaved(d) ==
    /\ desk[d].pc = "rows"
    /\ held' = held \cup Holdable(d)
    /\ DeskTo(d, [desk[d] EXCEPT !.pc = "goal"])
    /\ UNCHANGED <<vars, ticket, latest, submit, clobbered>>

\* It saves all the rows, those it did not mark as well.
ApprovalRows(d) ==
    /\ desk[d].pc = "rows"
    /\ tasks' = desk[d].rows
    /\ clobbered' = (clobbered \/ \E t \in Task \ desk[d].todo : tasks[t] # desk[d].rows[t])
    /\ held' = held \cup Holdable(d)
    /\ DeskTo(d, [desk[d] EXCEPT !.pc = "goal"])
    /\ UNCHANGED <<goal, leases, clock, procVars, refused, history, ticket, latest, submit>>

ApprovalGoal(d) ==
    /\ desk[d].pc = "goal"
    /\ goal' = GoalIs("BLOCKED", "WAITING_APPROVAL")
    /\ DeskTo(d, [IdleDesk EXCEPT !.pc = "ticket", !.truth = "WAITING_APPROVAL"])
    /\ UNCHANGED <<tasks, leases, clock, procVars, refused, history, ticket, latest, submit,
                   held, clobbered>>

\* resume_reconcile: reconcile_orphaned_running_tasks has read and decided.  It
\* saves under the same lock, which is that of its store object only.
ReconcileRead(d) ==
    /\ Ready(d)
    /\ DeskTo(d, [IdleDesk EXCEPT !.pc = "reconcile", !.rows = Reconciled(tasks, leases, clock),
                               !.todo = Orphans(tasks, leases, clock)])
    /\ UNCHANGED <<vars, ticket, latest, submit, held, clobbered>>

\* It saves the orphans; leases of theirs are released.
ReconcileRows(d) ==
    /\ desk[d].pc = "reconcile"
    /\ SaveTasks(desk[d].todo, desk[d].rows)
    /\ leases' = [t \in Task |-> IF t \in desk[d].todo THEN NoLease ELSE leases[t]]
    /\ DeskTo(d, [desk[d] EXCEPT !.pc = "outcome"])
    /\ UNCHANGED <<goal, clock, procVars, refused, history, ticket, latest, submit,
                   held, clobbered>>

\* The goal is blocked if an orphan waits for approval; its truth is mirrored.
ReconcileGoal(d) ==
    /\ desk[d].pc = "outcome"
    /\ goal' = IF \E t \in desk[d].todo : desk[d].rows[t].truth = "WAITING_APPROVAL"
               THEN GoalIs("BLOCKED", "WAITING_APPROVAL") ELSE goal
    /\ DeskTo(d, [IdleDesk EXCEPT !.pc = "ticket", !.truth = goal'.truth])
    /\ UNCHANGED <<tasks, leases, clock, procVars, refused, history, ticket, latest, submit,
                   held, clobbered>>

\* The last store call of all three: the ticket, whatever it says by now.
DeskTicket(d) ==
    /\ desk[d].pc = "ticket"
    /\ ticket' = desk[d].truth
    /\ DeskTo(d, IdleDesk)
    /\ UNCHANGED <<vars, latest, submit, held, clobbered>>

\* get_status reads the ticket, then goal and verification run, the tasks last.
StatusTicket(d) ==
    /\ Ready(d)
    /\ DeskTo(d, [IdleDesk EXCEPT !.pc = "read", !.truth = ticket])
    /\ UNCHANGED <<vars, ticket, latest, submit, held, clobbered>>

\* It believes the goal unless that has not started.
StatusGoal(d) ==
    /\ desk[d].pc = "read"
    /\ DeskTo(d, [desk[d] EXCEPT !.pc = "verified",
                           !.truth = IF goal.truth # "PLANNED" THEN goal.truth ELSE @])
    /\ UNCHANGED <<vars, ticket, latest, submit, held, clobbered>>

StatusVerification(d) ==
    /\ desk[d].pc = "verified"
    /\ DeskTo(d, [desk[d] EXCEPT !.pc = "status", !.run = latest])
    /\ UNCHANGED <<vars, ticket, latest, submit, held, clobbered>>

\* The tasks are read and the envelope is made.
Simulated(d) == desk[d].truth = "SIMULATED" \/ \E t \in Task : tasks[t].truth = "SIMULATED"

\* verification_outcome of _derive_outcomes.
VerificationOutcome(d) ==
    IF desk[d].truth \in {"WAITING_APPROVAL", "VERIFICATION_FAILED"} THEN desk[d].truth
    ELSE IF desk[d].truth = "VERIFIED_SUCCESS" /\ ~Simulated(d) THEN "VERIFIED_SUCCESS"
    ELSE IF desk[d].run = "failed" THEN "VERIFICATION_FAILED"
    ELSE IF desk[d].run = "passed" /\ ~Simulated(d) THEN "VERIFIED_SUCCESS"
    ELSE IF Simulated(d) \/ desk[d].truth \in {"PLANNED", "QUEUED", "RUNNING", "RETRY_WAIT", "CANCELLED"} THEN "NOT_RUN"
    ELSE "UNVERIFIED"

\* verified_success_claim_permitted of the envelope.
ClaimPermitted(d) ==
    /\ desk[d].pc = "status"
    /\ desk[d].truth = "VERIFIED_SUCCESS" /\ VerificationOutcome(d) = "VERIFIED_SUCCESS" /\ ~Simulated(d)

\* get_status returns the envelope.
StatusAnswer(d) ==
    /\ desk[d].pc = "status"
    /\ DeskTo(d, IdleDesk)
    /\ UNCHANGED <<vars, ticket, latest, submit, held, clobbered>>

DeskCrash(d) ==
    /\ desk[d].pc # "idle"
    /\ DeskTo(d, IdleDesk)
    /\ UNCHANGED <<vars, ticket, latest, submit, held, clobbered>>

DeskStep(d) ==
    \/ ApprovalRows(d) \/ ApprovalGoal(d) \/ ReconcileRows(d) \/ ReconcileGoal(d) \/ DeskTicket(d)
    \/ StatusGoal(d) \/ StatusVerification(d) \/ StatusAnswer(d)

SubmitStep(p) ==
    \/ submit.by = p /\ (SubmitOnly \/ SubmitRunning \/ SubmitCall \/ SubmitTruth)
    \/ RunStep(p)

SNext ==
    \/ \E p \in Proc : SubmitStep(p) \/ CommandLine(p) \/ ProcessCrash(p)
    \/ \E d \in Desk : \/ RequestCancel(d) \/ ApprovalRead(d) \/ ReconcileRead(d) \/ StatusTicket(d)
                       \/ DeskStep(d) \/ DeskCrash(d)

SophiaSpec == SInit /\ [][SNext]_svars

SophiaTypeOK ==
    /\ TypeOK
    /\ ticket \in TruthStatus
    /\ latest \in {"none", "passed", "failed"}
    /\ submit \in [pc : {"planned", "call", "run", "truth", "done"}, by : Proc, truth : TruthStatus]
    /\ desk \in [Desk -> [pc : DeskPC, rows : [Task -> TaskRow], todo : SUBSET Task,
                          truth : TruthStatus, run : {"none", "passed", "failed"}]]
    /\ requests \in Nat
    /\ held \subseteq Task
    /\ clobbered \in BOOLEAN

(***************************************************************************)
(* Properties                                                              *)
(***************************************************************************)

\* What Sophia may claim was earned: neither the ticket nor an envelope with
\* verified_success_claim_permitted speaks of success unless every command was
\* executed with success and real gates passed, although the truth is mirrored
\* from memory, out of step with cancellations, reconciliations and approvals,
\* and get_status reads goal and tasks apart.
ClaimIsEarned ==
    (\E d \in Desk : ClaimPermitted(d)) \/ ticket = "VERIFIED_SUCCESS" =>
        Task # {} /\ Task \subseteq ranOk /\ gatesPassed # "never"

\* "Fail-closed checkpoint": a task held for approval while no process runs the
\* goal and no other caller has read rows it will save as anything but BLOCKED
\* is not started by any later run, resume or reconciliation, nor let go by a
\* later approval of another task.
ApprovalFailsClosed == [][\A t \in held : launches'[t] = launches[t]]_svars

\* "Without duplicating non-idempotent work": resume_reconcile may take a live
\* task for an orphan and write over its result, and still no command that must
\* not be repeated is.  Only report_approval_required, which saves rows it read
\* before, can bring a finished task back.
ReconcileNeverDuplicates ==
    clobbered \/ \A t \in Task : (t \notin Idempotent \/ t \in Uncertain) => launches[t] <= 1
=============================================================================
