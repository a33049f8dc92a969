--------------------------- MODULE TicketAdmission ---------------------------
(***************************************************************************)
(* BuzzRuntimeAdapter.assign_mission: a webhook event is admitted as a     *)
(* durable ticket, its mission is run, the ticket gets the status the      *)
(* mission ended with and the report is handed to the outbox.  Webhooks    *)
(* are redelivered, threads of several processes handle them, processes    *)
(* crash.                                                                  *)
(*                                                                         *)
(* The outbox is that of ReportOutbox; the key of the report of an event   *)
(* is the event.  send_update is the only caller of the outbox here.       *)
(***************************************************************************)
EXTENDS ReportOutbox

CONSTANTS
    TicketOf,       \* event -> the ticket_id in its payload, or made of it
    MaxWebhooks     \* bound: event -> its deliveries

ASSUME AdmissionAssumption == DOMAIN TicketOf = Key /\ MaxWebhooks \in [Key -> Nat]

VARIABLES
    ticket,         \* event -> truth_status of its row; NONE when there is none
    mission,        \* thread -> its call of assign_mission
    webhooks,       \* event -> deliveries so far
    executed,       \* history: event -> missions run for it
    ended           \* history: event -> the status its mission ended with; NONE before

admissionVars == <<ticket, mission, webhooks, executed, ended>>
allVars == <<row, lock, call, posted, accepted, creators,
             ticket, mission, webhooks, executed, ended>>

ExecutionTruthStatus ==
    {"PLANNED", "SIMULATED", "QUEUED", "RUNNING", "WAITING_APPROVAL", "RETRY_WAIT",
     "VERIFIED_SUCCESS", "EXECUTION_FAILED", "VERIFICATION_FAILED", "BLOCKED",
     "CANCELLED", "UNAVAILABLE"}

TicketTruth == ExecutionTruthStatus \cup {"NONE"}

MissionState == [pc : {"idle", "admit", "mark", "run", "conclude", "report"},
                 event : Key, truth : TicketTruth]

NoMission(e) == [pc |-> "idle", event |-> e, truth |-> "NONE"]

AdmissionInit ==
    /\ Init
    /\ ticket = [e \in Key |-> "NONE"]
    /\ \E e \in Key : mission = [p \in Proc |-> NoMission(e)]
    /\ webhooks = [e \in Key |-> 0]
    /\ executed = [e \in Key |-> 0]
    /\ ended = [e \in Key |-> "NONE"]

\* A row with the same primary key exists.
Taken(e) == \E f \in Key : TicketOf[f] = TicketOf[e] /\ ticket[f] # "NONE"

\* A webhook arrives.  admit_ticket looks for the event and answers that it
\* is a duplicate, or goes on to the INSERT with the lock held.
Webhook(p, e) ==
    /\ mission[p].pc = "idle" /\ call[p].pc = "idle"
    /\ Free(p)
    /\ webhooks[e] < MaxWebhooks[e]
    /\ webhooks' = [webhooks EXCEPT ![e] = @ + 1]
    /\ IF ticket[e] # "NONE"
       THEN UNCHANGED <<mission, lock>>
       ELSE /\ mission' = [mission EXCEPT ![p] = [NoMission(e) EXCEPT !.pc = "admit"]]
            /\ Take(p)
    /\ UNCHANGED <<row, call, posted, accepted, creators, ticket, executed, ended>>

\* Mutant of Admit: a row that appeared since the SELECT is written over.
AdmitAlways(p) ==
    LET e == mission[p].event
    IN /\ mission[p].pc = "admit"
       /\ ticket' = [ticket EXCEPT ![e] = "PLANNED"]
       /\ mission' = [mission EXCEPT ![p].pc = "mark"]
       /\ Give(p)
       /\ UNCHANGED <<row, call, posted, accepted, creators, webhooks, executed, ended>>

\* Mutant of Admit: the lock is kept when the INSERT fails.
AdmitKeepsLock(p) ==
    LET e == mission[p].event
    IN /\ mission[p].pc = "admit"
       /\ ticket' = IF Taken(e) THEN ticket ELSE [ticket EXCEPT ![e] = "PLANNED"]
       /\ mission' = [mission EXCEPT ![p].pc = IF Taken(e) THEN "idle" ELSE "mark"]
       /\ lock' = IF Taken(e) THEN lock ELSE [lock EXCEPT ![StoreOf[p]] = NoProc]
       /\ UNCHANGED <<row, call, posted, accepted, creators, webhooks, executed, ended>>

\* The INSERT; a row with the same event or ticket_id makes it fail, and the
\* event counts as a duplicate of that row.
Admit(p) ==
    LET e == mission[p].event
    IN /\ mission[p].pc = "admit"
       /\ ticket' = IF Taken(e) THEN ticket ELSE [ticket EXCEPT ![e] = "PLANNED"]
       /\ mission' = [mission EXCEPT ![p].pc = IF Taken(e) THEN "idle" ELSE "mark"]
       /\ Give(p)
       /\ UNCHANGED <<row, call, posted, accepted, creators, webhooks, executed, ended>>

\* update_ticket_truth_status, at label "from", and on to label "to".
SetTruth(p, from, to, truth) ==
    /\ mission[p].pc = from
    /\ Free(p)
    /\ ticket' = [ticket EXCEPT ![mission[p].event] = truth]
    /\ mission' = [mission EXCEPT ![p].pc = to]
    /\ UNCHANGED <<outboxVars, webhooks, executed, ended>>

MarkRunning(p) == SetTruth(p, "mark", "run", "RUNNING")

\* Mutant of RunMission: the mission goes straight to its report.
RunMissionThenReport(p) ==
    /\ mission[p].pc = "run"
    /\ executed' = [executed EXCEPT ![mission[p].event] = @ + 1]
    /\ \E truth \in ExecutionTruthStatus :
           /\ mission' = [mission EXCEPT ![p].pc = "report", ![p].truth = truth]
           /\ ended' = [ended EXCEPT ![mission[p].event] = truth]
    /\ UNCHANGED <<outboxVars, ticket, webhooks>>

\* The runtime runs the mission, to any end.  A result without an error may
\* name any status in its metadata, one of work still under way included; the
\* ticket and the data of the report get the same one.
RunMission(p) ==
    /\ mission[p].pc = "run"
    /\ executed' = [executed EXCEPT ![mission[p].event] = @ + 1]
    /\ \E truth \in ExecutionTruthStatus :
           /\ mission' = [mission EXCEPT ![p].pc = "conclude", ![p].truth = truth]
           /\ ended' = [ended EXCEPT ![mission[p].event] = truth]
    /\ UNCHANGED <<outboxVars, ticket, webhooks>>

ConcludeTicket(p) == SetTruth(p, "conclude", "report", mission[p].truth)

\* send_update: a report with a known key is dropped, a new one enqueued.
Report(p) ==
    LET e == mission[p].event
    IN /\ mission[p].pc = "report"
       /\ mission' = [mission EXCEPT ![p].pc = "idle"]
       /\ IF row[e].status = "NONE"
          THEN EnqueueSelect(p, e)
          ELSE Free(p) /\ UNCHANGED outboxVars
       /\ UNCHANGED <<ticket, webhooks, executed, ended>>

\* The rest of send_update: the INSERT and one attempt to deliver.
SendUpdate(p) == CallStep(p) /\ UNCHANGED admissionVars

\* A process dies with its threads, whatever they were doing.
Die(s) ==
    /\ \E p \in Proc : StoreOf[p] = s /\ (mission[p].pc # "idle" \/ call[p].pc # "idle")
    /\ mission' = [p \in Proc |-> IF StoreOf[p] = s
                                  THEN [mission[p] EXCEPT !.pc = "idle"] ELSE mission[p]]
    /\ call' = [p \in Proc |-> IF StoreOf[p] = s THEN [call[p] EXCEPT !.pc = "idle"] ELSE call[p]]
    /\ lock' = [lock EXCEPT ![s] = NoProc]
    /\ UNCHANGED <<row, posted, accepted, creators, ticket, webhooks, executed, ended>>

MissionStep(p) ==
    \/ Admit(p) \/ MarkRunning(p) \/ RunMission(p) \/ ConcludeTicket(p)
    \/ Report(p) \/ SendUpdate(p)

AdmissionNext ==
    \/ \E p \in Proc, e \in Key : Webhook(p, e)
    \/ \E p \in Proc : MissionStep(p)
    \/ \E s \in Store : Die(s)

AdmissionSpec == AdmissionInit /\ [][AdmissionNext]_allVars

\* A thread that can make its next step makes it; the runtime and the
\* transport return.
FairAdmissionSpec == AdmissionSpec /\ \A p \in Proc : WF_allVars(MissionStep(p))

(***************************************************************************)
(* Properties                                                              *)
(***************************************************************************)

AdmissionTypeOK ==
    /\ TypeOK
    /\ ticket \in [Key -> TicketTruth]
    /\ mission \in [Proc -> MissionState]
    /\ webhooks \in [Key -> Nat] /\ executed \in [Key -> Nat]
    /\ ended \in [Key -> TicketTruth]

\* However often an event is delivered, to whatever processes, and whenever
\* they crash, its mission is run at most once, and so is that of a ticket.
MissionRunsOnce ==
    \A e, f \in Key : executed[e] > 0 /\ TicketOf[e] = TicketOf[f] =>
        executed[e] = 1 /\ (e # f => executed[f] = 0)

\* A report reaches the outbox only when its mission was run to its end, once,
\* and then the ticket says what the report says: no crash, redelivery or other
\* process leaves a ticket behind its report, then or later.
ReportAfterTruth ==
    \A e \in Key : row[e].status # "NONE" =>
        executed[e] = 1 /\ ended[e] # "NONE" /\ ticket[e] = ended[e]

\* assign_mission returns or dies: no failed INSERT, lost process or slow
\* delivery leaves a thread waiting for the lock of its store for ever.
AssignReturns ==
    \A p \in Proc :
        (mission[p].pc # "idle" \/ call[p].pc # "idle") ~>
            (mission[p].pc = "idle" /\ call[p].pc = "idle")
=============================================================================
