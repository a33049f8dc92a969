------------------------ MODULE TicketAdmissionProofs ------------------------
(***************************************************************************)
(* Proofs about ReportOutbox, and about TicketAdmission which extends it,  *)
(* for any keys, events, ticket ids, threads, stores and processes.  First *)
(* what the outbox promises although deliverers in different processes do  *)
(* not exclude each other and overwrite each other's rows.  Then that,     *)
(* whatever is redelivered or crashes, the mission of a ticket is run once *)
(* and reported after its truth is on record; the outbox's own promises    *)
(* hold inside the bridge too.                                             *)
(***************************************************************************)
EXTENDS TicketAdmission, TLAPS

(***************************************************************************)
(* The outbox by itself                                                    *)
(***************************************************************************)

\* A positive outcome about to be written was accepted by the receiver.
OutcomeAccepted ==
    \A p \in Proc : LET k == call[p].key IN
        call[p].pc = "update" /\ call[p].ok /\ k \in HasUrl => accepted[k] > 0

\* Of the attempts a thread is about to write, all are transport calls that
\* were made, but for the one it is about to make.
AttemptsPosted ==
    \A p \in Proc : LET k == call[p].key IN
        k \in HasUrl => /\ call[p].pc = "post" => call[p].attempts <= posted[k] + 1
                        /\ call[p].pc = "update" => call[p].attempts <= posted[k]

\* A transport call is only made for a report with a URL.
PostHasUrl == \A p \in Proc : call[p].pc = "post" => call[p].key \in HasUrl

\* A key without a row has no creator yet.
NoRowNoCreator == \A k \in Key : row[k].status = "NONE" => creators[k] = 0

\* The inductive invariant of the outbox.
OutboxInv ==
    /\ OutcomeAccepted
    /\ AttemptsPosted
    /\ PostHasUrl
    /\ NoRowNoCreator
    /\ SentWasAccepted
    /\ GivenUpAfterMaxAttempts
    /\ OneCreator

LEMMA StatusAfterCases ==
    ASSUME NEW ok \in BOOLEAN, NEW attempts \in Nat
    PROVE  /\ StatusAfter(ok, attempts) \in DeliveryStatus \ {"NONE"}
           /\ StatusAfter(ok, attempts) = "SENT" => ok
           /\ StatusAfter(ok, attempts) = "DEAD_LETTER" => attempts >= MaxAttempts
           /\ StatusAfter(ok, attempts) = "FAILED_RETRYABLE" => attempts < MaxAttempts
BY OutboxAssumption DEF StatusAfter, DeliveryStatus

(***************************************************************************)
(* Type correctness                                                        *)
(***************************************************************************)

LEMMA OutboxTypeInit == Init => TypeOK
BY DEF Init, TypeOK, NoRow, IdleCall, CallState, DeliveryStatus

\* No step takes a variable out of its type.
LEMMA OutboxTypeStep == TypeOK /\ [Next]_outboxVars => TypeOK'
<1> SUFFICES ASSUME TypeOK, [Next]_outboxVars PROVE TypeOK'
  OBVIOUS
<1> USE DEF TypeOK, Take, Give
<1>1. ASSUME NEW p \in Proc, NEW k \in Key, EnqueueSelect(p, k) PROVE TypeOK'
  BY <1>1 DEF EnqueueSelect, IdleCall, CallState
<1>2. ASSUME NEW p \in Proc, NEW k \in Key, Deliver(p, k) PROVE TypeOK'
  BY <1>2 DEF Deliver, IdleCall, CallState
<1>3. ASSUME NEW p \in Proc, Insert(p) PROVE TypeOK'
  <2> DEFINE k == call[p].key
             new == row[k].status = "NONE"
             label == IF new /\ k \in HasUrl THEN "deliver" ELSE "idle"
  <2>1. call[p] \in CallState /\ k \in Key
    BY DEF CallState
  <2>2. row' \in [Key -> [status : DeliveryStatus, attempts : Nat]]
    BY <1>3, <2>1 DEF Insert, DeliveryStatus
  <2>3. creators' \in [Key -> Nat]
    BY <1>3, <2>1 DEF Insert
  <2>4. [call[p] EXCEPT !.pc = label] \in CallState
    BY <2>1 DEF CallState
  <2>5. call' = [call EXCEPT ![p] = [call[p] EXCEPT !.pc = label]]
    BY <1>3 DEF Insert
  <2>6. call' \in [Proc -> CallState]
    BY <2>4, <2>5
  <2>7. QED
    BY <1>3, <2>2, <2>3, <2>6, OutboxAssumption DEF Insert
<1>4. ASSUME NEW p \in Proc, DeliverSelect(p) PROVE TypeOK'
  <2>1. CASE row[call[p].key].status = "SENT"
    <3>1. call' = [call EXCEPT ![p].pc = "idle"]
      BY <1>4, <2>1 DEF DeliverSelect
    <3>2. UNCHANGED <<row, lock, posted, accepted, creators>>
      BY <1>4, <2>1 DEF DeliverSelect
    <3>3. QED
      BY <3>1, <3>2 DEF CallState
  <2>2. CASE row[call[p].key].status # "SENT"
    <3> DEFINE k == call[p].key
               c == [call[p] EXCEPT !.pc = IF k \in HasUrl THEN "post" ELSE "update",
                                    !.attempts = row[k].attempts + 1,
                                    !.ok = k \notin HasUrl]
    <3>1. call[p] \in CallState /\ row[k].attempts + 1 \in Nat /\ (k \notin HasUrl) \in BOOLEAN
      BY DEF CallState
    <3>2. c \in CallState
      BY <3>1 DEF CallState
    <3>3. call' = [call EXCEPT ![p] = c] /\ Take(p)
      BY <1>4, <2>2 DEF DeliverSelect
    <3>4. QED
      BY <1>4, <3>2, <3>3 DEF DeliverSelect
  <2>3. QED
    BY <2>1, <2>2
<1>5. ASSUME NEW p \in Proc, Post(p) PROVE TypeOK'
  <2>1. PICK received \in BOOLEAN, ok \in BOOLEAN :
          /\ accepted' = IF received THEN [accepted EXCEPT ![call[p].key] = @ + 1] ELSE accepted
          /\ call' = [call EXCEPT ![p].pc = "update", ![p].ok = ok]
    BY <1>5 DEF Post
  <2>2. call' \in [Proc -> CallState]
    <3>1. call' = [call EXCEPT ![p] = [call[p] EXCEPT !.pc = "update", !.ok = ok]]
      BY <2>1
    <3>2. call[p] \in CallState
      OBVIOUS
    <3>3. [call[p] EXCEPT !.pc = "update", !.ok = ok] \in CallState
      BY <3>2 DEF CallState
    <3>4. QED
      BY <3>1, <3>3
  <2>3. accepted' \in [Key -> Nat]
    BY <2>1 DEF CallState
  <2>4. QED
    BY <1>5, <2>2, <2>3 DEF Post, CallState
<1>6. ASSUME NEW p \in Proc, Update(p) PROVE TypeOK'
  <2>1. call[p].ok \in BOOLEAN /\ call[p].attempts \in Nat /\ call[p].key \in Key
    BY DEF CallState
  <2>2. StatusAfter(call[p].ok, call[p].attempts) \in DeliveryStatus
    BY <2>1, StatusAfterCases
  <2>3. QED
    BY <1>6, <2>1, <2>2 DEF Update, CallState
<1>7. ASSUME NEW s \in Store, Crash(s) PROVE TypeOK'
  BY <1>7 DEF Crash, CallState
<1>8. CASE UNCHANGED outboxVars
  BY <1>8 DEF outboxVars
<1>9. QED
  BY <1>1, <1>2, <1>3, <1>4, <1>5, <1>6, <1>7, <1>8 DEF Next, CallStep

\* Rows, locks and calls keep their types.
THEOREM OutboxTypeCorrect == Spec => []TypeOK
BY OutboxTypeInit, OutboxTypeStep, PTL DEF Spec

(***************************************************************************)
(* The invariant is inductive                                              *)
(***************************************************************************)

LEMMA OutboxInvInit == Init => OutboxInv
BY OutboxAssumption DEF Init, OutboxInv, OutcomeAccepted, AttemptsPosted, PostHasUrl, NoRowNoCreator,
       SentWasAccepted, GivenUpAfterMaxAttempts, OneCreator, NoRow, IdleCall

LEMMA OutboxInvStep == TypeOK /\ OutboxInv /\ [Next]_outboxVars => OutboxInv'
<1> SUFFICES ASSUME TypeOK, OutboxInv, [Next]_outboxVars PROVE OutboxInv'
  OBVIOUS
<1> USE DEF TypeOK, OutboxInv, OutcomeAccepted, AttemptsPosted, PostHasUrl, NoRowNoCreator,
            SentWasAccepted, GivenUpAfterMaxAttempts, OneCreator
<1>1. ASSUME NEW p \in Proc, NEW k \in Key, EnqueueSelect(p, k) PROVE OutboxInv'
  BY <1>1 DEF EnqueueSelect, IdleCall, CallState
<1>2. ASSUME NEW p \in Proc, NEW k \in Key, Deliver(p, k) PROVE OutboxInv'
  BY <1>2 DEF Deliver, IdleCall, CallState
<1>3. ASSUME NEW p \in Proc, Insert(p) PROVE OutboxInv'
  BY <1>3 DEF Insert, CallState
<1>4. ASSUME NEW p \in Proc, DeliverSelect(p) PROVE OutboxInv'
  <2>1. CASE row[call[p].key].status = "SENT"
    <3>1. call' = [call EXCEPT ![p].pc = "idle"]
      BY <1>4, <2>1 DEF DeliverSelect
    <3>2. UNCHANGED <<row, lock, posted, accepted, creators>>
      BY <1>4, <2>1 DEF DeliverSelect
    <3>3. QED
      BY <3>1, <3>2 DEF CallState
  <2>2. CASE row[call[p].key].status # "SENT"
    <3> DEFINE k == call[p].key
               c == [call[p] EXCEPT !.pc = IF k \in HasUrl THEN "post" ELSE "update",
                                    !.attempts = row[k].attempts + 1,
                                    !.ok = k \notin HasUrl]
    <3>1. /\ c.key = k /\ c.attempts = row[k].attempts + 1 /\ c.ok = (k \notin HasUrl)
          /\ c.pc = IF k \in HasUrl THEN "post" ELSE "update"
          /\ k \in Key
      BY DEF CallState
    <3>2. call' = [call EXCEPT ![p] = c]
      BY <1>4, <2>2 DEF DeliverSelect
    <3>3. UNCHANGED <<row, posted, accepted, creators>>
      BY <1>4 DEF DeliverSelect
    <3> HIDE DEF c
    <3>4. QED
      BY <3>1, <3>2, <3>3
  <2>3. QED
    BY <2>1, <2>2
<1>5. ASSUME NEW p \in Proc, Post(p) PROVE OutboxInv'
  <2> DEFINE k == call[p].key
  <2>1. PICK received \in BOOLEAN, ok \in BOOLEAN :
          /\ ok => received
          /\ accepted' = IF received THEN [accepted EXCEPT ![k] = @ + 1] ELSE accepted
          /\ call' = [call EXCEPT ![p].pc = "update", ![p].ok = ok]
    BY <1>5 DEF Post
  <2>2. /\ call[p].pc = "post" /\ posted' = [posted EXCEPT ![k] = @ + 1]
        /\ UNCHANGED <<row, lock, creators>>
    BY <1>5 DEF Post
  <2>3. k \in Key /\ call[p].attempts \in Nat
    BY DEF CallState
  <2>4. \A j \in Key : /\ accepted[j] \in Nat /\ accepted'[j] \in Nat
                       /\ posted[j] \in Nat /\ posted'[j] \in Nat
                       /\ accepted'[j] >= accepted[j] /\ posted'[j] >= posted[j]
    BY <2>1, <2>2, <2>3
  <2>5. (ok => accepted'[k] > 0) /\ call[p].attempts <= posted'[k]
    BY <2>1, <2>2, <2>3
  <2>6. ASSUME NEW q \in Proc, q # p PROVE call'[q] = call[q]
    BY <2>1, <2>6
  <2>7. call'[p].pc = "update" /\ call'[p].key = k /\ call'[p].ok = ok
        /\ call'[p].attempts = call[p].attempts
    BY <2>1 DEF CallState
  <2>8. \A q \in Proc : call[q].key \in Key /\ call[q].attempts \in Nat
    BY DEF CallState
  <2>9. OutcomeAccepted'
    BY <2>4, <2>5, <2>6, <2>7, <2>8
  <2>10. AttemptsPosted'
    BY <2>4, <2>5, <2>6, <2>7, <2>8
  <2>11. PostHasUrl'
    BY <2>6, <2>7
  <2>12. SentWasAccepted'
    BY <2>2, <2>4, OutboxAssumption
  <2>13. GivenUpAfterMaxAttempts'
    BY <2>2, <2>4, OutboxAssumption
  <2>14. NoRowNoCreator' /\ OneCreator'
    BY <2>2
  <2>15. QED
    BY <2>9, <2>10, <2>11, <2>12, <2>13, <2>14
<1>6. ASSUME NEW p \in Proc, Update(p) PROVE OutboxInv'
  <2>1. call[p].ok \in BOOLEAN /\ call[p].attempts \in Nat /\ call[p].key \in Key
    BY DEF CallState
  <2>2. /\ StatusAfter(call[p].ok, call[p].attempts) \in DeliveryStatus \ {"NONE"}
        /\ StatusAfter(call[p].ok, call[p].attempts) = "SENT" => call[p].ok
        /\ StatusAfter(call[p].ok, call[p].attempts) = "DEAD_LETTER" => call[p].attempts >= MaxAttempts
        /\ StatusAfter(call[p].ok, call[p].attempts) = "FAILED_RETRYABLE" => call[p].attempts < MaxAttempts
    BY <2>1, StatusAfterCases
  <2> DEFINE k == call[p].key
             status == StatusAfter(call[p].ok, call[p].attempts)
  <2>3. /\ call[p].pc = "update"
        /\ row' = [row EXCEPT ![k] = [status |-> status, attempts |-> call[p].attempts]]
        /\ call' = [call EXCEPT ![p].pc = "idle"]
        /\ UNCHANGED <<posted, accepted, creators>>
    BY <1>6 DEF Update
  <2> HIDE DEF status
  <2>4. OutcomeAccepted' /\ AttemptsPosted' /\ PostHasUrl'
    BY <2>3 DEF CallState
  <2>5. NoRowNoCreator' /\ OneCreator'
    BY <2>1, <2>2, <2>3 DEF status
  <2>6. SentWasAccepted'
    BY <2>1, <2>2, <2>3, OutboxAssumption DEF status
  <2>7. GivenUpAfterMaxAttempts'
    BY <2>1, <2>2, <2>3, OutboxAssumption DEF status
  <2>8. QED
    BY <2>4, <2>5, <2>6, <2>7
<1>7. ASSUME NEW s \in Store, Crash(s) PROVE OutboxInv'
  BY <1>7 DEF Crash, CallState
<1>8. CASE UNCHANGED outboxVars
  BY <1>8 DEF outboxVars
<1>9. QED
  BY <1>1, <1>2, <1>3, <1>4, <1>5, <1>6, <1>7, <1>8 DEF Next, CallStep

\* The inductive invariant, which holds in every reachable state.
THEOREM OutboxInvCorrect == Spec => []OutboxInv
BY OutboxTypeCorrect, OutboxInvInit, OutboxInvStep, PTL DEF Spec

\* A report is marked SENT only if the receiver has accepted it, however many
\* processes deliver it at once, crash, or write over each other's outcome.
THEOREM SentWasAcceptedHolds == Spec => []SentWasAccepted
<1>1. OutboxInv => SentWasAccepted
  BY DEF OutboxInv
<1>2. QED
  BY <1>1, OutboxInvCorrect, PTL

\* No report is given up before MaxAttempts transport calls were made for it.
THEOREM GivenUpAfterMaxAttemptsHolds == Spec => []GivenUpAfterMaxAttempts
<1>1. OutboxInv => GivenUpAfterMaxAttempts
  BY DEF OutboxInv
<1>2. QED
  BY <1>1, OutboxInvCorrect, PTL

\* Of the callers that race to enqueue a report at most one is told it is new.
THEOREM OneCreatorHolds == Spec => []OneCreator
<1>1. OutboxInv => OneCreator
  BY DEF OutboxInv
<1>2. QED
  BY <1>1, OutboxInvCorrect, PTL

(***************************************************************************)
(* The bridge: what its threads know                                       *)
(***************************************************************************)

\* The thread has admitted its event and will run, conclude or report it.
Owns(p) == mission[p].pc \in {"mark", "run", "conclude", "report"}

\* The mission of e was run to an end and its ticket says to which.
Concluded(e) == executed[e] = 1 /\ ended[e] # "NONE" /\ ticket[e] = ended[e]

\* Of the events with one ticket_id at most one has a row: it is the primary key.
OneRowPerTicket ==
    \A e, f \in Key : e # f /\ TicketOf[e] = TicketOf[f] =>
        ticket[e] = "NONE" \/ ticket[f] = "NONE"

\* Nobody but the thread whose INSERT succeeded handles the event.
OneOwner ==
    \A p, q \in Proc :
        Owns(p) /\ Owns(q) /\ mission[p].event = mission[q].event => p = q

\* How far the owner has come is how far the ticket has.
OwnerKnows ==
    \A p \in Proc : LET e == mission[p].event IN
        /\ mission[p].pc = "mark" => ticket[e] = "PLANNED" /\ executed[e] = 0
        /\ mission[p].pc = "run" => ticket[e] = "RUNNING" /\ executed[e] = 0
        /\ mission[p].pc = "conclude" =>
               /\ ticket[e] = "RUNNING" /\ executed[e] = 1
               /\ ended[e] # "NONE" /\ mission[p].truth = ended[e]
        /\ mission[p].pc = "report" => Concluded(e)

\* An event without a row was not run, no event is run twice.
RunOnRow == \A e \in Key : executed[e] <= 1 /\ (ticket[e] = "NONE" => executed[e] = 0)

\* A report in the outbox, or on its way there, is of a concluded mission.
ReportConcluded ==
    /\ \A p \in Proc : call[p].pc # "idle" => Concluded(call[p].key)
    /\ \A e \in Key : row[e].status # "NONE" => Concluded(e)

\* Of everybody who has seen an event, one owns its mission, runs it once and
\* reports it when it is over.
AdmissionInv ==
    /\ OneRowPerTicket
    /\ OneOwner
    /\ OwnerKnows
    /\ RunOnRow
    /\ ReportConcluded

(***************************************************************************)
(* Type correctness                                                        *)
(***************************************************************************)

LEMMA AdmissionTypeInit == AdmissionInit => AdmissionTypeOK
<1>1. ASSUME AdmissionInit PROVE TypeOK
  BY <1>1, OutboxTypeInit DEF AdmissionInit
<1>2. ASSUME AdmissionInit PROVE AdmissionTypeOK
  BY <1>1, <1>2 DEF AdmissionInit, AdmissionTypeOK, TicketTruth, MissionState, NoMission
<1>3. QED
  BY <1>2

\* Taking and giving back the lock of a store are typed.
LEMMA LockType ==
    ASSUME NEW p \in Proc, lock \in [Store -> Proc \cup {NoProc}],
           Take(p) \/ Give(p) \/ UNCHANGED lock
    PROVE  lock' \in [Store -> Proc \cup {NoProc}]
BY DEF Take, Give

\* A thread that moves to another label of assign_mission keeps its type.
LEMMA MissionMoveType ==
    ASSUME NEW p \in Proc, NEW pc \in {"idle", "admit", "mark", "run", "conclude", "report"},
           mission \in [Proc -> MissionState], mission' = [mission EXCEPT ![p].pc = pc]
    PROVE  mission' \in [Proc -> MissionState]
BY DEF MissionState

\* What a step of assign_mission may do to the variables of the outbox: a step
\* of the outbox itself, or a change of the lock and the loss of some calls.
OutboxKept ==
    /\ \A p \in Proc : call'[p] = call[p] \/ call'[p] = [call[p] EXCEPT !.pc = "idle"]
    /\ call' \in [Proc -> CallState]
    /\ lock' \in [Store -> Proc \cup {NoProc}]
    /\ UNCHANGED <<row, posted, accepted, creators>>

LEMMA OutboxPart ==
    ASSUME AdmissionTypeOK, [AdmissionNext]_allVars
    PROVE  [Next]_outboxVars \/ OutboxKept
<1> USE DEF AdmissionTypeOK, TypeOK, outboxVars, OutboxKept
<1>1. ASSUME NEW p \in Proc, NEW e \in Key, Webhook(p, e) PROVE OutboxKept
  BY <1>1, LockType DEF Webhook
<1>2. ASSUME NEW p \in Proc, Admit(p) PROVE OutboxKept
  BY <1>2, LockType DEF Admit
<1>3. ASSUME NEW p \in Proc, MarkRunning(p) \/ ConcludeTicket(p) \/ RunMission(p)
      PROVE  UNCHANGED outboxVars
  BY <1>3 DEF MarkRunning, ConcludeTicket, SetTruth, RunMission
<1>4. ASSUME NEW p \in Proc, Report(p) PROVE [Next]_outboxVars
  BY <1>4 DEF Report, MissionState, Next
<1>5. ASSUME NEW p \in Proc, SendUpdate(p) PROVE [Next]_outboxVars
  BY <1>5 DEF SendUpdate, Next
<1>6. ASSUME NEW s \in Store, Die(s) PROVE OutboxKept
  BY <1>6 DEF Die, CallState
<1>7. CASE UNCHANGED allVars
  BY <1>7 DEF allVars
<1>8. QED
  BY <1>1, <1>2, <1>3, <1>4, <1>5, <1>6, <1>7 DEF AdmissionNext, MissionStep

LEMMA AdmissionTypeStep == AdmissionTypeOK /\ [AdmissionNext]_allVars => AdmissionTypeOK'
<1> SUFFICES ASSUME AdmissionTypeOK, [AdmissionNext]_allVars PROVE AdmissionTypeOK'
  OBVIOUS
<1>1. TypeOK'
  <2>1. TypeOK
    BY DEF AdmissionTypeOK
  <2>2. CASE [Next]_outboxVars
    BY <2>1, <2>2, OutboxTypeStep
  <2>3. CASE OutboxKept
    BY <2>1, <2>3 DEF TypeOK, OutboxKept
  <2>4. QED
    BY <2>2, <2>3, OutboxPart
<1> DEFINE Rest == /\ ticket' \in [Key -> TicketTruth]
                   /\ mission' \in [Proc -> MissionState]
                   /\ webhooks' \in [Key -> Nat] /\ executed' \in [Key -> Nat]
                   /\ ended' \in [Key -> TicketTruth]
<1> USE DEF AdmissionTypeOK
<1>2. ASSUME NEW p \in Proc, NEW e \in Key, Webhook(p, e) PROVE Rest
  BY <1>2 DEF Webhook, NoMission, MissionState, TicketTruth
<1>3. ASSUME NEW p \in Proc, Admit(p) PROVE Rest
  BY <1>3 DEF Admit, MissionState, TicketTruth, ExecutionTruthStatus
<1>4. ASSUME NEW p \in Proc, MarkRunning(p) \/ ConcludeTicket(p) PROVE Rest
  <2>1. "RUNNING" \in TicketTruth /\ mission[p].truth \in TicketTruth
    BY DEF TicketTruth, ExecutionTruthStatus, MissionState
  <2>2. mission' \in [Proc -> MissionState]
    BY <1>4, MissionMoveType DEF MarkRunning, ConcludeTicket, SetTruth
  <2>3. QED
    BY <1>4, <2>1, <2>2 DEF MarkRunning, ConcludeTicket, SetTruth
<1>5. ASSUME NEW p \in Proc, RunMission(p) PROVE Rest
  <2>1. PICK truth \in ExecutionTruthStatus :
          /\ mission' = [mission EXCEPT ![p].pc = "conclude", ![p].truth = truth]
          /\ ended' = [ended EXCEPT ![mission[p].event] = truth]
    BY <1>5 DEF RunMission
  <2>2. [mission[p] EXCEPT !.pc = "conclude", !.truth = truth] \in MissionState
    BY DEF MissionState, TicketTruth
  <2>3. mission' = [mission EXCEPT ![p] = [mission[p] EXCEPT !.pc = "conclude", !.truth = truth]]
    BY <2>1
  <2>4. mission[p].event \in Key
    BY DEF MissionState
  <2>5. mission' \in [Proc -> MissionState]
    BY <2>2, <2>3
  <2>6. executed' \in [Key -> Nat]
    BY <1>5, <2>4 DEF RunMission
  <2>7. ticket' = ticket /\ webhooks' = webhooks
    BY <1>5 DEF RunMission
  <2>8. ended' \in [Key -> TicketTruth]
    BY <2>1, <2>4 DEF TicketTruth
  <2>9. QED
    BY <2>5, <2>6, <2>7, <2>8
<1>6. ASSUME NEW p \in Proc, Report(p) PROVE Rest
  BY <1>6 DEF Report, MissionState
<1>7. ASSUME NEW p \in Proc, SendUpdate(p) PROVE Rest
  BY <1>7 DEF SendUpdate, admissionVars
<1>8. ASSUME NEW s \in Store, Die(s) PROVE Rest
  BY <1>8 DEF Die, MissionState
<1>9. ASSUME UNCHANGED allVars PROVE Rest
  BY <1>9 DEF allVars
<1>10. Rest
  BY <1>2, <1>3, <1>4, <1>5, <1>6, <1>7, <1>8, <1>9 DEF AdmissionNext, MissionStep
<1>11. QED
  BY <1>1, <1>10

\* Tickets, missions and the outbox keep their types.
THEOREM AdmissionTypeCorrect == AdmissionSpec => []AdmissionTypeOK
BY AdmissionTypeInit, AdmissionTypeStep, PTL DEF AdmissionSpec

(***************************************************************************)
(* The outbox inside assign_mission                                        *)
(***************************************************************************)

LEMMA OutboxInvKept ==
    ASSUME AdmissionTypeOK, OutboxInv, [AdmissionNext]_allVars
    PROVE  OutboxInv'
<1>1. TypeOK
  BY DEF AdmissionTypeOK
<1>2. CASE [Next]_outboxVars
  BY <1>1, <1>2, OutboxInvStep
<1>3. CASE OutboxKept
  <2> USE DEF OutboxInv, OutboxKept, TypeOK, CallState
  <2>1. \A p \in Proc : /\ call'[p].key = call[p].key /\ call'[p].attempts = call[p].attempts
                        /\ call'[p].ok = call[p].ok
                        /\ call'[p].pc = call[p].pc \/ call'[p].pc = "idle"
    BY <1>1, <1>3
  <2>2. OutcomeAccepted' /\ AttemptsPosted' /\ PostHasUrl'
    BY <1>1, <1>3, <2>1 DEF OutcomeAccepted, AttemptsPosted, PostHasUrl
  <2>3. NoRowNoCreator' /\ SentWasAccepted' /\ GivenUpAfterMaxAttempts' /\ OneCreator'
    BY <1>1, <1>3 DEF NoRowNoCreator, SentWasAccepted, GivenUpAfterMaxAttempts, OneCreator
  <2>4. QED
    BY <2>2, <2>3
<1>4. QED
  BY <1>2, <1>3, OutboxPart

\* The promises of the outbox hold when assign_mission shares its lock and
\* its process, and dies with it: sent reports were accepted, given up ones
\* were tried, and one caller created each.
THEOREM AdmissionKeepsOutbox == AdmissionSpec => []OutboxInv
<1>1. AdmissionInit => OutboxInv
  BY OutboxInvInit DEF AdmissionInit
<1>2. AdmissionTypeOK /\ OutboxInv /\ [AdmissionNext]_allVars => OutboxInv'
  BY OutboxInvKept
<1>3. QED
  BY <1>1, <1>2, AdmissionTypeCorrect, PTL DEF AdmissionSpec

(***************************************************************************)
(* The invariant is inductive                                              *)
(***************************************************************************)

LEMMA AdmissionInvInit == AdmissionInit => AdmissionInv
BY DEF AdmissionInit, Init, AdmissionInv, OneRowPerTicket, OneOwner, OwnerKnows, RunOnRow,
       ReportConcluded, Owns, NoMission, NoRow, IdleCall

\* A step that leaves tickets and missions alone, and only sends or forgets
\* reports of concluded ones, keeps the invariant.
LEMMA OutboxStepKeeps ==
    ASSUME AdmissionTypeOK, AdmissionInv, NEW p \in Proc, UNCHANGED admissionVars, CallStep(p)
    PROVE  AdmissionInv'
<1> USE DEF AdmissionTypeOK, TypeOK, admissionVars
<1>1. OneRowPerTicket' /\ OneOwner' /\ OwnerKnows' /\ RunOnRow'
  BY DEF AdmissionInv, OneRowPerTicket, OneOwner, OwnerKnows, RunOnRow, Owns, Concluded
<1>2. \A e \in Key : Concluded(e) => Concluded(e)'
  BY DEF Concluded
<1>3. /\ call[p].pc # "idle" /\ call[p].key \in Key
      /\ \A q \in Proc : call'[q].key = call[q].key /\ (call'[q].pc # "idle" => call[q].pc # "idle")
      /\ \A e \in Key : row'[e].status # "NONE" => row[e].status # "NONE" \/ e = call[p].key
  <2>1. CASE Insert(p)
    BY <2>1 DEF Insert, CallState
  <2>2. CASE DeliverSelect(p)
    <3> DEFINE k == call[p].key
    <3>1. CASE row[k].status = "SENT"
      <4>1. call[p].pc = "deliver" /\ call' = [call EXCEPT ![p].pc = "idle"] /\ row' = row
        BY <2>2, <3>1 DEF DeliverSelect
      <4>2. QED
        BY <4>1 DEF CallState
    <3>2. CASE row[k].status # "SENT"
      <4>1. call' = [call EXCEPT ![p].pc = IF k \in HasUrl THEN "post" ELSE "update",
                                 ![p].attempts = row[k].attempts + 1,
                                 ![p].ok = k \notin HasUrl]
        BY <2>2, <3>2 DEF DeliverSelect
      <4>2. call' = [call EXCEPT ![p] = [call[p] EXCEPT
                                  !.pc = IF k \in HasUrl THEN "post" ELSE "update",
                                  !.attempts = row[k].attempts + 1, !.ok = k \notin HasUrl]]
        BY <4>1
      <4>3. call'[p].key = k /\ \A q \in Proc : q # p => call'[q] = call[q]
        BY <4>2 DEF CallState
      <4>4. QED
        BY <2>2, <4>3 DEF DeliverSelect, CallState
    <3>3. QED
      BY <3>1, <3>2
  <2>3. CASE Post(p)
    BY <2>3 DEF Post, CallState
  <2>4. CASE Update(p)
    BY <2>4 DEF Update, CallState
  <2>5. QED
    BY <2>1, <2>2, <2>3, <2>4 DEF CallStep
<1>4. ReportConcluded'
  BY <1>2, <1>3 DEF AdmissionInv, ReportConcluded, CallState
<1>5. QED
  BY <1>1, <1>4 DEF AdmissionInv

LEMMA AdmissionInvStep ==
    AdmissionTypeOK /\ AdmissionInv /\ [AdmissionNext]_allVars => AdmissionInv'
<1> SUFFICES ASSUME AdmissionTypeOK, AdmissionInv, [AdmissionNext]_allVars PROVE AdmissionInv'
  OBVIOUS
<1> USE DEF AdmissionTypeOK, TypeOK, outboxVars, AdmissionInv
<1>1. ASSUME NEW p \in Proc, NEW e \in Key, Webhook(p, e) PROVE AdmissionInv'
  <2>1. UNCHANGED <<ticket, executed, ended, row, call>>
    BY <1>1 DEF Webhook
  <2>2. \A q \in Proc : mission'[q] = mission[q] \/ mission'[q].pc = "admit"
    BY <1>1 DEF Webhook, NoMission
  <2>3. OneRowPerTicket' /\ RunOnRow' /\ ReportConcluded'
    BY <2>1 DEF OneRowPerTicket, RunOnRow, ReportConcluded, Concluded
  <2>4. \A q \in Proc : Owns(q)' => mission'[q] = mission[q]
    BY <2>2 DEF Owns
  <2>6. OneOwner'
    BY <2>4 DEF OneOwner, Owns
  <2>7. OwnerKnows'
    BY <2>1, <2>2 DEF OwnerKnows, Concluded
  <2>5. QED
    BY <2>3, <2>6, <2>7
<1>2. ASSUME NEW p \in Proc, Admit(p) PROVE AdmissionInv'
  <2> DEFINE e == mission[p].event
  <2>1. e \in Key /\ \A q \in Proc : mission[q].event \in Key /\ mission'[q].event = mission[q].event
    BY <1>2 DEF Admit, MissionState
  <2>2. \A q \in Proc : q # p => mission'[q] = mission[q]
    BY <1>2 DEF Admit
  <2>3. CASE Taken(e)
    <3>1. mission'[p].pc = "idle" /\ UNCHANGED <<ticket, executed, ended, row, call>>
      BY <1>2, <2>3 DEF Admit
    <3>2. OneRowPerTicket' /\ RunOnRow' /\ ReportConcluded'
      BY <3>1 DEF OneRowPerTicket, RunOnRow, ReportConcluded, Concluded
    <3>3. \A q \in Proc : mission'[q] = mission[q] \/ mission'[q].pc = "idle"
      BY <2>2, <3>1
    <3>4. \A q \in Proc : Owns(q)' => mission'[q] = mission[q]
      BY <3>3 DEF Owns
    <3>5. OneOwner'
      BY <3>4 DEF OneOwner, Owns
    <3>6. OwnerKnows'
      BY <3>1, <3>3 DEF OwnerKnows, Concluded
    <3>7. QED
      BY <3>2, <3>5, <3>6
  <2>4. CASE ~Taken(e)
    <3>1. mission'[p].pc = "mark" /\ ticket' = [ticket EXCEPT ![e] = "PLANNED"]
          /\ UNCHANGED <<executed, ended, row, call>>
      BY <1>2, <2>4 DEF Admit, MissionState
    <3>2. \A f \in Key : TicketOf[f] = TicketOf[e] => ticket[f] = "NONE"
      BY <2>4 DEF Taken
    <3>3. ticket[e] = "NONE" /\ executed[e] = 0
      BY <2>1, <3>2 DEF RunOnRow
    <3>4. \A q \in Proc : Owns(q) => mission[q].event # e
      BY <2>1, <3>3 DEF OwnerKnows, Owns, Concluded
    <3>5. OneRowPerTicket'
      BY <2>1, <3>1, <3>2 DEF OneRowPerTicket
    <3>6. OneOwner'
      BY <2>1, <2>2, <3>4 DEF OneOwner, Owns
    <3>7. OwnerKnows'
      BY <2>1, <2>2, <3>1, <3>3, <3>4 DEF OwnerKnows, Owns, Concluded
    <3>8. RunOnRow'
      BY <2>1, <3>1 DEF RunOnRow
    <3>9. ReportConcluded'
      BY <3>1, <3>3 DEF ReportConcluded, Concluded, CallState
    <3>10. QED
      BY <3>5, <3>6, <3>7, <3>8, <3>9
  <2>5. QED
    BY <2>3, <2>4
<1>3. ASSUME NEW p \in Proc, MarkRunning(p) \/ ConcludeTicket(p) PROVE AdmissionInv'
  <2> DEFINE e == mission[p].event
  <2>1. e \in Key /\ \A q \in Proc : /\ mission[q].event \in Key
                                     /\ mission'[q].event = mission[q].event
                                     /\ mission'[q].truth = mission[q].truth
    <3>1. PICK pc : mission' = [mission EXCEPT ![p].pc = pc]
      BY <1>3 DEF MarkRunning, ConcludeTicket, SetTruth
    <3>2. QED
      BY <3>1 DEF MissionState
  <2>2. \A q \in Proc : q # p => mission'[q] = mission[q]
    BY <1>3 DEF MarkRunning, ConcludeTicket, SetTruth
  <2>3. Owns(p) /\ UNCHANGED <<executed, ended, row, call>>
    BY <1>3 DEF MarkRunning, ConcludeTicket, SetTruth, Owns
  <2>4. PICK truth : ticket' = [ticket EXCEPT ![e] = truth]
    BY <1>3 DEF MarkRunning, ConcludeTicket, SetTruth
  <2>5. \/ mission[p].pc = "mark" /\ mission'[p].pc = "run" /\ truth = "RUNNING"
           /\ ticket[e] = "PLANNED" /\ executed[e] = 0
        \/ mission[p].pc = "conclude" /\ mission'[p].pc = "report" /\ truth = ended[e]
           /\ ended[e] # "NONE" /\ ticket[e] = "RUNNING" /\ executed[e] = 1
    <3>0. ticket'[e] = truth
      BY <2>1, <2>4
    <3>1. CASE MarkRunning(p)
      <4>1. /\ mission[p].pc = "mark" /\ ticket' = [ticket EXCEPT ![e] = "RUNNING"]
            /\ mission' = [mission EXCEPT ![p].pc = "run"]
        BY <3>1 DEF MarkRunning, SetTruth
      <4>2. ticket'[e] = "RUNNING" /\ mission'[p].pc = "run"
        BY <2>1, <4>1
      <4>3. QED
        BY <3>0, <4>1, <4>2 DEF OwnerKnows
    <3>2. CASE ConcludeTicket(p)
      <4>1. /\ mission[p].pc = "conclude" /\ ticket' = [ticket EXCEPT ![e] = mission[p].truth]
            /\ mission' = [mission EXCEPT ![p].pc = "report"]
        BY <3>2 DEF ConcludeTicket, SetTruth
      <4>2. ticket'[e] = mission[p].truth /\ mission'[p].pc = "report"
        BY <2>1, <4>1
      <4>3. QED
        BY <3>0, <4>1, <4>2 DEF OwnerKnows
    <3>3. QED
      BY <1>3, <3>1, <3>2
  <2>6. ticket'[e] = truth /\ \A f \in Key : f # e => ticket'[f] = ticket[f]
    BY <2>1, <2>4
  <2>7. \A q \in Proc : q # p /\ Owns(q) => mission[q].event # e
    BY <2>3 DEF OneOwner
  <2>8. OneRowPerTicket'
    BY <2>5, <2>6 DEF OneRowPerTicket
  <2>9. OneOwner'
    BY <2>1, <2>2, <2>3, <2>7 DEF OneOwner, Owns
  <2>10. OwnerKnows'
    BY <2>1, <2>2, <2>3, <2>5, <2>6, <2>7 DEF OwnerKnows, Owns, Concluded
  <2>11. RunOnRow'
    BY <2>1, <2>3, <2>5, <2>6 DEF RunOnRow
  <2>12. \A f \in Key : Concluded(f) => Concluded(f)'
    BY <2>3, <2>5, <2>6 DEF Concluded
  <2>13. ReportConcluded'
    BY <2>3, <2>12 DEF ReportConcluded, CallState
  <2>14. QED
    BY <2>8, <2>9, <2>10, <2>11, <2>13
<1>4. ASSUME NEW p \in Proc, RunMission(p) PROVE AdmissionInv'
  <2> DEFINE e == mission[p].event
  <2>1. PICK truth \in ExecutionTruthStatus :
          /\ mission' = [mission EXCEPT ![p].pc = "conclude", ![p].truth = truth]
          /\ ended' = [ended EXCEPT ![mission[p].event] = truth]
    BY <1>4 DEF RunMission
  <2>2. /\ mission'[p].pc = "conclude" /\ mission'[p].truth = truth
        /\ \A q \in Proc : /\ mission[q].event \in Key /\ mission'[q].event = mission[q].event
                           /\ q # p => mission'[q] = mission[q]
    BY <2>1 DEF MissionState
  <2>3. /\ mission[p].pc = "run" /\ Owns(p) /\ executed' = [executed EXCEPT ![e] = @ + 1]
        /\ UNCHANGED <<ticket, row, call>>
    BY <1>4 DEF RunMission, Owns
  <2>4. e \in Key /\ ticket[e] = "RUNNING" /\ executed[e] = 0
    BY <2>2, <2>3 DEF OwnerKnows
  <2>5. /\ executed'[e] = 1 /\ ended'[e] = truth /\ truth # "NONE"
        /\ \A f \in Key : f # e => executed'[f] = executed[f] /\ ended'[f] = ended[f]
    BY <2>1, <2>3, <2>4 DEF ExecutionTruthStatus
  <2>6. \A q \in Proc : q # p /\ Owns(q) => mission[q].event # e
    BY <2>3 DEF OneOwner
  <2>7. OneRowPerTicket'
    BY <2>3 DEF OneRowPerTicket
  <2>8. OneOwner'
    BY <2>2, <2>3, <2>6 DEF OneOwner, Owns
  <2>9. \A f \in Key : Concluded(f) => Concluded(f)'
    BY <2>3, <2>4, <2>5 DEF Concluded
  <2>10. OwnerKnows'
    BY <2>2, <2>3, <2>4, <2>5, <2>6 DEF OwnerKnows, Owns, Concluded
  <2>11. RunOnRow'
    BY <2>3, <2>4, <2>5 DEF RunOnRow
  <2>12. ReportConcluded'
    BY <2>3, <2>9 DEF ReportConcluded, CallState
  <2>13. QED
    BY <2>7, <2>8, <2>10, <2>11, <2>12
<1>5. ASSUME NEW p \in Proc, Report(p) PROVE AdmissionInv'
  <2> DEFINE e == mission[p].event
  <2>1. /\ mission[p].pc = "report" /\ mission' = [mission EXCEPT ![p].pc = "idle"]
        /\ UNCHANGED <<ticket, executed, ended, row>> /\ e \in Key
    BY <1>5 DEF Report, EnqueueSelect, MissionState
  <2>2. Concluded(e)
    BY <2>1 DEF OwnerKnows
  <2>3. call' = call \/ call' = [call EXCEPT ![p] = [IdleCall(e) EXCEPT !.pc = "insert"]]
    BY <1>5 DEF Report, EnqueueSelect
  <2>4. OneRowPerTicket' /\ OneOwner' /\ OwnerKnows' /\ RunOnRow'
    BY <2>1 DEF MissionState, OneRowPerTicket, OneOwner, OwnerKnows, RunOnRow, Owns, Concluded
  <2>5. \A f \in Key : Concluded(f) => Concluded(f)'
    BY <2>1 DEF Concluded
  <2>6. ReportConcluded'
    <3>1. \A q \in Proc : call'[q] = call[q] \/ call'[q].key = e
      BY <2>3 DEF IdleCall
    <3>2. QED
      BY <2>1, <2>2, <2>5, <3>1 DEF ReportConcluded, CallState
  <2>7. QED
    BY <2>4, <2>6
<1>6. ASSUME NEW p \in Proc, SendUpdate(p) PROVE AdmissionInv'
  BY <1>6, OutboxStepKeeps DEF SendUpdate
<1>7. ASSUME NEW s \in Store, Die(s) PROVE AdmissionInv'
  BY <1>7 DEF Die, MissionState, CallState, OneRowPerTicket, OneOwner, OwnerKnows, RunOnRow,
              ReportConcluded, Owns, Concluded
<1>8. CASE UNCHANGED allVars
  BY <1>8 DEF allVars, OneRowPerTicket, OneOwner, OwnerKnows, RunOnRow, ReportConcluded, Owns,
              Concluded
<1>9. QED
  BY <1>1, <1>2, <1>3, <1>4, <1>5, <1>6, <1>7, <1>8 DEF AdmissionNext, MissionStep

\* The inductive invariant, which holds in every reachable state.
THEOREM AdmissionInvCorrect == AdmissionSpec => []AdmissionInv
BY AdmissionTypeCorrect, AdmissionInvInit, AdmissionInvStep, PTL DEF AdmissionSpec

\* However often events are redelivered, to whatever processes, and whenever
\* they crash: the mission of an event, and of a ticket, is run at most once.
THEOREM MissionRunsOnceHolds == AdmissionSpec => []MissionRunsOnce
<1>1. AdmissionTypeOK /\ AdmissionInv => MissionRunsOnce
  BY DEF AdmissionTypeOK, AdmissionInv, RunOnRow, OneRowPerTicket, MissionRunsOnce
<1>2. QED
  BY <1>1, AdmissionTypeCorrect, AdmissionInvCorrect, PTL

\* A report is in the outbox only after its mission was run and the ticket
\* has the truth it ended with.
THEOREM ReportAfterTruthHolds == AdmissionSpec => []ReportAfterTruth
<1>1. AdmissionInv => ReportAfterTruth
  BY DEF AdmissionInv, ReportConcluded, Concluded, ReportAfterTruth
<1>2. QED
  BY <1>1, AdmissionInvCorrect, PTL
==============================================================================
