---------------------------- MODULE ReportOutbox ----------------------------
(***************************************************************************)
(* The report_outbox table of goal_engine/store.py: enqueue_outbox and     *)
(* process_outbox_delivery, called by threads of one or more processes.    *)
(*                                                                         *)
(* Both methods hold the lock of their store object throughout, the HTTP   *)
(* call included; each SQL statement is a transaction of its own.  A store *)
(* object on the same database in another process has another lock.  Rows  *)
(* are known by their idempotency key, which is UNIQUE.                    *)
(***************************************************************************)
EXTENDS Naturals

CONSTANTS
    Key,            \* idempotency keys
    HasUrl,         \* the keys whose report has a callback_url
    MaxAttempts,    \* OutboxEntry.max_attempts
    Proc,           \* threads
    Store,          \* store objects, one per process
    StoreOf,        \* thread -> the store it uses
    NoProc,         \* nobody holds the lock
    MaxPosts        \* bound: transport calls per report

ASSUME OutboxAssumption ==
    /\ HasUrl \subseteq Key
    /\ MaxAttempts \in Nat \ {0}
    /\ StoreOf \in [Proc -> Store]
    /\ NoProc \notin Proc
    /\ MaxPosts \in Nat

VARIABLES
    row,            \* key -> its row; status NONE when there is no row
    lock,           \* store -> the thread inside it
    call,           \* thread -> its call
    posted,         \* history: key -> transport calls made
    accepted,       \* history: key -> transport calls the receiver accepted
    creators        \* history: key -> callers told deduplicated = False

outboxVars == <<row, lock, call, posted, accepted, creators>>

DeliveryStatus == {"NONE", "PENDING", "SENT", "FAILED_RETRYABLE", "DEAD_LETTER"}

CallState == [pc : {"idle", "insert", "deliver", "post", "update"}, key : Key,
              attempts : Nat, ok : BOOLEAN]

NoRow == [status |-> "NONE", attempts |-> 0]

\* A thread between calls; the key is that of its last call and is not used.
IdleCall(k) == [pc |-> "idle", key |-> k, attempts |-> 0, ok |-> FALSE]

Init ==
    /\ row = [k \in Key |-> NoRow]
    /\ lock = [s \in Store |-> NoProc]
    /\ \E k \in Key : call = [p \in Proc |-> IdleCall(k)]
    /\ posted = [k \in Key |-> 0]
    /\ accepted = [k \in Key |-> 0]
    /\ creators = [k \in Key |-> 0]

Free(p) == lock[StoreOf[p]] = NoProc
Take(p) == lock' = [lock EXCEPT ![StoreOf[p]] = p]
Give(p) == lock' = [lock EXCEPT ![StoreOf[p]] = NoProc]

\* enqueue_outbox looks for the key; a known one is returned as deduplicated.
EnqueueSelect(p, k) ==
    /\ call[p].pc = "idle"
    /\ Free(p)
    /\ row[k].status = "NONE"
    /\ Take(p)
    /\ call' = [call EXCEPT ![p] = [IdleCall(k) EXCEPT !.pc = "insert"]]
    /\ UNCHANGED <<row, posted, accepted, creators>>

\* Mutant of Insert: without the UNIQUE constraint a racing row is replaced.
InsertAlways(p) ==
    LET k == call[p].key
    IN /\ call[p].pc = "insert"
       /\ row' = [row EXCEPT ![k] = [status |-> "PENDING", attempts |-> 0]]
       /\ creators' = [creators EXCEPT ![k] = @ + 1]
       /\ call' = [call EXCEPT ![p].pc = IF k \in HasUrl THEN "deliver" ELSE "idle"]
       /\ Give(p)
       /\ UNCHANGED <<posted, accepted>>

\* The INSERT, or the IntegrityError when another process has inserted the
\* key since.  send_update then delivers a new report that has a URL.
Insert(p) ==
    LET k == call[p].key
        new == row[k].status = "NONE"
    IN /\ call[p].pc = "insert"
       /\ row' = IF new THEN [row EXCEPT ![k] = [status |-> "PENDING", attempts |-> 0]] ELSE row
       /\ creators' = IF new THEN [creators EXCEPT ![k] = @ + 1] ELSE creators
       /\ call' = [call EXCEPT ![p].pc = IF new /\ k \in HasUrl THEN "deliver" ELSE "idle"]
       /\ Give(p)
       /\ UNCHANGED <<posted, accepted>>

\* Any caller may ask for the delivery of a row it knows.
Deliver(p, k) ==
    /\ call[p].pc = "idle"
    /\ row[k].status # "NONE"
    /\ call' = [call EXCEPT ![p] = [IdleCall(k) EXCEPT !.pc = "deliver"]]
    /\ UNCHANGED <<row, lock, posted, accepted, creators>>

\* process_outbox_delivery reads the row: a SENT one is returned as it is,
\* one without a URL counts as delivered.
DeliverSelect(p) ==
    LET k == call[p].key
    IN /\ call[p].pc = "deliver"
       /\ Free(p)
       /\ IF row[k].status = "SENT"
          THEN /\ call' = [call EXCEPT ![p].pc = "idle"]
               /\ UNCHANGED lock
          ELSE /\ call' = [call EXCEPT ![p].pc = IF k \in HasUrl THEN "post" ELSE "update",
                                       ![p].attempts = row[k].attempts + 1,
                                       ![p].ok = k \notin HasUrl]
               /\ Take(p)
       /\ UNCHANGED <<row, posted, accepted, creators>>

\* The transport call.  A failure may be an answer other than 2xx, or an
\* exception raised although the receiver did accept the report.
Post(p) ==
    LET k == call[p].key
    IN /\ call[p].pc = "post"
       /\ posted[k] < MaxPosts
       /\ posted' = [posted EXCEPT ![k] = @ + 1]
       /\ \E received, ok \in BOOLEAN :
            /\ ok => received
            /\ accepted' = IF received THEN [accepted EXCEPT ![k] = @ + 1] ELSE accepted
            /\ call' = [call EXCEPT ![p].pc = "update", ![p].ok = ok]
       /\ UNCHANGED <<row, lock, creators>>

\* Mutant of StatusAfter: one attempt short of the limit gives up.
StatusAfterEarly(ok, attempts) ==
    IF ok THEN "SENT"
    ELSE IF attempts + 1 >= MaxAttempts THEN "DEAD_LETTER" ELSE "FAILED_RETRYABLE"

\* Mutant of StatusAfter: what cannot be retried counts as sent.
StatusAfterLax(ok, attempts) ==
    IF ok \/ attempts >= MaxAttempts THEN "SENT" ELSE "FAILED_RETRYABLE"

\* Mutant of StatusAfter: the status of a task is written.
StatusAfterTask(ok, attempts) ==
    IF ok THEN "SENT"
    ELSE IF attempts >= MaxAttempts THEN "DEAD_LETTER" ELSE "FAILED"

StatusAfter(ok, attempts) ==
    IF ok THEN "SENT"
    ELSE IF attempts >= MaxAttempts THEN "DEAD_LETTER" ELSE "FAILED_RETRYABLE"

\* The UPDATE writes the outcome whatever the row has become.
Update(p) ==
    LET k == call[p].key
        c == call[p]
    IN /\ c.pc = "update"
       /\ row' = [row EXCEPT ![k] = [status |-> StatusAfter(c.ok, c.attempts),
                                     attempts |-> c.attempts]]
       /\ call' = [call EXCEPT ![p].pc = "idle"]
       /\ Give(p)
       /\ UNCHANGED <<posted, accepted, creators>>

\* A process dies with all its threads; its next life has a fresh lock.
Crash(s) ==
    /\ \E p \in Proc : StoreOf[p] = s /\ call[p].pc # "idle"
    /\ call' = [p \in Proc |-> IF StoreOf[p] = s THEN [call[p] EXCEPT !.pc = "idle"] ELSE call[p]]
    /\ lock' = [lock EXCEPT ![s] = NoProc]
    /\ UNCHANGED <<row, posted, accepted, creators>>

CallStep(p) == Insert(p) \/ DeliverSelect(p) \/ Post(p) \/ Update(p)

Next ==
    \/ \E p \in Proc, k \in Key : EnqueueSelect(p, k) \/ Deliver(p, k)
    \/ \E p \in Proc : CallStep(p)
    \/ \E s \in Store : Crash(s)

Spec == Init /\ [][Next]_outboxVars

(***************************************************************************)
(* Properties                                                              *)
(***************************************************************************)

TypeOK ==
    /\ row \in [Key -> [status : DeliveryStatus, attempts : Nat]]
    /\ lock \in [Store -> Proc \cup {NoProc}]
    /\ call \in [Proc -> CallState]
    /\ posted \in [Key -> Nat] /\ accepted \in [Key -> Nat] /\ creators \in [Key -> Nat]

\* A report with a callback URL is SENT only if the receiver has accepted it:
\* no crash or race of deliverers marks an undelivered report as sent.
SentWasAccepted ==
    \A k \in HasUrl : row[k].status = "SENT" => accepted[k] > 0

\* The attempts on a row never exceed the transport calls that were made, and
\* a report is only given up, in whatever process, after MaxAttempts of them.
GivenUpAfterMaxAttempts ==
    \A k \in HasUrl :
        /\ row[k].attempts <= posted[k]
        /\ row[k].status = "DEAD_LETTER" => posted[k] >= MaxAttempts
        /\ row[k].status = "FAILED_RETRYABLE" => row[k].attempts < MaxAttempts

\* Of all the callers that race to enqueue a report, in any process, at most
\* one is told that it is new, so at most one send_update delivers it.
OneCreator == \A k \in Key : creators[k] <= 1
=============================================================================
