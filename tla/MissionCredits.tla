--------------------------- MODULE MissionCredits ---------------------------
(***************************************************************************)
(* Prepaid missions: src/raas/credits.py, mission_store.py, the two ways   *)
(* to buy a mission (MissionLifecycle with its background task, and        *)
(* MissionService with its cancellation), and the callers that move        *)
(* credits under an idempotency key (license activation, /mcu/deduct).     *)
(*                                                                         *)
(* One tenant.  Every mission has a thread that submits and executes it;   *)
(* other requests are made by callers.  All share one SQLite file, in      *)
(* which there is one writer at a time; a call of a store may raise        *)
(* RuntimeError, and a thread may die, between any two transactions.       *)
(***************************************************************************)
EXTENDS Naturals, FiniteSets

CONSTANTS
    Api,        \* missions submitted through MissionLifecycle
    Served,     \* missions created through MissionService
    Caller,     \* other requests in progress
    GrantKey,   \* idempotency keys that credit: license keys
    ChargeKey,  \* idempotency keys that debit: /mcu/deduct
    Price,      \* mission or key -> credits
    Opening,    \* the balance at the beginning
    Nobody,     \* no writer, no subject of a request
    MaxCalls,   \* bound: requests of callers
    MaxFaults   \* bound: calls of a store that raise

Mission == Api \cup Served
Key == GrantKey \cup ChargeKey
Thread == Mission \cup Caller

ASSUME ThreadAssumption ==
    /\ Nobody \notin Thread \cup Key
    /\ Mission \cap Key = {}
    /\ Mission \cap Caller = {}
    /\ Api \cap Served = {}
    /\ IsFiniteSet(Caller)

ASSUME PriceAssumption ==
    /\ Price \in [Mission \cup Key -> Nat \ {0}]
    /\ Opening \in Nat
    /\ MaxCalls \in Nat
    /\ MaxFaults \in Nat

VARIABLES
    balance, earned, spent,     \* the credit_accounts row
    keys,       \* idempotency keys in credit_transactions
    writer,     \* who is in an exclusive transaction
    missions,   \* mission -> status in the missions table
    pc,         \* thread -> its next call
    seen,       \* thread -> balance it read in its transaction
    about,      \* caller -> the mission or key of its request
    caught,     \* missions whose background task is in its except clause
    calls,      \* requests callers have made
    faults,     \* store calls that have raised
    debits,     \* history: mission -> times it was paid for
    refunds,    \* history: mission -> times it was paid back
    recalls,    \* history: mission -> cancellations that marked it
    hurt        \* history: missions one of whose calls raised, or that died

account == <<balance, earned, spent, keys>>
errors == <<caught, faults, hurt>>
requests == <<about, calls>>
paid == <<debits, refunds, recalls>>
vars == <<account, writer, missions, pc, seen, errors, requests, paid>>

Status == {"absent", "queued", "running", "completed", "failed", "cancelled"}

PC == {"new", "begin", "commit", "create", "emit", "start", "save", "started", "execute",
       "complete", "fail", "refund", "reload", "dispatch", "unmade", "refused", "ended", "dead",
       "idle", "mark", "credit"}

Init ==
    /\ balance = Opening /\ earned = Opening /\ spent = 0
    /\ keys = {}
    /\ writer = Nobody
    /\ missions = [m \in Mission |-> "absent"]
    /\ pc = [t \in Thread |-> IF t \in Mission THEN "new" ELSE "idle"]
    /\ seen = [t \in Thread |-> 0]
    /\ about = [c \in Caller |-> Nobody]
    /\ caught = {}
    /\ calls = 0
    /\ faults = 0
    /\ debits = [m \in Mission |-> 0]
    /\ refunds = [m \in Mission |-> 0]
    /\ recalls = [m \in Mission |-> 0]
    /\ hurt = {}

Unlocked == writer = Nobody

Goto(t, label) == pc' = [pc EXCEPT ![t] = label]

(***************************************************************************)
(* The transactions of CreditStore                                         *)
(***************************************************************************)

\* Mutant of BeginExclusive: the transaction does not lock.
BeginDeferred(t) ==
    /\ Unlocked
    /\ UNCHANGED writer
    /\ seen' = [seen EXCEPT ![t] = balance]

\* BEGIN EXCLUSIVE, and the SELECT of the balance.
BeginExclusive(t) ==
    /\ Unlocked
    /\ writer' = t
    /\ seen' = [seen EXCEPT ![t] = balance]

\* COMMIT or ROLLBACK.
EndTransaction(t) == writer' = Nobody /\ seen' = [seen EXCEPT ![t] = 0]

\* Mutant of Covered: only callers look at the balance, before the transaction.
CoveredBefore(t, n) == seen[t] >= 0

\* Inside the transaction, deduct refuses what the balance does not cover.
Covered(t, n) == seen[t] >= n

\* The UPDATE of deduct: from the balance that was read.
Deduct(t, n) ==
    /\ balance' = seen[t] - n
    /\ spent' = spent + n
    /\ UNCHANGED earned

\* The UPDATE or INSERT of add_credits: from the balance that was read.
AddCredits(t, n) ==
    /\ balance' = seen[t] + n
    /\ earned' = earned + n
    /\ UNCHANGED spent

\* add: one upsert, no key.
Add(n) ==
    /\ Unlocked
    /\ balance' = balance + n
    /\ earned' = earned + n
    /\ UNCHANGED <<spent, keys, writer, seen>>

(***************************************************************************)
(* Buying a mission                                                        *)
(***************************************************************************)

\* submit of MissionLifecycle reads the balance first; create_mission does not.
CheckBalance(m) ==
    /\ pc[m] = "new"
    /\ Goto(m, IF m \in Api /\ balance < Price[m] THEN "refused" ELSE "begin")
    /\ UNCHANGED <<account, writer, missions, seen, errors, requests, paid>>

DeductBegin(m) ==
    /\ pc[m] = "begin"
    /\ BeginExclusive(m)
    /\ Goto(m, "commit")
    /\ UNCHANGED <<account, missions, errors, requests, paid>>

DeductCommit(m) ==
    /\ pc[m] = "commit"
    /\ IF Covered(m, Price[m])
       THEN /\ Deduct(m, Price[m])
            /\ Goto(m, "create")
            /\ debits' = [debits EXCEPT ![m] = @ + 1]
            /\ UNCHANGED keys
       ELSE Goto(m, "refused") /\ UNCHANGED <<account, debits>>
    /\ EndTransaction(m)
    /\ UNCHANGED <<missions, errors, requests, refunds, recalls>>

\* The missions row is inserted as queued.
Create(m) ==
    /\ pc[m] = "create"
    /\ Unlocked
    /\ missions' = [missions EXCEPT ![m] = "queued"]
    /\ Goto(m, IF m \in Api THEN "emit" ELSE "dispatch")
    /\ UNCHANGED <<account, writer, seen, errors, requests, paid>>

\* submit reads the balance once more, for credits.low, and returns; the
\* endpoint adds the background task.
Emit(m) ==
    /\ pc[m] = "emit"
    /\ Goto(m, "start")
    /\ UNCHANGED <<account, writer, missions, seen, errors, requests, paid>>

\* create_mission writes the file for the daemon, and returns.
Dispatch(m) ==
    /\ pc[m] = "dispatch"
    /\ Goto(m, "ended")
    /\ UNCHANGED <<account, writer, missions, seen, errors, requests, paid>>

\* An OSError: the mission is marked as failed.
DispatchFails(m) ==
    /\ pc[m] = "dispatch"
    /\ Unlocked
    /\ faults < MaxFaults
    /\ faults' = faults + 1
    /\ hurt' = hurt \cup {m}
    /\ missions' = [missions EXCEPT ![m] = "failed"]
    /\ Goto(m, "ended")
    /\ UNCHANGED <<account, writer, seen, caught, requests, paid>>

(***************************************************************************)
(* The background task of MissionLifecycle                                 *)
(***************************************************************************)

\* start reads the row.  One that is not queued, because it was cancelled, is
\* left as it is, and the task goes on all the same.
StartRead(m) ==
    /\ pc[m] = "start"
    /\ Goto(m, IF missions[m] = "queued" THEN "save" ELSE "execute")
    /\ UNCHANGED <<account, writer, missions, seen, errors, requests, paid>>

\* It marks the mission whatever it is by now.
StartSave(m) ==
    /\ pc[m] = "save"
    /\ Unlocked
    /\ missions' = [missions EXCEPT ![m] = "running"]
    /\ Goto(m, "started")
    /\ UNCHANGED <<account, writer, seen, errors, requests, paid>>

\* Mutant of Execute: the background task does not catch the exception.
ExecuteUncaught(m) ==
    /\ pc[m] = "execute"
    /\ \E label \in {"complete", "fail", "ended"} : Goto(m, label)
    /\ UNCHANGED <<account, writer, missions, seen, errors, requests, paid>>

\* The mission succeeds or fails, or an exception is raised and caught.
Execute(m) ==
    /\ pc[m] = "execute"
    /\ \/ Goto(m, "complete") /\ UNCHANGED caught
       \/ Goto(m, "fail") /\ UNCHANGED caught
       \/ Goto(m, "fail") /\ caught' = caught \cup {m}
    /\ UNCHANGED <<account, writer, missions, seen, faults, hurt, requests, paid>>

Complete(m) ==
    /\ pc[m] = "complete"
    /\ Unlocked
    /\ missions' = [missions EXCEPT ![m] = "completed"]
    /\ Goto(m, "reload")
    /\ UNCHANGED <<account, writer, seen, errors, requests, paid>>

\* Mutant of Fail: it has refund=False, as by default.
FailNoRefund(m) ==
    /\ pc[m] = "fail"
    /\ Unlocked
    /\ missions' = [missions EXCEPT ![m] = "failed"]
    /\ Goto(m, "reload")
    /\ UNCHANGED <<account, writer, seen, errors, requests, paid>>

\* fail: the status, the refund, the row once more.
Fail(m) ==
    /\ pc[m] = "fail"
    /\ Unlocked
    /\ missions' = [missions EXCEPT ![m] = "failed"]
    /\ Goto(m, "refund")
    /\ UNCHANGED <<account, writer, seen, errors, requests, paid>>

Refund(m) ==
    /\ pc[m] = "refund"
    /\ Add(Price[m])
    /\ refunds' = [refunds EXCEPT ![m] = @ + 1]
    /\ Goto(m, "reload")
    /\ UNCHANGED <<missions, errors, requests, debits, recalls>>

\* start, complete and fail read the row once more, to return it or for the
\* event they send.
Reload(m) ==
    /\ \/ pc[m] = "started" /\ Goto(m, "execute")
       \/ pc[m] = "reload" /\ Goto(m, "ended")
    /\ UNCHANGED <<account, writer, missions, seen, errors, requests, paid>>

(***************************************************************************)
(* Errors                                                                  *)
(***************************************************************************)

\* create_mission gives the credits back when the row could not be inserted.
RefundUnmade(m) ==
    /\ pc[m] = "unmade"
    /\ Add(Price[m])
    /\ refunds' = [refunds EXCEPT ![m] = @ + 1]
    /\ Goto(m, "ended")
    /\ UNCHANGED <<missions, errors, requests, debits, recalls>>

\* Where a thread goes on when a store call raises.  submit passes it on to
\* the caller; the background task fails the mission, once.
AfterRaise(m) ==
    CASE pc[m] = "begin" -> "refused"
      [] pc[m] = "create" /\ m \in Served -> "unmade"
      [] pc[m] \in {"start", "save", "started", "complete", "fail", "refund", "reload"}
             /\ m \notin caught -> "fail"
      [] OTHER -> "ended"

Raises(m) ==
    /\ pc[m] \in {"begin", "create", "emit", "start", "save", "started", "complete", "fail",
                  "refund", "reload", "unmade"}
    /\ faults < MaxFaults
    /\ faults' = faults + 1
    /\ hurt' = hurt \cup {m}
    /\ Goto(m, AfterRaise(m))
    /\ caught' = IF AfterRaise(m) = "fail" THEN caught \cup {m} ELSE caught
    /\ UNCHANGED <<account, writer, missions, seen, requests, paid>>

\* A thread dies; SQLite rolls its transaction back.
Dies(t) ==
    /\ pc[t] \notin {"new", "idle", "refused", "ended", "dead"}
    /\ Goto(t, IF t \in Mission THEN "dead" ELSE "idle")
    /\ writer' = IF writer = t THEN Nobody ELSE writer
    /\ seen' = [seen EXCEPT ![t] = 0]
    /\ hurt' = IF t \in Mission THEN hurt \cup {t} ELSE hurt
    /\ about' = [c \in Caller |-> IF c = t THEN Nobody ELSE about[c]]
    /\ UNCHANGED <<account, missions, caught, faults, calls, paid>>

(***************************************************************************)
(* Callers                                                                 *)
(***************************************************************************)

Request(c, subject, label) ==
    /\ pc[c] = "idle"
    /\ calls < MaxCalls
    /\ calls' = calls + 1
    /\ about' = [about EXCEPT ![c] = subject]
    /\ Goto(c, label)
    /\ UNCHANGED <<account, writer, missions, seen, errors, paid>>

\* The request is answered.
Return(c) ==
    /\ Goto(c, "idle")
    /\ about' = [about EXCEPT ![c] = Nobody]
    /\ UNCHANGED calls

\* activate_license, again and again with one license key.
Activate(c) == \E k \in GrantKey : Request(c, k, "begin")

\* /mcu/deduct, again and again with one key; it reads the balance first.
McuDeduct(c) == \E k \in ChargeKey : balance >= Price[k] /\ Request(c, k, "begin")

\* add_credits and deduct look the key up inside the transaction: a known one
\* ends it.
KeyedBegin(c) ==
    /\ pc[c] = "begin"
    /\ IF about[c] \in keys
       THEN Unlocked /\ Return(c) /\ UNCHANGED <<writer, seen>>
       ELSE BeginExclusive(c) /\ Goto(c, "commit") /\ UNCHANGED requests
    /\ UNCHANGED <<account, missions, errors, paid>>

\* Mutant of RecordKey: the transaction is recorded without its key.
RecordKeyNever(k) == UNCHANGED keys

\* The credit_transactions row.  Its unique index would refuse a second one.
RecordKey(k) == keys' = keys \cup {k}

KeyedCommit(c) ==
    /\ pc[c] = "commit"
    /\ LET k == about[c]
       IN \/ k \in GrantKey /\ AddCredits(c, Price[k]) /\ RecordKey(k)
          \/ k \in ChargeKey /\ Covered(c, Price[k]) /\ Deduct(c, Price[k]) /\ RecordKey(k)
          \/ k \in ChargeKey /\ ~Covered(c, Price[k]) /\ UNCHANGED account
    /\ Return(c)
    /\ EndTransaction(c)
    /\ UNCHANGED <<missions, errors, paid>>

\* cancel_mission has read a queued mission of the table, which both ways to buy
\* one share.
Cancel(c) == \E m \in Mission : missions[m] = "queued" /\ Request(c, m, "mark")

\* Mutant of Mark: the credits are added before the mission is marked.
MarkAfterwards(c) ==
    /\ pc[c] = "mark"
    /\ Add(Price[about[c]])
    /\ refunds' = [refunds EXCEPT ![about[c]] = @ + 1]
    /\ Goto(c, "credit")
    /\ UNCHANGED <<missions, errors, requests, debits, recalls>>

\* It marks the mission whatever it is by now, then adds the credits.
Mark(c) ==
    /\ pc[c] = "mark"
    /\ Unlocked
    /\ missions' = [missions EXCEPT ![about[c]] = "cancelled"]
    /\ recalls' = [recalls EXCEPT ![about[c]] = @ + 1]
    /\ Goto(c, "credit")
    /\ UNCHANGED <<account, writer, seen, errors, requests, debits, refunds>>

CreditBack(c) ==
    /\ pc[c] = "credit"
    /\ Add(Price[about[c]])
    /\ refunds' = [refunds EXCEPT ![about[c]] = @ + 1]
    /\ Return(c)
    /\ UNCHANGED <<missions, errors, debits, recalls>>

\* A store call raises; cancel_mission only logs a refund that failed.
CallerRaises(c) ==
    /\ pc[c] \in {"begin", "mark", "credit"}
    /\ faults < MaxFaults
    /\ faults' = faults + 1
    /\ Return(c)
    /\ UNCHANGED <<account, writer, missions, seen, caught, hurt, paid>>

(***************************************************************************)
(* The specification                                                       *)
(***************************************************************************)

MissionStep(m) ==
    \/ CheckBalance(m) \/ DeductBegin(m) \/ DeductCommit(m) \/ Create(m) \/ Emit(m)
    \/ Dispatch(m) \/ DispatchFails(m) \/ StartRead(m) \/ StartSave(m) \/ Execute(m)
    \/ Complete(m) \/ Fail(m) \/ Refund(m) \/ Reload(m) \/ RefundUnmade(m) \/ Raises(m)

CallerStep(c) == KeyedBegin(c) \/ KeyedCommit(c) \/ Mark(c) \/ CreditBack(c) \/ CallerRaises(c)

Next ==
    \/ \E m \in Mission : MissionStep(m)
    \/ \E c \in Caller : CallerStep(c) \/ Activate(c) \/ McuDeduct(c) \/ Cancel(c)
    \/ \E t \in Thread : Dies(t)

Spec == Init /\ [][Next]_vars

\* Store calls return, and the hybrid router does; a thread that waits for the
\* database gets it within its timeout, or the call raises.
FairSpec ==
    /\ Spec
    /\ \A m \in Mission : WF_vars(MissionStep(m))
    /\ \A c \in Caller : WF_vars(CallerStep(c))

(***************************************************************************)
(* Properties                                                              *)
(***************************************************************************)

TypeOK ==
    /\ balance \in Nat /\ earned \in Nat /\ spent \in Nat
    /\ keys \subseteq Key
    /\ writer \in Thread \cup {Nobody}
    /\ missions \in [Mission -> Status]
    /\ pc \in [Thread -> PC]
    /\ seen \in [Thread -> Nat]
    /\ about \in [Caller -> Mission \cup Key \cup {Nobody}]
    /\ caught \subseteq Mission
    /\ calls \in Nat /\ faults \in Nat
    /\ debits \in [Mission -> Nat]
    /\ refunds \in [Mission -> Nat]
    /\ recalls \in [Mission -> Nat]
    /\ hurt \subseteq Mission

\* The account is a ledger of whole transactions: no interleaving of threads,
\* no crash and no retry loses or repeats a movement, overdraws the account or
\* uses a key twice, although deduct and add_credits write a balance computed
\* from one they read.
Ledger == INSTANCE CreditLedger WITH Amount <- {Price[m] : m \in Mission}, Worth <- Price

ImplementsLedger == Ledger!LedgerSpec

\* The row always adds up: the balance is what was credited less what was
\* debited.
BooksBalance == earned = balance + spent

\* "Debit BEFORE creating the record": a mission that is open or delivered was
\* paid for once, whatever raised or died on the way, and was paid back at most
\* once for every cancellation that marked it first.  One of MissionService,
\* which nothing reopens, was not paid back at all.
OpenIsPaid ==
    \A m \in Mission : missions[m] \in {"queued", "running", "completed"} =>
        /\ debits[m] = 1
        /\ refunds[m] <= recalls[m]
        /\ m \in Served => refunds[m] = 0

\* A mission that failed in execution, without an error of the stores, has been
\* paid back when its task is over, whether the router reported the failure or
\* raised: once, and at most once more for every cancellation that marked it.
FailureIsPaidBack ==
    \A m \in Api \ hurt : pc[m] = "ended" /\ missions[m] = "failed" =>
        refunds[m] >= 1 /\ refunds[m] <= 1 + recalls[m]

\* A submitted mission ends in a final status, unless its thread died or a store
\* call of it raised; an exception in the background task does not leave it open.
MissionSettles ==
    \A m \in Api : missions[m] = "queued" ~> missions[m] \in {"completed", "failed"} \/ m \in hurt
=============================================================================
