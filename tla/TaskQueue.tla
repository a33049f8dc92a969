------------------------------ MODULE TaskQueue ------------------------------
(***************************************************************************)
(* The task queue of src/core/task_queue.py: rows in SQLite, and threads   *)
(* of one process that lease, complete, fail and renew them under the      *)
(* threading.Lock of the queue object.                                     *)
(*                                                                         *)
(* lease_tasks is two holds of the lock, the second one with two           *)
(* statements in it; fail_task reads the row in one hold and writes it in  *)
(* another.  time.time() is read before the lock is waited for, so a call  *)
(* may act on a time that is up to MaxWait old.  Times of a row are kept   *)
(* relative to the clock, and floor at the values no call can tell apart.  *)
(***************************************************************************)
EXTENDS Integers, FiniteSets

CONSTANTS
    Task, Worker,
    Priority,       \* task -> its priority, a lower one is more urgent
    MaxRetries,     \* task -> max_retries
    Limit,          \* tasks a worker asks for at a time
    Duration,       \* life of a lease, and of its renewal
    BaseDelay,      \* base_delay_sec of a retry
    MaxWait,        \* bound: how old the time of a call becomes
    NoWorker

ASSUME QueueAssumption ==
    /\ Priority \in [Task -> Nat]
    /\ MaxRetries \in [Task -> Nat]
    /\ Limit \in Nat /\ Limit > 0
    /\ Duration \in Nat /\ BaseDelay \in Nat /\ MaxWait \in Nat
    /\ NoWorker \notin Worker
    /\ IsFiniteSet(Task)

VARIABLES
    rows,           \* task -> its row
    lock,           \* the worker inside the second hold of lease_tasks
    call,           \* worker -> the call it is in
    mine,           \* worker -> tasks it was given and has not reported on
    failures        \* task -> failures on record; history, up to one too many

vars == <<rows, lock, call, mine, failures>>

State == {"absent", "pending", "running", "completed", "dead_letter", "purged"}
Idle == [pc |-> "idle", age |-> 0, seen |-> {}, retries |-> 0]

Init ==
    /\ rows = [t \in Task |-> [state |-> "absent", by |-> NoWorker, left |-> 0, due |-> 0, retries |-> 0]]
    /\ lock = NoWorker
    /\ call = [w \in Worker |-> Idle]
    /\ mine = [w \in Worker |-> {}]
    /\ failures = [t \in Task |-> 0]

Free == lock = NoWorker

\* A row that becomes pending, due in d.
Requeued(r, d) == [r EXCEPT !.state = "pending", !.by = NoWorker, !.left = 0, !.due = d]

\* A row whose times nobody reads any more.
Ended(r, end) == [r EXCEPT !.state = end, !.by = NoWorker, !.left = 0, !.due = 0]

\* enqueue, with or without a delay.
Enqueue(t) ==
    /\ Free /\ rows[t].state = "absent"
    /\ \E d \in {0, BaseDelay}, a \in 0..MaxWait : rows' = [rows EXCEPT ![t] = Requeued(@, d - a)]
    /\ UNCHANGED <<lock, call, mine, failures>>

\* The lease of r had expired a ago.
Expired(r, a) == r.state = "running" /\ r.left < -a

\* Mutant of Reclaimed: a task that has used up its retries is not given again.
ReclaimedIfRetriesLeft(a) ==
    rows' = [t \in Task |-> IF Expired(rows[t], a) /\ rows[t].retries < MaxRetries[t]
                            THEN Requeued(rows[t], rows[t].due) ELSE rows[t]]

\* The UPDATE of reclaim_expired_leases with a time that is a old.
Reclaimed(a) ==
    rows' = [t \in Task |-> IF Expired(rows[t], a) THEN Requeued(rows[t], rows[t].due) ELSE rows[t]]

\* get_status reclaims, then counts.
GetStatus ==
    /\ Free
    /\ \E a \in 0..MaxWait : Reclaimed(a)
    /\ UNCHANGED <<lock, call, mine, failures>>

\* lease_tasks, first hold, by a worker that has reported on its last batch.
LeaseReclaim(w) ==
    /\ Free /\ call[w].pc = "idle" /\ mine[w] = {}
    /\ \E a \in 0..MaxWait : Reclaimed(a)
    /\ call' = [call EXCEPT ![w].pc = "select"]
    /\ UNCHANGED <<lock, mine, failures>>

\* S is what the SELECT ... ORDER BY ... LIMIT returns at a time that is a old.
Top(S, a) ==
    LET eligible == {t \in Task : rows[t].state = "pending" /\ rows[t].due <= -a}
    IN /\ S \subseteq eligible
       /\ Cardinality(S) = IF Cardinality(eligible) < Limit THEN Cardinality(eligible) ELSE Limit
       /\ \A t \in S, u \in eligible \ S :
              \/ Priority[t] < Priority[u]
              \/ Priority[t] = Priority[u] /\ rows[t].due <= rows[u].due

\* Mutant of LeaseSelect: the SELECT is not under the lock.
LeaseSelectUnlocked(w) ==
    /\ call[w].pc = "select"
    /\ \E a \in 0..MaxWait, S \in SUBSET Task :
           /\ Top(S, a)
           /\ call' = [call EXCEPT ![w] = IF S = {} THEN Idle
                                          ELSE [Idle EXCEPT !.pc = "update", !.age = a, !.seen = S]]
    /\ UNCHANGED <<rows, lock, mine, failures>>

\* Second hold: the SELECT.  Without a candidate the call returns.
LeaseSelect(w) ==
    /\ Free /\ call[w].pc = "select"
    /\ \E a \in 0..MaxWait, S \in SUBSET Task :
           /\ Top(S, a)
           /\ call' = [call EXCEPT ![w] = IF S = {} THEN Idle
                                          ELSE [Idle EXCEPT !.pc = "update", !.age = a, !.seen = S]]
           /\ lock' = IF S = {} THEN NoWorker ELSE w
    /\ UNCHANGED <<rows, mine, failures>>

\* The rows of S under a lease of w that began a ago, whatever their state is.
Leased(S, w, a) ==
    [t \in Task |-> IF t \in S THEN [rows[t] EXCEPT !.state = "running", !.by = w, !.left = Duration - a]
                    ELSE rows[t]]

\* Mutant of LeaseUpdate: the lock is kept.
LeaseUpdateKeepsLock(w) ==
    /\ call[w].pc = "update"
    /\ rows' = Leased(call[w].seen, w, call[w].age)
    /\ mine' = [mine EXCEPT ![w] = @ \cup call[w].seen]
    /\ call' = [call EXCEPT ![w] = Idle]
    /\ UNCHANGED <<lock, failures>>

\* The UPDATE of the rows by their ids alone; the call returns them.
LeaseUpdate(w) ==
    /\ call[w].pc = "update"
    /\ rows' = Leased(call[w].seen, w, call[w].age)
    /\ mine' = [mine EXCEPT ![w] = @ \cup call[w].seen]
    /\ call' = [call EXCEPT ![w] = Idle]
    /\ lock' = NoWorker
    /\ UNCHANGED failures

\* heartbeat: also of a lease that expired, if nobody has reclaimed it.
Heartbeat(w, t) ==
    /\ Free /\ call[w].pc = "idle" /\ t \in mine[w]
    /\ rows[t].state = "running" /\ rows[t].by = w
    /\ \E a \in 0..MaxWait : rows' = [rows EXCEPT ![t].left = Duration - a]
    /\ UNCHANGED <<lock, call, mine, failures>>

\* complete_task, naming the worker or not; a refused one changes no row.
CompleteTask(w, t) ==
    /\ Free /\ call[w].pc = "idle" /\ t \in mine[w]
    /\ \E named \in BOOLEAN :
           rows' = IF rows[t].state = "running" /\ (named => rows[t].by = w)
                   THEN [rows EXCEPT ![t] = Ended(@, "completed")]
                   ELSE rows
    /\ mine' = [mine EXCEPT ![w] = @ \ {t}]
    /\ UNCHANGED <<lock, call, failures>>

\* fail_task, first hold: the row is read, whoever holds its lease.
FailRead(w, t) ==
    /\ Free /\ call[w].pc = "idle" /\ t \in mine[w]
    /\ call' = IF rows[t].state # "running" THEN call
               ELSE [call EXCEPT ![w] = [Idle EXCEPT !.pc = "fail", !.seen = {t}, !.retries = rows[t].retries]]
    /\ mine' = [mine EXCEPT ![w] = @ \ {t}]
    /\ UNCHANGED <<rows, lock, failures>>

\* Mutant of Failed: the last retry is skipped.
FailedEarly(r, t, n, a) ==
    IF n + 1 >= MaxRetries[t] THEN [Ended(r, "dead_letter") EXCEPT !.retries = n + 1]
    ELSE [Requeued(r, BaseDelay * 2^n - a) EXCEPT !.retries = n + 1]

\* The row after a failure whose caller had read n retries.
Failed(r, t, n, a) ==
    IF n + 1 > MaxRetries[t] THEN [Ended(r, "dead_letter") EXCEPT !.retries = n + 1]
    ELSE [Requeued(r, BaseDelay * 2^n - a) EXCEPT !.retries = n + 1]

\* Second hold: the UPDATE, if the row is running - again, perhaps.
FailWrite(w) ==
    /\ Free /\ call[w].pc = "fail"
    /\ \E t \in call[w].seen :
           IF rows[t].state # "running" THEN UNCHANGED <<rows, failures>>
           ELSE /\ rows' = [rows EXCEPT ![t] = Failed(@, t, call[w].retries, call[w].age)]
                /\ failures' = [failures EXCEPT ![t] = IF @ > MaxRetries[t] THEN @ ELSE @ + 1]
    /\ call' = [call EXCEPT ![w] = Idle]
    /\ UNCHANGED <<lock, mine>>

DeadLetters == {t \in Task : rows[t].state = "dead_letter"}

\* retry_dlq_task and retry_all_dlq.
RetryDlq ==
    /\ Free
    /\ \E S \in {DeadLetters} \cup {{t} : t \in DeadLetters}, a \in 0..MaxWait :
           rows' = [t \in Task |-> IF t \in S THEN [Requeued(rows[t], -a) EXCEPT !.retries = 0] ELSE rows[t]]
    /\ UNCHANGED <<lock, call, mine, failures>>

\* clear_dlq deletes the rows; ids are random and not used again.
ClearDlq ==
    /\ Free
    /\ rows' = [t \in Task |-> IF t \in DeadLetters THEN [Ended(rows[t], "purged") EXCEPT !.retries = 0] ELSE rows[t]]
    /\ UNCHANGED <<lock, call, mine, failures>>

\* A statement raises, a database locked for longer than its timeout: the
\* transaction is rolled back and the lock let go.
Raise(w) ==
    /\ call[w].pc # "idle"
    /\ call' = [call EXCEPT ![w] = Idle]
    /\ lock' = IF lock = w THEN NoWorker ELSE lock
    /\ UNCHANGED <<rows, mine, failures>>

\* The process dies and starts again: the rows are left.
Crash ==
    /\ call' = [w \in Worker |-> Idle]
    /\ mine' = [w \in Worker |-> {}]
    /\ lock' = NoWorker
    /\ UNCHANGED <<rows, failures>>

AtLeast(x, floor) == IF x < floor THEN floor ELSE x

\* The clock advances.  A call in progress does not outlive MaxWait.
Tick ==
    /\ \A w \in Worker : call[w].pc \in {"update", "fail"} => call[w].age < MaxWait
    /\ rows' = [t \in Task |-> LET r == rows[t] IN
                  CASE r.state = "pending" -> [r EXCEPT !.due = AtLeast(@ - 1, -MaxWait)]
                    [] r.state = "running" -> [r EXCEPT !.due = AtLeast(@ - 1, -MaxWait),
                                                        !.left = AtLeast(@ - 1, -MaxWait - 1)]
                    [] OTHER -> r]
    /\ call' = [w \in Worker |-> IF call[w].pc \in {"update", "fail"} THEN [call[w] EXCEPT !.age = @ + 1]
                                 ELSE call[w]]
    /\ UNCHANGED <<lock, mine, failures>>

CallStep(w) == LeaseSelect(w) \/ LeaseUpdate(w) \/ FailWrite(w)

Next ==
    \/ \E t \in Task : Enqueue(t)
    \/ GetStatus \/ RetryDlq \/ ClearDlq \/ Crash \/ Tick
    \/ \E w \in Worker : LeaseReclaim(w) \/ LeaseSelect(w) \/ LeaseUpdate(w) \/ FailWrite(w) \/ Raise(w)
    \/ \E w \in Worker, t \in Task : Heartbeat(w, t) \/ CompleteTask(w, t) \/ FailRead(w, t)

Spec == Init /\ [][Next]_vars

\* Calls move on, the clock runs and somebody keeps asking for the status or
\* for tasks.  Nothing else is fair: no worker need report, none need crash.
FairSpec ==
    /\ Spec
    /\ SF_vars(Tick) /\ SF_vars(GetStatus)
    /\ \A w \in Worker : SF_vars(CallStep(w))

TypeOK ==
    /\ rows \in [Task -> [state : State, by : Worker \cup {NoWorker}, left : Int, due : Int, retries : Nat]]
    /\ lock \in Worker \cup {NoWorker}
    /\ call \in [Worker -> [pc : {"idle", "select", "update", "fail"}, age : 0..MaxWait,
                            seen : SUBSET Task, retries : Nat]]
    /\ mine \in [Worker -> SUBSET Task]
    /\ failures \in [Task -> Nat]

(***************************************************************************)
(* Properties                                                              *)
(***************************************************************************)

\* The two statements of a lease and the stale times behave like a queue whose
\* operations are atomic: nothing is leased that is not waiting, nothing
\* completed comes back, no live lease is reclaimed, and no ripe task is passed
\* over for a less urgent one.
Abstract == INSTANCE AtomicQueue WITH
    state <- [t \in Task |-> rows[t].state],
    holder <- [t \in Task |-> rows[t].by],
    ripe <- {t \in Task : rows[t].state = "pending" /\ rows[t].due <= -MaxWait},
    lapsed <- {t \in Task : rows[t].state = "running" /\ rows[t].left < 0}

ImplementsAtomicQueue == Abstract!ASpec

\* A task is given up only after one failure more than its retries were
\* recorded, although retry_count is written back from an earlier read, is reset
\* by a replay of the dead letters, and failures of two holders may race.
DeadAfterFailures ==
    \A t \in Task : rows[t].state = "dead_letter" => failures[t] > MaxRetries[t]

\* Running, and nobody who could report on it knows of it.
Orphaned(t) ==
    rows[t].state = "running" /\ \A w \in Worker : t \notin mine[w] /\ t \notin call[w].seen

\* A task whose worker is gone does not stay leased for ever: its lease runs out
\* and some call of lease_tasks or get_status takes it back.
OrphanReclaimed == \A t \in Task : []<>~Orphaned(t)

\* Every call returns: no hold of the lock waits for itself or is kept.
CallReturns == \A w \in Worker : []<>(call[w].pc = "idle")
=============================================================================
