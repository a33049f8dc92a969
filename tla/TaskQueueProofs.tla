--------------------------- MODULE TaskQueueProofs ---------------------------
(***************************************************************************)
(* Proofs about TaskQueue, for any tasks, workers, priorities, retries,    *)
(* limits and delays.                                                      *)
(***************************************************************************)
EXTENDS TaskQueue, FiniteSetTheorems, TLAPS

RowSet == [state : State, by : Worker \cup {NoWorker}, left : Int, due : Int, retries : Nat]

CallSet == [pc : {"idle", "select", "update", "fail"}, age : 0..MaxWait, seen : SUBSET Task, retries : Nat]

\* u was a candidate of the SELECT of w.
Eligible(u, w) == rows[u].state = "pending" /\ rows[u].due <= -call[w].age

\* Between the two statements of a lease the lock is held, and what the first
\* one returned is still what it would return.
LeaseOK ==
    \A w \in Worker : call[w].pc = "update" =>
        /\ lock = w
        /\ call[w].seen # {}
        /\ \A t \in call[w].seen : rows[t].state = "pending"
        /\ Cardinality(call[w].seen) <= Limit
        /\ \A u \in Task \ call[w].seen : Eligible(u, w) =>
               Cardinality(call[w].seen) = Limit /\ \A t \in call[w].seen : Priority[t] <= Priority[u]

\* n retries of t are no more than its failures on record, as far as those count.
Earned(t, n) == n <= failures[t] \/ failures[t] > MaxRetries[t]

\* No retry count, stored or remembered by a fail_task, was made up.
FailureOK ==
    /\ \A t \in Task : /\ Earned(t, rows[t].retries)
                       /\ rows[t].state = "dead_letter" => failures[t] > MaxRetries[t]
    /\ \A w \in Worker : call[w].pc = "fail" => \A t \in call[w].seen : Earned(t, call[w].retries)

QueueInv == TypeOK /\ LeaseOK /\ FailureOK

(***************************************************************************)
(* Rows                                                                    *)
(***************************************************************************)

LEMMA RequeuedRow ==
    ASSUME NEW r \in RowSet, NEW d \in Int
    PROVE  /\ Requeued(r, d) \in RowSet
           /\ Requeued(r, d).state = "pending" /\ Requeued(r, d).by = NoWorker
           /\ Requeued(r, d).retries = r.retries
<1> DEFINE r1 == [r EXCEPT !.state = "pending"]
           r2 == [r1 EXCEPT !.by = NoWorker]
           r3 == [r2 EXCEPT !.left = 0]
<1>1. r1 \in RowSet /\ r1.state = "pending" /\ r1.retries = r.retries
    BY DEF RowSet, State
<1>2. r2 \in RowSet /\ r2.state = "pending" /\ r2.retries = r.retries /\ r2.by = NoWorker
    <2> HIDE DEF r1
    <2> QED
        BY <1>1 DEF RowSet
<1>3. r3 \in RowSet /\ r3.state = "pending" /\ r3.retries = r.retries /\ r3.by = NoWorker
    <2> HIDE DEF r2
    <2> QED
        BY <1>2 DEF RowSet
<1>4. Requeued(r, d) = [r3 EXCEPT !.due = d]
    BY DEF Requeued
<1> HIDE DEF r3
<1> QED
    BY <1>3, <1>4 DEF RowSet

LEMMA EndedRow ==
    ASSUME NEW r \in RowSet, NEW end \in {"completed", "dead_letter", "purged"}
    PROVE  /\ Ended(r, end) \in RowSet
           /\ Ended(r, end).state = end /\ Ended(r, end).by = NoWorker
           /\ Ended(r, end).retries = r.retries
<1> DEFINE r1 == [r EXCEPT !.state = end]
           r2 == [r1 EXCEPT !.by = NoWorker]
           r3 == [r2 EXCEPT !.left = 0]
<1>1. r1 \in RowSet /\ r1.state = end /\ r1.retries = r.retries
    BY DEF RowSet, State
<1>2. r2 \in RowSet /\ r2.state = end /\ r2.retries = r.retries /\ r2.by = NoWorker
    <2> HIDE DEF r1
    <2> QED
        BY <1>1 DEF RowSet
<1>3. r3 \in RowSet /\ r3.state = end /\ r3.retries = r.retries /\ r3.by = NoWorker
    <2> HIDE DEF r2
    <2> QED
        BY <1>2 DEF RowSet
<1>4. Ended(r, end) = [r3 EXCEPT !.due = 0]
    BY DEF Ended
<1> HIDE DEF r3
<1> QED
    BY <1>3, <1>4 DEF RowSet

LEMMA FailedRow ==
    ASSUME NEW r \in RowSet, NEW t \in Task, NEW n \in Nat, NEW a \in 0..MaxWait
    PROVE  /\ Failed(r, t, n, a) \in RowSet
           /\ Failed(r, t, n, a).by = NoWorker
           /\ Failed(r, t, n, a).retries = n + 1
           /\ Failed(r, t, n, a).state \in {"pending", "dead_letter"}
           /\ Failed(r, t, n, a).state = "dead_letter" => n + 1 > MaxRetries[t]
<1>1. CASE n + 1 > MaxRetries[t]
    <2>1. Ended(r, "dead_letter") \in RowSet /\ Ended(r, "dead_letter").state = "dead_letter"
          /\ Ended(r, "dead_letter").by = NoWorker
        BY EndedRow
    <2>2. Failed(r, t, n, a) = [Ended(r, "dead_letter") EXCEPT !.retries = n + 1]
        BY <1>1 DEF Failed
    <2> QED
        BY <1>1, <2>1, <2>2 DEF RowSet
<1>2. CASE ~(n + 1 > MaxRetries[t])
    <2> DEFINE d == BaseDelay * 2^n - a
    <2>1. d \in Int
        <3>1. 2^n \in Int
            OBVIOUS
        <3>2. \A p \in Int : BaseDelay * p - a \in Int
            BY QueueAssumption
        <3> QED
            BY <3>1, <3>2
    <2> HIDE DEF d
    <2>2. Requeued(r, d) \in RowSet /\ Requeued(r, d).state = "pending" /\ Requeued(r, d).by = NoWorker
        BY <2>1, RequeuedRow
    <2>3. Failed(r, t, n, a) = [Requeued(r, d) EXCEPT !.retries = n + 1]
        BY <1>2 DEF Failed, d
    <2> QED
        BY <2>2, <2>3 DEF RowSet
<1> QED
    BY <1>1, <1>2

\* What reclaiming does to a row.
LEMMA ReclaimedRows ==
    ASSUME TypeOK, NEW a \in 0..MaxWait, Reclaimed(a)
    PROVE  /\ rows' \in [Task -> RowSet]
           /\ \A t \in Task :
                  \/ rows'[t] = rows[t]
                  \/ /\ rows[t].state = "running" /\ rows[t].left < 0
                     /\ rows'[t].state = "pending" /\ rows'[t].by = NoWorker
                     /\ rows'[t].retries = rows[t].retries
<1>1. \A t \in Task : rows[t] \in RowSet
    BY DEF TypeOK, RowSet
<1>2. ASSUME NEW t \in Task, Expired(rows[t], a)
      PROVE  /\ rows[t].state = "running" /\ rows[t].left < 0
             /\ Requeued(rows[t], rows[t].due) \in RowSet
             /\ Requeued(rows[t], rows[t].due).state = "pending"
             /\ Requeued(rows[t], rows[t].due).by = NoWorker
             /\ Requeued(rows[t], rows[t].due).retries = rows[t].retries
    <2>1. rows[t].left \in Int /\ rows[t].due \in Int /\ a \in Int /\ a >= 0
        BY <1>1, QueueAssumption DEF RowSet
    <2>2. rows[t].state = "running" /\ rows[t].left < 0
        BY <1>2, <2>1 DEF Expired
    <2> QED
        BY <1>1, <2>1, <2>2, RequeuedRow
<1>3. \A t \in Task : rows'[t] = IF Expired(rows[t], a) THEN Requeued(rows[t], rows[t].due) ELSE rows[t]
    BY DEF Reclaimed
<1>4. \A t \in Task : rows'[t] \in RowSet
    BY <1>1, <1>2, <1>3
<1>5. rows' \in [Task -> RowSet]
    BY <1>4 DEF Reclaimed
<1> QED
    BY <1>2, <1>3, <1>5

\* Who finds the lock free is not in the middle of a lease, nor is anybody.
LEMMA FreeNoLease ==
    ASSUME QueueInv, Free
    PROVE  \A w \in Worker : call[w].pc # "update"
BY QueueAssumption DEF QueueInv, LeaseOK, Free

\* A step that finds the lock free, begins no lease and records no failure.
LEMMA FreeFrame ==
    ASSUME QueueInv, Free, TypeOK', UNCHANGED failures,
           \A w \in Worker : call'[w] = call[w] \/ call'[w].pc \in {"idle", "select"},
           \A t \in Task : /\ rows'[t].retries = rows[t].retries \/ rows'[t].retries = 0
                           /\ rows'[t].state = "dead_letter" => rows[t].state = "dead_letter"
    PROVE  QueueInv'
<1>1. LeaseOK'
    BY FreeNoLease DEF LeaseOK
<1>2. \A t \in Task : failures[t] \in Nat /\ 0 <= failures[t]
    BY DEF QueueInv, TypeOK
<1>3. FailureOK'
    BY <1>2 DEF QueueInv, FailureOK, Earned
<1> QED
    BY <1>1, <1>3 DEF QueueInv

(***************************************************************************)
(* Calls                                                                   *)
(***************************************************************************)

LEMMA IdleCall == Idle \in CallSet /\ Idle.pc = "idle"
BY QueueAssumption DEF Idle, CallSet

LEMMA UpdateCall ==
    ASSUME NEW a \in 0..MaxWait, NEW S \in SUBSET Task
    PROVE  LET c == [Idle EXCEPT !.pc = "update", !.age = a, !.seen = S]
           IN c \in CallSet /\ c.pc = "update" /\ c.age = a /\ c.seen = S
<1> DEFINE c1 == [Idle EXCEPT !.pc = "update"]
           c2 == [c1 EXCEPT !.age = a]
           c3 == [c2 EXCEPT !.seen = S]
<1>1. c1 \in CallSet /\ c1.pc = "update"
    BY IdleCall DEF CallSet
<1>2. c2 \in CallSet /\ c2.pc = "update" /\ c2.age = a
    <2> HIDE DEF c1
    <2> QED
        BY <1>1 DEF CallSet
<1>3. c3 \in CallSet /\ c3.pc = "update" /\ c3.age = a /\ c3.seen = S
    <2> HIDE DEF c2
    <2> QED
        BY <1>2 DEF CallSet
<1>4. c3 = [Idle EXCEPT !.pc = "update", !.age = a, !.seen = S]
    OBVIOUS
<1> QED
    BY <1>3, <1>4

LEMMA FailCall ==
    ASSUME NEW t \in Task, NEW n \in Nat
    PROVE  LET c == [Idle EXCEPT !.pc = "fail", !.seen = {t}, !.retries = n]
           IN c \in CallSet /\ c.pc = "fail" /\ c.seen = {t} /\ c.retries = n
<1> DEFINE c1 == [Idle EXCEPT !.pc = "fail"]
           c2 == [c1 EXCEPT !.seen = {t}]
           c3 == [c2 EXCEPT !.retries = n]
<1>1. c1 \in CallSet /\ c1.pc = "fail"
    BY IdleCall DEF CallSet
<1>2. c2 \in CallSet /\ c2.pc = "fail" /\ c2.seen = {t}
    <2> HIDE DEF c1
    <2> QED
        BY <1>1 DEF CallSet
<1>3. c3 \in CallSet /\ c3.pc = "fail" /\ c3.seen = {t} /\ c3.retries = n
    <2> HIDE DEF c2
    <2> QED
        BY <1>2 DEF CallSet
<1>4. c3 = [Idle EXCEPT !.pc = "fail", !.seen = {t}, !.retries = n]
    OBVIOUS
<1> QED
    BY <1>3, <1>4

LEMMA Typed ==
    TypeOK <=> /\ rows \in [Task -> RowSet]
               /\ lock \in Worker \cup {NoWorker}
               /\ call \in [Worker -> CallSet]
               /\ mine \in [Worker -> SUBSET Task]
               /\ failures \in [Task -> Nat]
BY DEF TypeOK, RowSet, CallSet

(***************************************************************************)
(* The invariant                                                           *)
(***************************************************************************)

LEMMA QueueInvInit == Init => QueueInv
<1> SUFFICES ASSUME Init PROVE QueueInv
    OBVIOUS
<1> DEFINE r == [state |-> "absent", by |-> NoWorker, left |-> 0, due |-> 0, retries |-> 0]
<1>1. r \in RowSet /\ r.state = "absent" /\ r.retries = 0
    BY DEF RowSet, State
<1> HIDE DEF r
<1>2. rows = [t \in Task |-> r]
    BY DEF Init, r
<1>3. TypeOK
    BY <1>1, <1>2, IdleCall, Typed DEF Init
<1>4. LeaseOK
    BY IdleCall DEF Init, LeaseOK
<1>5. FailureOK
    BY <1>1, <1>2, IdleCall DEF Init, FailureOK, Earned
<1> QED
    BY <1>3, <1>4, <1>5 DEF QueueInv

\* Operations that find the lock free and record no failure.
LEMMA QuietSteps ==
    ASSUME QueueInv,
           \/ \E t \in Task : Enqueue(t)
           \/ GetStatus \/ RetryDlq \/ ClearDlq
           \/ \E w \in Worker : LeaseReclaim(w)
           \/ \E w \in Worker, t \in Task : Heartbeat(w, t) \/ CompleteTask(w, t)
    PROVE  QueueInv'
<1>0. /\ TypeOK
      /\ rows \in [Task -> RowSet] /\ call \in [Worker -> CallSet]
      /\ mine \in [Worker -> SUBSET Task] /\ failures \in [Task -> Nat]
    BY Typed DEF QueueInv
<1>a. \A a \in 0..MaxWait : a \in Int /\ -a \in Int /\ BaseDelay - a \in Int /\ 0 - a \in Int
                             /\ Duration - a \in Int
    BY QueueAssumption
<1>1. ASSUME NEW t \in Task, Enqueue(t) PROVE QueueInv'
    <2>1. PICK d \in {0, BaseDelay}, a \in 0..MaxWait : rows' = [rows EXCEPT ![t] = Requeued(@, d - a)]
        BY <1>1 DEF Enqueue
    <2>2. d - a \in Int
        BY <1>a
    <2>3. rows' \in [Task -> RowSet]
        BY <2>1, <2>2, <1>0, RequeuedRow
    <2>4. \A q \in Task : rows'[q].retries = rows[q].retries
                          /\ (rows'[q].state = "dead_letter" => rows[q].state = "dead_letter")
        <3>1. Requeued(rows[t], d - a).retries = rows[t].retries /\ Requeued(rows[t], d - a).state = "pending"
            BY <2>2, <1>0, RequeuedRow
        <3>2. \A q \in Task : rows'[q] = IF q = t THEN Requeued(rows[t], d - a) ELSE rows[q]
            BY <2>1, <1>0
        <3> QED
            BY <3>1, <3>2
    <2>5. Free /\ UNCHANGED <<lock, call, mine, failures>>
        BY <1>1 DEF Enqueue
    <2>6. TypeOK'
        BY <2>3, <2>5, <1>0, Typed DEF TypeOK, RowSet
    <2> QED
        BY <2>4, <2>5, <2>6, FreeFrame
<1>2. ASSUME GetStatus PROVE QueueInv'
    <2>1. PICK a \in 0..MaxWait : Reclaimed(a)
        BY <1>2 DEF GetStatus
    <2>2. rows' \in [Task -> RowSet] /\ \A q \in Task : rows'[q].retries = rows[q].retries
                          /\ (rows'[q].state = "dead_letter" => rows[q].state = "dead_letter")
        BY <2>1, <1>0, ReclaimedRows
    <2>3. Free /\ UNCHANGED <<lock, call, mine, failures>>
        BY <1>2 DEF GetStatus
    <2>4. TypeOK'
        BY <2>2, <2>3, <1>0 DEF TypeOK, RowSet
    <2> QED
        BY <2>2, <2>3, <2>4, FreeFrame
<1>3. ASSUME NEW w \in Worker, LeaseReclaim(w) PROVE QueueInv'
    <2>1. PICK a \in 0..MaxWait : Reclaimed(a)
        BY <1>3 DEF LeaseReclaim
    <2>2. rows' \in [Task -> RowSet] /\ \A q \in Task : rows'[q].retries = rows[q].retries
                          /\ (rows'[q].state = "dead_letter" => rows[q].state = "dead_letter")
        BY <2>1, <1>0, ReclaimedRows
    <2>3. Free /\ UNCHANGED <<lock, mine, failures>> /\ call' = [call EXCEPT ![w].pc = "select"]
        BY <1>3 DEF LeaseReclaim
    <2>4. call' \in [Worker -> CallSet] /\ \A v \in Worker : call'[v] = call[v] \/ call'[v].pc = "select"
        BY <2>3, <1>0 DEF CallSet
    <2>5. TypeOK'
        BY <2>2, <2>3, <2>4, <1>0 DEF TypeOK, RowSet, CallSet
    <2> QED
        BY <2>2, <2>3, <2>4, <2>5, FreeFrame
<1>4. ASSUME NEW w \in Worker, NEW t \in Task, Heartbeat(w, t) PROVE QueueInv'
    <2>1. PICK a \in 0..MaxWait : rows' = [rows EXCEPT ![t].left = Duration - a]
        BY <1>4 DEF Heartbeat
    <2>2. rows' \in [Task -> RowSet] /\ \A q \in Task : rows'[q].retries = rows[q].retries
                          /\ rows'[q].state = rows[q].state
        BY <2>1, <1>0, <1>a DEF RowSet
    <2>3. Free /\ UNCHANGED <<lock, call, mine, failures>>
        BY <1>4 DEF Heartbeat
    <2>4. TypeOK'
        BY <2>2, <2>3, <1>0 DEF TypeOK, RowSet
    <2> QED
        BY <2>2, <2>3, <2>4, FreeFrame
<1>5. ASSUME NEW w \in Worker, NEW t \in Task, CompleteTask(w, t) PROVE QueueInv'
    <2>1. rows' = rows \/ rows' = [rows EXCEPT ![t] = Ended(@, "completed")]
        BY <1>5 DEF CompleteTask
    <2>2. rows' \in [Task -> RowSet] /\ \A q \in Task : rows'[q].retries = rows[q].retries
                          /\ (rows'[q].state = "dead_letter" => rows[q].state = "dead_letter")
        BY <2>1, <1>0, EndedRow
    <2>3. Free /\ UNCHANGED <<lock, call, failures>> /\ mine' \in [Worker -> SUBSET Task]
        BY <1>5, <1>0 DEF CompleteTask
    <2>4. TypeOK'
        BY <2>2, <2>3, <1>0 DEF TypeOK, RowSet
    <2> QED
        BY <2>2, <2>3, <2>4, FreeFrame
<1>6. ASSUME RetryDlq PROVE QueueInv'
    <2>1. PICK S \in {DeadLetters} \cup {{t} : t \in DeadLetters}, a \in 0..MaxWait :
              rows' = [t \in Task |-> IF t \in S THEN [Requeued(rows[t], -a) EXCEPT !.retries = 0] ELSE rows[t]]
        BY <1>6 DEF RetryDlq
    <2>2. \A t \in Task : LET q == [Requeued(rows[t], -a) EXCEPT !.retries = 0]
                          IN q \in RowSet /\ q.retries = 0 /\ q.state = "pending"
        <3>1. \A t \in Task : Requeued(rows[t], -a) \in RowSet /\ Requeued(rows[t], -a).state = "pending"
            BY <1>0, <1>a, RequeuedRow
        <3> QED
            BY <3>1 DEF RowSet
    <2>3. rows' \in [Task -> RowSet]
          /\ \A q \in Task : /\ rows'[q].retries = rows[q].retries \/ rows'[q].retries = 0
                             /\ rows'[q].state = "dead_letter" => rows[q].state = "dead_letter"
        BY <2>1, <2>2, <1>0
    <2>4. Free /\ UNCHANGED <<lock, call, mine, failures>>
        BY <1>6 DEF RetryDlq
    <2>5. TypeOK'
        BY <2>3, <2>4, <1>0 DEF TypeOK, RowSet
    <2> QED
        BY <2>3, <2>4, <2>5, FreeFrame
<1>7. ASSUME ClearDlq PROVE QueueInv'
    <2>1. rows' = [t \in Task |-> IF t \in DeadLetters THEN [Ended(rows[t], "purged") EXCEPT !.retries = 0]
                                  ELSE rows[t]]
        BY <1>7 DEF ClearDlq
    <2>2. \A t \in Task : LET q == [Ended(rows[t], "purged") EXCEPT !.retries = 0]
                          IN q \in RowSet /\ q.retries = 0 /\ q.state = "purged"
        <3>1. \A t \in Task : Ended(rows[t], "purged") \in RowSet /\ Ended(rows[t], "purged").state = "purged"
            BY <1>0, EndedRow
        <3> QED
            BY <3>1 DEF RowSet
    <2>3. rows' \in [Task -> RowSet]
          /\ \A q \in Task : /\ rows'[q].retries = rows[q].retries \/ rows'[q].retries = 0
                             /\ rows'[q].state = "dead_letter" => rows[q].state = "dead_letter"
        BY <2>1, <2>2, <1>0
    <2>4. Free /\ UNCHANGED <<lock, call, mine, failures>>
        BY <1>7 DEF ClearDlq
    <2>5. TypeOK'
        BY <2>3, <2>4, <1>0 DEF TypeOK, RowSet
    <2> QED
        BY <2>3, <2>4, <2>5, FreeFrame
<1> QED
    BY <1>1, <1>2, <1>3, <1>4, <1>5, <1>6, <1>7

\* What the SELECT returns: all the candidates, or Limit of them.
LEMMA TopSelects ==
    ASSUME TypeOK, NEW a \in 0..MaxWait, NEW S \in SUBSET Task, Top(S, a)
    PROVE  /\ \A t \in S : rows[t].state = "pending" /\ rows[t].due <= -a
           /\ Cardinality(S) <= Limit
           /\ \A u \in Task \ S : rows[u].state = "pending" /\ rows[u].due <= -a =>
                  Cardinality(S) = Limit /\ \A t \in S : Priority[t] <= Priority[u]
<1> DEFINE E == {t \in Task : rows[t].state = "pending" /\ rows[t].due <= -a}
<1>1. /\ S \subseteq E
      /\ Cardinality(S) = IF Cardinality(E) < Limit THEN Cardinality(E) ELSE Limit
      /\ \A t \in S, u \in E \ S : Priority[t] < Priority[u] \/ Priority[t] = Priority[u]
    BY DEF Top
<1>2. IsFiniteSet(E)
    BY QueueAssumption, FS_Subset
<1>3. Cardinality(E) \in Nat /\ (Cardinality(S) = Cardinality(E) => S = E)
    BY <1>1, <1>2, FS_Subset, FS_CardinalityType
<1>4. Cardinality(S) <= Limit
    BY <1>1, <1>3, QueueAssumption
<1>5. \A t \in S, u \in E \ S : Priority[t] <= Priority[u]
    BY <1>1, QueueAssumption
<1>6. E \ S # {} => Cardinality(S) = Limit
    BY <1>1, <1>3
<1> QED
    BY <1>1, <1>4, <1>5, <1>6

LEMMA SelectKeepsInv ==
    ASSUME QueueInv, NEW w \in Worker, LeaseSelect(w)
    PROVE  QueueInv'
<1>0. /\ TypeOK
      /\ rows \in [Task -> RowSet] /\ call \in [Worker -> CallSet]
    BY Typed DEF QueueInv
<1>1. PICK a \in 0..MaxWait, S \in SUBSET Task :
          /\ Top(S, a)
          /\ call' = [call EXCEPT ![w] = IF S = {} THEN Idle
                                         ELSE [Idle EXCEPT !.pc = "update", !.age = a, !.seen = S]]
          /\ lock' = IF S = {} THEN NoWorker ELSE w
    BY DEF LeaseSelect
<1>2. Free /\ UNCHANGED <<rows, mine, failures>>
    BY DEF LeaseSelect
<1>3. \A v \in Worker \ {w} : call'[v] = call[v] /\ call[v].pc # "update"
    BY <1>0, <1>1, <1>2, FreeNoLease
<1>4. CASE S = {}
    <2>1. call'[w] = Idle /\ call' \in [Worker -> CallSet] /\ lock' = NoWorker
        BY <1>0, <1>1, <1>4, IdleCall
    <2>2. TypeOK'
        BY <1>0, <1>2, <2>1 DEF TypeOK, CallSet
    <2>3. \A v \in Worker : call'[v] = call[v] \/ call'[v].pc \in {"idle", "select"}
        BY <1>3, <2>1, IdleCall
    <2> QED
        BY <1>2, <2>2, <2>3, FreeFrame
<1>5. CASE S # {}
    <2> DEFINE c == [Idle EXCEPT !.pc = "update", !.age = a, !.seen = S]
    <2>1. c \in CallSet /\ c.pc = "update" /\ c.age = a /\ c.seen = S
        BY UpdateCall
    <2>2. call' = [call EXCEPT ![w] = c] /\ lock' = w
        BY <1>1, <1>5
    <2> HIDE DEF c
    <2>3. call'[w] = c /\ call' \in [Worker -> CallSet]
        BY <1>0, <2>1, <2>2
    <2>4. TypeOK'
        BY <1>0, <1>2, <2>2, <2>3 DEF TypeOK, CallSet
    <2>5. /\ \A t \in S : rows[t].state = "pending" /\ rows[t].due <= -a
          /\ Cardinality(S) <= Limit
          /\ \A u \in Task \ S : rows[u].state = "pending" /\ rows[u].due <= -a =>
                 Cardinality(S) = Limit /\ \A t \in S : Priority[t] <= Priority[u]
        BY <1>0, <1>1, TopSelects
    <2>6. LeaseOK'
        BY <1>2, <1>3, <1>5, <2>1, <2>2, <2>3, <2>5 DEF LeaseOK, Eligible
    <2>7. FailureOK'
        BY <1>2, <1>3, <2>1, <2>3 DEF QueueInv, FailureOK, Earned
    <2> QED
        BY <2>4, <2>6, <2>7 DEF QueueInv
<1> QED
    BY <1>4, <1>5

\* The rows a lease writes.
LEMMA LeasedRows ==
    ASSUME TypeOK, NEW w \in Worker, LeaseUpdate(w)
    PROVE  /\ rows' \in [Task -> RowSet]
           /\ \A t \in call[w].seen : /\ rows'[t].state = "running" /\ rows'[t].by = w
                                      /\ rows'[t].retries = rows[t].retries
           /\ \A t \in Task \ call[w].seen : rows'[t] = rows[t]
           /\ call[w].seen \subseteq Task
<1> DEFINE n == Duration - call[w].age
           r(t) == [rows[t] EXCEPT !.state = "running", !.by = w, !.left = n]
<1>1. rows \in [Task -> RowSet] /\ call \in [Worker -> CallSet]
    BY Typed
<1>2. n \in Int /\ call[w].seen \subseteq Task
    BY <1>1, QueueAssumption DEF CallSet
<1>3. rows' = [t \in Task |-> IF t \in call[w].seen THEN r(t) ELSE rows[t]]
    BY DEF LeaseUpdate, Leased
<1> HIDE DEF n
<1>4. ASSUME NEW t \in Task
      PROVE  r(t) \in RowSet /\ r(t).state = "running" /\ r(t).by = w /\ r(t).retries = rows[t].retries
    <2> DEFINE r1 == [rows[t] EXCEPT !.state = "running"]
               r2 == [r1 EXCEPT !.by = w]
    <2>1. r1 \in RowSet /\ r1.state = "running" /\ r1.retries = rows[t].retries
        BY <1>1 DEF RowSet, State
    <2>2. r2 \in RowSet /\ r2.state = "running" /\ r2.retries = rows[t].retries /\ r2.by = w
        <3> HIDE DEF r1
        <3> QED
            BY <2>1 DEF RowSet
    <2>3. r(t) = [r2 EXCEPT !.left = n]
        OBVIOUS
    <2> HIDE DEF r2, r
    <2> QED
        BY <1>2, <2>2, <2>3 DEF RowSet
<1> HIDE DEF r
<1> QED
    BY <1>1, <1>2, <1>3, <1>4

LEMMA UpdateKeepsInv ==
    ASSUME QueueInv, NEW w \in Worker, LeaseUpdate(w)
    PROVE  QueueInv'
<1>0. /\ TypeOK /\ call[w].pc = "update" /\ lock = w
      /\ rows \in [Task -> RowSet] /\ call \in [Worker -> CallSet] /\ mine \in [Worker -> SUBSET Task]
    BY Typed DEF QueueInv, LeaseOK, LeaseUpdate
<1>1. call' = [call EXCEPT ![w] = Idle] /\ lock' = NoWorker /\ UNCHANGED failures
    BY DEF LeaseUpdate
<1>2. /\ rows' \in [Task -> RowSet]
      /\ \A t \in Task : /\ rows'[t].retries = rows[t].retries
                         /\ rows'[t].state = "dead_letter" => rows[t].state = "dead_letter"
    BY <1>0, LeasedRows
<1>3. mine' \in [Worker -> SUBSET Task]
    BY <1>0, LeasedRows DEF LeaseUpdate
<1>4. call'[w] = Idle /\ call' \in [Worker -> CallSet] /\ \A v \in Worker \ {w} : call'[v] = call[v]
    BY <1>0, <1>1, IdleCall
<1>5. TypeOK'
    BY <1>0, <1>1, <1>2, <1>3, <1>4 DEF TypeOK, RowSet, CallSet
<1>6. \A v \in Worker : call'[v].pc # "update"
    BY <1>0, <1>4, IdleCall DEF QueueInv, LeaseOK
<1>7. FailureOK'
    BY <1>1, <1>2, <1>4, IdleCall DEF QueueInv, FailureOK, Earned
<1> QED
    BY <1>5, <1>6, <1>7 DEF QueueInv, LeaseOK

LEMMA FailReadKeepsInv ==
    ASSUME QueueInv, NEW w \in Worker, NEW t \in Task, FailRead(w, t)
    PROVE  QueueInv'
<1>0. /\ TypeOK /\ Free /\ UNCHANGED <<rows, lock, failures>>
      /\ rows \in [Task -> RowSet] /\ call \in [Worker -> CallSet] /\ mine \in [Worker -> SUBSET Task]
    BY Typed DEF QueueInv, FailRead
<1>1. mine' \in [Worker -> SUBSET Task]
    BY <1>0 DEF FailRead
<1>2. CASE call' = call
    <2>1. TypeOK'
        BY <1>0, <1>1, <1>2 DEF TypeOK
    <2> QED
        BY <1>0, <1>2, <2>1, FreeFrame
<1>3. CASE call' # call
    <2> DEFINE c == [Idle EXCEPT !.pc = "fail", !.seen = {t}, !.retries = rows[t].retries]
    <2>1. rows[t].retries \in Nat
        BY <1>0 DEF RowSet
    <2>2. c \in CallSet /\ c.pc = "fail" /\ c.seen = {t} /\ c.retries = rows[t].retries
        BY <2>1, FailCall
    <2>3. call' = [call EXCEPT ![w] = c]
        BY <1>3 DEF FailRead
    <2> HIDE DEF c
    <2>4. call'[w] = c /\ call' \in [Worker -> CallSet] /\ \A v \in Worker \ {w} : call'[v] = call[v]
        BY <1>0, <2>2, <2>3
    <2>5. TypeOK'
        BY <1>0, <1>1, <2>4 DEF TypeOK, CallSet
    <2>6. \A v \in Worker : call'[v].pc # "update"
        BY <1>0, <2>2, <2>4, FreeNoLease
    <2>7. FailureOK'
        BY <1>0, <2>2, <2>4 DEF QueueInv, FailureOK, Earned
    <2> QED
        BY <2>5, <2>6, <2>7 DEF QueueInv, LeaseOK
<1> QED
    BY <1>2, <1>3

LEMMA FailWriteKeepsInv ==
    ASSUME QueueInv, NEW w \in Worker, FailWrite(w)
    PROVE  QueueInv'
<1>0. /\ TypeOK /\ Free /\ UNCHANGED <<lock, mine>> /\ call[w].pc = "fail"
      /\ rows \in [Task -> RowSet] /\ call \in [Worker -> CallSet] /\ failures \in [Task -> Nat]
    BY Typed DEF QueueInv, FailWrite
<1>1. PICK t \in call[w].seen :
          IF rows[t].state # "running" THEN UNCHANGED <<rows, failures>>
          ELSE /\ rows' = [rows EXCEPT ![t] = Failed(@, t, call[w].retries, call[w].age)]
               /\ failures' = [failures EXCEPT ![t] = IF @ > MaxRetries[t] THEN @ ELSE @ + 1]
    BY DEF FailWrite
<1>2. call' = [call EXCEPT ![w] = Idle]
    BY DEF FailWrite
<1>3. call'[w] = Idle /\ call' \in [Worker -> CallSet] /\ \A v \in Worker \ {w} : call'[v] = call[v]
    BY <1>0, <1>2, IdleCall
<1>4. CASE UNCHANGED <<rows, failures>>
    <2>1. TypeOK'
        BY <1>0, <1>3, <1>4 DEF TypeOK, CallSet
    <2>2. \A v \in Worker : call'[v] = call[v] \/ call'[v].pc \in {"idle", "select"}
        BY <1>3, IdleCall
    <2> QED
        BY <1>0, <1>4, <2>1, <2>2, FreeFrame
<1>5. CASE ~UNCHANGED <<rows, failures>>
    <2> DEFINE n == call[w].retries
               r == Failed(rows[t], t, n, call[w].age)
    <2>1. t \in Task /\ n \in Nat /\ call[w].age \in 0..MaxWait /\ rows[t] \in RowSet /\ MaxRetries[t] \in Nat
        BY <1>0, QueueAssumption DEF CallSet
    <2>2. /\ r \in RowSet /\ r.retries = n + 1
          /\ r.state = "dead_letter" => n + 1 > MaxRetries[t]
        BY <2>1, FailedRow
    <2>3. /\ rows' = [rows EXCEPT ![t] = r]
          /\ failures' = [failures EXCEPT ![t] = IF @ > MaxRetries[t] THEN @ ELSE @ + 1]
        BY <1>1, <1>5
    <2> HIDE DEF r
    <2>4. /\ rows' \in [Task -> RowSet] /\ rows'[t] = r
          /\ failures' \in [Task -> Nat]
          /\ failures'[t] = IF failures[t] > MaxRetries[t] THEN failures[t] ELSE failures[t] + 1
          /\ \A q \in Task \ {t} : rows'[q] = rows[q] /\ failures'[q] = failures[q]
        BY <1>0, <2>1, <2>2, <2>3
    <2>5. TypeOK'
        BY <1>0, <1>3, <2>4 DEF TypeOK, RowSet, CallSet
    <2>6. Earned(t, n)
        BY <1>0 DEF QueueInv, FailureOK
    <2>7. failures[t] \in Nat
        BY <1>0, <2>1
    <2>8. /\ n + 1 <= failures'[t] \/ failures'[t] > MaxRetries[t]
          /\ (r.state = "dead_letter" => failures'[t] > MaxRetries[t])
        BY <2>1, <2>2, <2>4, <2>6, <2>7 DEF Earned
    <2>9. \A q \in Task, k \in Nat : Earned(q, k) => Earned(q, k)'
        BY <1>0, <2>1, <2>4 DEF Earned
    <2>10. \A q \in Task : /\ rows'[q].retries <= failures'[q] \/ failures'[q] > MaxRetries[q]
                           /\ rows'[q].state = "dead_letter" => failures'[q] > MaxRetries[q]
        <3>1. \A q \in Task : rows[q].retries \in Nat
            BY <1>0 DEF RowSet
        <3> QED
            BY <2>2, <2>4, <2>8, <2>9, <3>1 DEF QueueInv, FailureOK, Earned
    <2>11. \A v \in Worker : call'[v].pc = "fail" => \A q \in call'[v].seen :
              call'[v].retries <= failures'[q] \/ failures'[q] > MaxRetries[q]
        <3>1. ASSUME NEW v \in Worker, call'[v].pc = "fail", NEW q \in call'[v].seen
              PROVE  call'[v].retries <= failures'[q] \/ failures'[q] > MaxRetries[q]
            <4>1. v # w /\ call'[v] = call[v]
                BY <1>3, <3>1, IdleCall
            <4>2. q \in Task /\ call[v].retries \in Nat /\ Earned(q, call[v].retries)
                BY <1>0, <3>1, <4>1 DEF CallSet, QueueInv, FailureOK
            <4> QED
                BY <2>9, <4>1, <4>2 DEF Earned
        <3> QED
            BY <3>1
    <2>12. \A v \in Worker : call'[v].pc # "update"
        BY <1>0, <1>3, FreeNoLease, IdleCall
    <2> QED
        BY <2>5, <2>10, <2>11, <2>12 DEF QueueInv, LeaseOK, FailureOK, Earned
<1> QED
    BY <1>4, <1>5

LEMMA RaiseKeepsInv ==
    ASSUME QueueInv, NEW w \in Worker, Raise(w)
    PROVE  QueueInv'
<1>0. /\ TypeOK /\ UNCHANGED <<rows, mine, failures>> /\ call \in [Worker -> CallSet]
      /\ call' = [call EXCEPT ![w] = Idle] /\ lock' = IF lock = w THEN NoWorker ELSE lock
    BY Typed DEF QueueInv, Raise
<1>1. call'[w] = Idle /\ call' \in [Worker -> CallSet] /\ \A v \in Worker \ {w} : call'[v] = call[v]
    BY <1>0, IdleCall
<1>2. TypeOK'
    BY <1>0, <1>1 DEF TypeOK, CallSet
<1>3. LeaseOK'
    BY <1>0, <1>1, IdleCall DEF QueueInv, LeaseOK, Eligible
<1>4. FailureOK'
    BY <1>0, <1>1, IdleCall DEF QueueInv, FailureOK, Earned
<1> QED
    BY <1>2, <1>3, <1>4 DEF QueueInv

LEMMA CrashKeepsInv ==
    ASSUME QueueInv, Crash
    PROVE  QueueInv'
<1>0. TypeOK /\ UNCHANGED <<rows, failures>>
    BY DEF QueueInv, Crash
<1>1. /\ \A v \in Worker : call'[v] = Idle
      /\ call' \in [Worker -> CallSet] /\ mine' \in [Worker -> SUBSET Task] /\ lock' = NoWorker
    BY IdleCall DEF Crash
<1>2. TypeOK'
    BY <1>0, <1>1 DEF TypeOK, CallSet
<1>3. LeaseOK'
    BY <1>1, IdleCall DEF LeaseOK
<1>4. FailureOK'
    BY <1>0, <1>1, IdleCall DEF QueueInv, FailureOK, Earned
<1> QED
    BY <1>2, <1>3, <1>4 DEF QueueInv

\* What a tick does to the times of a row.
LEMMA TickedRows ==
    ASSUME TypeOK, Tick
    PROVE  /\ rows' \in [Task -> RowSet]
           /\ \A t \in Task :
                  /\ rows'[t].state = rows[t].state /\ rows'[t].by = rows[t].by
                  /\ rows'[t].retries = rows[t].retries
                  /\ rows[t].state \in {"pending", "running"} => rows'[t].due = AtLeast(rows[t].due - 1, -MaxWait)
                  /\ rows[t].state = "running" => rows'[t].left = AtLeast(rows[t].left - 1, -MaxWait - 1)
<1>1. rows \in [Task -> RowSet]
    BY Typed
<1>2. \A i \in Int : AtLeast(i - 1, -MaxWait) \in Int /\ AtLeast(i - 1, -MaxWait - 1) \in Int
    BY QueueAssumption DEF AtLeast
<1> DEFINE due(t) == AtLeast(rows[t].due - 1, -MaxWait)
           left(t) == AtLeast(rows[t].left - 1, -MaxWait - 1)
<1>3. \A t \in Task : due(t) \in Int /\ left(t) \in Int
    BY <1>1, <1>2 DEF RowSet
<1>4. \A t \in Task : rows'[t] = CASE rows[t].state = "pending" -> [rows[t] EXCEPT !.due = due(t)]
                                   [] rows[t].state = "running" -> [rows[t] EXCEPT !.due = due(t), !.left = left(t)]
                                   [] OTHER -> rows[t]
    BY DEF Tick
<1> HIDE DEF due, left
<1>5. ASSUME NEW t \in Task
      PROVE  /\ rows'[t] \in RowSet
             /\ rows'[t].state = rows[t].state /\ rows'[t].by = rows[t].by
             /\ rows'[t].retries = rows[t].retries
             /\ rows[t].state \in {"pending", "running"} => rows'[t].due = due(t)
             /\ rows[t].state = "running" => rows'[t].left = left(t)
    <2>1. rows[t] \in RowSet /\ due(t) \in Int /\ left(t) \in Int
        BY <1>1, <1>3
    <2>2. CASE rows[t].state = "pending"
        <3>1. rows'[t] = [rows[t] EXCEPT !.due = due(t)]
            BY <1>4, <2>2
        <3> QED
            BY <2>1, <2>2, <3>1 DEF RowSet
    <2>3. CASE rows[t].state = "running"
        <3> DEFINE r1 == [rows[t] EXCEPT !.due = due(t)]
        <3>1. rows'[t] = [r1 EXCEPT !.left = left(t)]
            BY <1>4, <2>3
        <3>2. /\ r1 \in RowSet /\ r1.state = rows[t].state /\ r1.by = rows[t].by
              /\ r1.retries = rows[t].retries /\ r1.due = due(t)
            BY <2>1 DEF RowSet
        <3> HIDE DEF r1
        <3> QED
            BY <2>1, <2>3, <3>1, <3>2 DEF RowSet
    <2>4. CASE rows[t].state \notin {"pending", "running"}
        <3>1. rows'[t] = rows[t]
            BY <1>4, <2>4
        <3> QED
            BY <2>1, <2>4, <3>1
    <2> QED
        BY <2>2, <2>3, <2>4
<1>6. rows' \in [Task -> RowSet]
    BY <1>5 DEF Tick
<1> QED
    BY <1>5, <1>6 DEF due, left

\* A clock tick ages the call as much as the rows, so the candidates of a
\* lease under way do not change.
LEMMA TickKeepsInv ==
    ASSUME QueueInv, Tick
    PROVE  QueueInv'
<1>0. /\ TypeOK /\ UNCHANGED <<lock, mine, failures>>
      /\ rows \in [Task -> RowSet] /\ call \in [Worker -> CallSet]
    BY Typed DEF QueueInv, Tick
<1>1. /\ rows' \in [Task -> RowSet]
      /\ \A t \in Task :
             /\ rows'[t].state = rows[t].state /\ rows'[t].by = rows[t].by
             /\ rows'[t].retries = rows[t].retries
             /\ rows[t].state \in {"pending", "running"} => rows'[t].due = AtLeast(rows[t].due - 1, -MaxWait)
    BY <1>0, TickedRows
<1>2. ASSUME NEW w \in Worker
      PROVE  /\ call'[w] \in CallSet
             /\ call'[w].pc = call[w].pc /\ call'[w].seen = call[w].seen /\ call'[w].retries = call[w].retries
             /\ call[w].pc = "update" => call'[w].age = call[w].age + 1 /\ call[w].age + 1 <= MaxWait
    <2>1. call'[w] = IF call[w].pc \in {"update", "fail"} THEN [call[w] EXCEPT !.age = @ + 1] ELSE call[w]
        BY DEF Tick
    <2>2. call[w].pc \in {"update", "fail"} => call[w].age < MaxWait
        BY DEF Tick
    <2>3. call[w] \in CallSet /\ MaxWait \in Nat
        BY <1>0, QueueAssumption
    <2> QED
        BY <2>1, <2>2, <2>3 DEF CallSet
<1>3. call' \in [Worker -> CallSet]
    BY <1>2 DEF Tick
<1>4. TypeOK'
    BY <1>0, <1>1, <1>3 DEF TypeOK, RowSet, CallSet
<1>5. ASSUME NEW w \in Worker, call[w].pc = "update", NEW u \in Task,
             rows'[u].state = "pending", rows'[u].due <= -call'[w].age
      PROVE  Eligible(u, w)
    <2>1. rows[u].state = "pending" /\ rows'[u].due = AtLeast(rows[u].due - 1, -MaxWait)
        BY <1>1, <1>5
    <2>2. call'[w].age = call[w].age + 1 /\ call[w].age + 1 <= MaxWait
        BY <1>2, <1>5
    <2>3. rows[u].due \in Int /\ call[w].age \in Int /\ MaxWait \in Int
        BY <1>0, QueueAssumption DEF RowSet, CallSet
    <2> QED
        BY <1>5, <2>1, <2>2, <2>3 DEF AtLeast, Eligible
<1>6. LeaseOK'
    <2> SUFFICES ASSUME NEW w \in Worker, call'[w].pc = "update"
                 PROVE  /\ lock' = w
                        /\ call'[w].seen # {}
                        /\ \A t \in call'[w].seen : rows'[t].state = "pending"
                        /\ Cardinality(call'[w].seen) <= Limit
                        /\ \A u \in Task \ call'[w].seen :
                               rows'[u].state = "pending" /\ rows'[u].due <= -call'[w].age =>
                                   /\ Cardinality(call'[w].seen) = Limit
                                   /\ \A t \in call'[w].seen : Priority[t] <= Priority[u]
        BY DEF LeaseOK, Eligible
    <2>1. call[w].pc = "update" /\ call'[w].seen = call[w].seen /\ call[w].seen \subseteq Task
        BY <1>0, <1>2 DEF CallSet
    <2>2. \A t \in call[w].seen : rows'[t].state = "pending"
        BY <1>1, <2>1 DEF QueueInv, LeaseOK
    <2> QED
        BY <1>0, <1>5, <2>1, <2>2 DEF QueueInv, LeaseOK
<1>7. FailureOK'
    BY <1>0, <1>1, <1>2 DEF QueueInv, FailureOK, Earned
<1> QED
    BY <1>4, <1>6, <1>7 DEF QueueInv

LEMMA QueueInvNext == QueueInv /\ [Next]_vars => QueueInv'
<1> SUFFICES ASSUME QueueInv, [Next]_vars PROVE QueueInv'
    OBVIOUS
<1>1. CASE UNCHANGED vars
    BY <1>1 DEF vars, QueueInv, TypeOK, LeaseOK, FailureOK, Eligible, Earned
<1>2. CASE Next
    BY <1>2, QuietSteps, SelectKeepsInv, UpdateKeepsInv, FailReadKeepsInv, FailWriteKeepsInv,
       RaiseKeepsInv, CrashKeepsInv, TickKeepsInv
       DEF Next
<1> QED
    BY <1>1, <1>2

LEMMA QueueInvHolds == Spec => []QueueInv
BY QueueInvInit, QueueInvNext, PTL DEF Spec

\* A task is given up only after one failure more than its retries is on
\* record, for any number of workers, stale reads and replays.
THEOREM DeadAfterFailuresHolds == Spec => []DeadAfterFailures
<1>1. QueueInv => DeadAfterFailures
    BY DEF QueueInv, FailureOK, DeadAfterFailures
<1> QED
    BY <1>1, QueueInvHolds, PTL

(***************************************************************************)
(* The refinement                                                          *)
(***************************************************************************)

Ripe == {t \in Task : rows[t].state = "pending" /\ rows[t].due <= -MaxWait}
Lapsed == {t \in Task : rows[t].state = "running" /\ rows[t].left < 0}

LEMMA AbstractInit == Init => Abstract!AInit
BY DEF Init, Abstract!AInit

\* A step that changes no row changes nothing of the abstract queue.
LEMMA Stutter ==
    ASSUME UNCHANGED rows
    PROVE  UNCHANGED (Abstract!avars)
BY DEF Abstract!avars

\* A step that moves the tasks of S, and no others, without a lease.
LEMMA TransferMapped ==
    ASSUME TypeOK, NEW S \in SUBSET Task, S # {}, NEW from, NEW to, to # "running",
           \A t \in S : /\ rows[t].state = from
                        /\ rows'[t].state = to /\ rows'[t].by = NoWorker,
           \A t \in Task \ S : rows'[t] = rows[t]
    PROVE  Abstract!Transfer(S, from, to)
BY DEF Abstract!Transfer

\* Reclaiming takes back leases that have lapsed, if any.
LEMMA ReclaimMapped ==
    ASSUME TypeOK, NEW a \in 0..MaxWait, Reclaimed(a)
    PROVE  [Abstract!ANext]_(Abstract!avars)
<1> DEFINE S == {t \in Task : rows'[t] # rows[t]}
<1>1. \A t \in Task :
         \/ rows'[t] = rows[t]
         \/ /\ rows[t].state = "running" /\ rows[t].left < 0
            /\ rows'[t].state = "pending" /\ rows'[t].by = NoWorker
    BY ReclaimedRows
<1>2. CASE S = {}
    <2>1. \A t \in Task : rows'[t] = rows[t]
        BY <1>2
    <2>2. rows' = rows
        BY <2>1, ReclaimedRows, Typed
    <2> QED
        BY <2>2, Stutter
<1>3. CASE S # {}
    <2>1. PICK C \in SUBSET Task : C = S
        OBVIOUS
    <2>2. Abstract!Reclaim(C)
        BY <1>1, <1>3, <2>1 DEF Abstract!Reclaim
    <2> QED
        BY <2>1, <2>2 DEF Abstract!ANext
<1> QED
    BY <1>2, <1>3

\* The second statement of a lease: nothing happened since the first.
LEMMA LeaseMapped ==
    ASSUME QueueInv, NEW w \in Worker, LeaseUpdate(w)
    PROVE  Abstract!ANext
<1>0. /\ TypeOK /\ call[w].pc = "update" /\ call[w].age \in 0..MaxWait
      /\ rows \in [Task -> RowSet]
    BY Typed DEF QueueInv, LeaseUpdate, TypeOK
<1>s. PICK S : S = call[w].seen
    OBVIOUS
<1>1. /\ S \subseteq Task /\ S # {} /\ Cardinality(S) <= Limit
      /\ \A t \in S : rows[t].state = "pending"
      /\ \A u \in Task \ S : rows[u].state = "pending" /\ rows[u].due <= -call[w].age =>
             Cardinality(S) = Limit /\ \A t \in S : Priority[t] <= Priority[u]
    BY <1>0, <1>s, LeasedRows DEF QueueInv, LeaseOK, Eligible
<1>2. /\ \A t \in S : rows'[t].state = "running" /\ rows'[t].by = w
      /\ \A t \in Task \ S : rows'[t] = rows[t]
    BY <1>0, <1>s, LeasedRows
<1>3. \A u \in Ripe : rows[u].state = "pending" /\ rows[u].due <= -call[w].age
    BY <1>0, QueueAssumption DEF Ripe, RowSet
<1>4. \A u \in Ripe \ S : Cardinality(S) = Limit /\ \A t \in S : Priority[t] <= Priority[u]
    BY <1>1, <1>3 DEF Ripe
<1>5. Abstract!Cardinality(S) = Cardinality(S)
    BY DEF Abstract!Cardinality, Cardinality
<1>6. Abstract!Lease(w, S)
    BY <1>1, <1>2, <1>4, <1>5 DEF Abstract!Lease, Abstract!Waiting, Ripe
<1> QED
    BY <1>1, <1>6 DEF Abstract!ANext

LEMMA HeartbeatMapped ==
    ASSUME QueueInv, NEW w \in Worker, NEW t \in Task, Heartbeat(w, t)
    PROVE  [Abstract!ANext]_(Abstract!avars)
<1>1. PICK a \in 0..MaxWait : rows' = [rows EXCEPT ![t].left = Duration - a]
    BY DEF Heartbeat
<1>2. rows \in [Task -> RowSet] /\ rows[t].state = "running"
    BY Typed DEF QueueInv, Heartbeat
<1>3. /\ \A q \in Task \ {t} : rows'[q] = rows[q]
      /\ \A q \in Task : rows'[q].state = rows[q].state /\ rows'[q].by = rows[q].by /\ rows'[q].due = rows[q].due
    BY <1>1, <1>2 DEF RowSet
<1>4. /\ [q \in Task |-> rows'[q].state] = [q \in Task |-> rows[q].state]
      /\ [q \in Task |-> rows'[q].by] = [q \in Task |-> rows[q].by]
      /\ Ripe' = Ripe
    BY <1>3 DEF Ripe
<1>5. Lapsed' = Lapsed \/ Lapsed' = Lapsed \ {t} \/ Lapsed' = Lapsed \cup {t}
    BY <1>3 DEF Lapsed
<1>6. CASE Lapsed' = Lapsed
    BY <1>4, <1>6 DEF Abstract!avars, Ripe, Lapsed
<1>7. CASE Lapsed' = Lapsed \ {t}
    <2>1. Abstract!Renew(t)
        BY <1>2, <1>4, <1>7 DEF Abstract!Renew, Ripe, Lapsed
    <2> QED
        BY <2>1 DEF Abstract!ANext
\* A renewal from so long ago that it has lapsed already.
<1>8. CASE Lapsed' = Lapsed \cup {t}
    <2>1. Abstract!TimePasses
        BY <1>2, <1>4, <1>8 DEF Abstract!TimePasses, Abstract!Waiting, Ripe, Lapsed
    <2> QED
        BY <2>1 DEF Abstract!ANext
<1> QED
    BY <1>5, <1>6, <1>7, <1>8

LEMMA TickMapped ==
    ASSUME QueueInv, Tick
    PROVE  Abstract!ANext
<1>1. /\ \A t \in Task :
             /\ rows'[t].state = rows[t].state /\ rows'[t].by = rows[t].by
             /\ rows[t].state \in {"pending", "running"} => rows'[t].due = AtLeast(rows[t].due - 1, -MaxWait)
             /\ rows[t].state = "running" => rows'[t].left = AtLeast(rows[t].left - 1, -MaxWait - 1)
      /\ \A t \in Task : rows[t].due \in Int /\ rows[t].left \in Int
    BY TickedRows, Typed DEF QueueInv, RowSet
<1>2. /\ [q \in Task |-> rows'[q].state] = [q \in Task |-> rows[q].state]
      /\ [q \in Task |-> rows'[q].by] = [q \in Task |-> rows[q].by]
    BY <1>1
<1>3. Ripe \subseteq Ripe'
    BY <1>1, QueueAssumption DEF Ripe, AtLeast
<1>4. Lapsed \subseteq Lapsed'
    BY <1>1, QueueAssumption DEF Lapsed, AtLeast
<1>5. /\ \A t \in Ripe' : t \in Task /\ rows[t].state = "pending"
      /\ \A t \in Lapsed' : t \in Task /\ rows[t].state = "running"
    BY <1>1 DEF Ripe, Lapsed
<1>6. Abstract!TimePasses
    BY <1>2, <1>3, <1>4, <1>5 DEF Abstract!TimePasses, Abstract!Waiting, Ripe, Lapsed
<1> QED
    BY <1>6 DEF Abstract!ANext

\* Operations that move tasks without a lease.
LEMMA EnqueueMapped ==
    ASSUME QueueInv, NEW t \in Task, Enqueue(t)
    PROVE  Abstract!ANext
<1>0. TypeOK /\ rows \in [Task -> RowSet] /\ rows[t].state = "absent"
    BY Typed DEF QueueInv, Enqueue
<1>1. PICK d \in {0, BaseDelay}, a \in 0..MaxWait : rows' = [rows EXCEPT ![t] = Requeued(@, d - a)]
    BY DEF Enqueue
<1>2. d - a \in Int
    BY QueueAssumption
<1>3. rows'[t].state = "pending" /\ rows'[t].by = NoWorker
    BY <1>0, <1>1, <1>2, RequeuedRow
<1>4. \A q \in Task \ {t} : rows'[q] = rows[q]
    BY <1>0, <1>1
<1>5. Abstract!Transfer({t}, "absent", "pending")
    BY <1>0, <1>3, <1>4, TransferMapped
<1> QED
    BY <1>5 DEF Abstract!ANext, Abstract!Offer

LEMMA CompleteMapped ==
    ASSUME QueueInv, NEW w \in Worker, NEW t \in Task, CompleteTask(w, t)
    PROVE  [Abstract!ANext]_(Abstract!avars)
<1>0. TypeOK /\ rows \in [Task -> RowSet]
    BY Typed DEF QueueInv
<1>1. CASE rows' = rows
    BY <1>1, Stutter
<1>2. CASE rows' # rows
    <2>1. rows[t].state = "running" /\ rows' = [rows EXCEPT ![t] = Ended(@, "completed")]
        BY <1>2 DEF CompleteTask
    <2>2. rows'[t].state = "completed" /\ rows'[t].by = NoWorker
        BY <1>0, <2>1, EndedRow
    <2>3. \A q \in Task \ {t} : rows'[q] = rows[q]
        BY <1>0, <2>1
    <2>4. Abstract!Transfer({t}, "running", "completed")
        BY <1>0, <2>1, <2>2, <2>3, TransferMapped
    <2> QED
        BY <2>4 DEF Abstract!ANext, Abstract!Complete
<1> QED
    BY <1>1, <1>2

LEMMA FailMapped ==
    ASSUME QueueInv, NEW w \in Worker, FailWrite(w)
    PROVE  [Abstract!ANext]_(Abstract!avars)
<1>0. TypeOK /\ rows \in [Task -> RowSet] /\ call \in [Worker -> CallSet]
    BY Typed DEF QueueInv
<1>1. PICK t \in call[w].seen :
          \/ rows' = rows
          \/ rows[t].state = "running" /\ rows' = [rows EXCEPT ![t] = Failed(@, t, call[w].retries, call[w].age)]
    BY DEF FailWrite
<1>2. CASE rows' = rows
    BY <1>2, Stutter
<1>3. CASE rows' # rows
    <2>1. rows[t].state = "running" /\ rows' = [rows EXCEPT ![t] = Failed(@, t, call[w].retries, call[w].age)]
        BY <1>1, <1>3
    <2>2. t \in Task /\ call[w].retries \in Nat /\ call[w].age \in 0..MaxWait
        BY <1>0 DEF CallSet
    <2>3. rows'[t].state \in {"pending", "dead_letter"} /\ rows'[t].by = NoWorker
        BY <1>0, <2>1, <2>2, FailedRow
    <2>4. \A q \in Task \ {t} : rows'[q] = rows[q]
        BY <1>0, <2>1
    <2>5. PICK to \in {"pending", "dead_letter"} : to = rows'[t].state
        BY <2>3
    <2>6. Abstract!Transfer({t}, "running", to)
        BY <1>0, <2>1, <2>2, <2>3, <2>4, <2>5, TransferMapped
    <2>7. Abstract!Transfer({t}, "running", "pending") \/ Abstract!Transfer({t}, "running", "dead_letter")
        BY <2>6
    <2> QED
        BY <2>2, <2>7 DEF Abstract!ANext, Abstract!Fail
<1> QED
    BY <1>2, <1>3

LEMMA RetryMapped ==
    ASSUME QueueInv, RetryDlq
    PROVE  [Abstract!ANext]_(Abstract!avars)
<1>0. TypeOK /\ rows \in [Task -> RowSet]
    BY Typed DEF QueueInv
<1>1. PICK S \in {DeadLetters} \cup {{t} : t \in DeadLetters}, a \in 0..MaxWait :
          rows' = [t \in Task |-> IF t \in S THEN [Requeued(rows[t], -a) EXCEPT !.retries = 0] ELSE rows[t]]
    BY DEF RetryDlq
<1>2. S \in SUBSET Task /\ \A t \in S : rows[t].state = "dead_letter"
    BY <1>1 DEF DeadLetters
<1>3. \A t \in S : rows'[t].state = "pending" /\ rows'[t].by = NoWorker
    <2>1. -a \in Int
        BY QueueAssumption
    <2>2. \A t \in Task : /\ Requeued(rows[t], -a) \in RowSet
                          /\ Requeued(rows[t], -a).state = "pending" /\ Requeued(rows[t], -a).by = NoWorker
        BY <1>0, <2>1, RequeuedRow
    <2>3. \A t \in Task : LET q == [Requeued(rows[t], -a) EXCEPT !.retries = 0]
                          IN q.state = "pending" /\ q.by = NoWorker
        BY <2>2 DEF RowSet
    <2> QED
        BY <1>1, <1>2, <2>3
<1>4. \A t \in Task \ S : rows'[t] = rows[t]
    BY <1>1
<1>5. CASE S = {}
    <2>1. rows' = rows
        BY <1>0, <1>1, <1>5
    <2> QED
        BY <2>1, Stutter
<1>6. CASE S # {}
    <2>1. Abstract!Transfer(S, "dead_letter", "pending")
        BY <1>0, <1>2, <1>3, <1>4, <1>6, TransferMapped
    <2> QED
        BY <1>2, <2>1 DEF Abstract!ANext, Abstract!Replay
<1> QED
    BY <1>5, <1>6

LEMMA ClearMapped ==
    ASSUME QueueInv, ClearDlq
    PROVE  [Abstract!ANext]_(Abstract!avars)
<1>0. TypeOK /\ rows \in [Task -> RowSet]
    BY Typed DEF QueueInv
<1>1. rows' = [t \in Task |-> IF t \in DeadLetters THEN [Ended(rows[t], "purged") EXCEPT !.retries = 0]
                              ELSE rows[t]]
    BY DEF ClearDlq
<1>2. DeadLetters \in SUBSET Task /\ \A t \in DeadLetters : rows[t].state = "dead_letter"
    BY DEF DeadLetters
<1>3. \A t \in DeadLetters : rows'[t].state = "purged" /\ rows'[t].by = NoWorker
    <2>1. \A t \in Task : /\ Ended(rows[t], "purged") \in RowSet
                          /\ Ended(rows[t], "purged").state = "purged" /\ Ended(rows[t], "purged").by = NoWorker
        BY <1>0, EndedRow
    <2>2. \A t \in Task : LET q == [Ended(rows[t], "purged") EXCEPT !.retries = 0]
                          IN q.state = "purged" /\ q.by = NoWorker
        BY <2>1 DEF RowSet
    <2> QED
        BY <1>1, <1>2, <2>2
<1>4. \A t \in Task \ DeadLetters : rows'[t] = rows[t]
    BY <1>1
<1>5. CASE DeadLetters = {}
    <2>1. rows' = rows
        BY <1>0, <1>1, <1>5
    <2> QED
        BY <2>1, Stutter
<1>6. CASE DeadLetters # {}
    <2>1. Abstract!Transfer(DeadLetters, "dead_letter", "purged")
        BY <1>0, <1>2, <1>3, <1>4, <1>6, TransferMapped
    <2> QED
        BY <1>2, <2>1 DEF Abstract!ANext, Abstract!Purge
<1> QED
    BY <1>5, <1>6

LEMMA QueueStepsMapped ==
    ASSUME QueueInv, [Next]_vars
    PROVE  [Abstract!ANext]_(Abstract!avars)
<1>1. CASE UNCHANGED rows
    BY <1>1, Stutter
<1>2. CASE GetStatus \/ \E w \in Worker : LeaseReclaim(w)
    BY <1>2, ReclaimMapped DEF QueueInv, GetStatus, LeaseReclaim
<1>3. CASE \E w \in Worker : LeaseSelect(w) \/ Raise(w) \/ \E t \in Task : FailRead(w, t)
    BY <1>1, <1>3 DEF LeaseSelect, Raise, FailRead
<1>4. CASE Crash
    BY <1>1, <1>4 DEF Crash
<1>5. CASE UNCHANGED vars
    BY <1>1, <1>5 DEF vars
<1> QED
    BY <1>2, <1>3, <1>4, <1>5, EnqueueMapped, RetryMapped, ClearMapped, TickMapped, LeaseMapped,
       FailMapped, HeartbeatMapped, CompleteMapped
       DEF Next

\* The queue's operations - leases of two statements, failures of two holds of
\* the lock, times read before waiting for it - implement atomic ones.
THEOREM AtomicQueueImplemented == Spec => ImplementsAtomicQueue
<1>1. QueueInv /\ [Next]_vars => [Abstract!ANext]_(Abstract!avars)
    BY QueueStepsMapped
<1> QED
    BY <1>1, QueueInvHolds, AbstractInit, PTL DEF Spec, ImplementsAtomicQueue, Abstract!ASpec
=============================================================================
