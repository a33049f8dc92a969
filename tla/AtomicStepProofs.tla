--------------------------- MODULE AtomicStepProofs ---------------------------
(***************************************************************************)
(* Proofs about the two modules that look inside what the goal engine's    *)
(* modules take as one step.                                               *)
(*                                                                         *)
(* PropagateLoop, for any graph, list of tasks and start: the loop leaves  *)
(* the rows of PropagateFailures.                                          *)
(*                                                                         *)
(* WorkerLeases, for any workers, lanes, capacities and callers of one     *)
(* process.  That all of them use the same store object, and so the same   *)
(* lock, is the assumption OneStore; callers in several processes do       *)
(* overfill a lane, because nothing else keeps them apart.                 *)
(***************************************************************************)
EXTENDS PropagateLoop, WorkerLeases, FiniteSetTheorems, TLAPS

(***************************************************************************)
(* The loop of propagate_failures                                          *)
(***************************************************************************)

\* The loop has nothing to do for t.
Settled(t) == initial[t].status = "PENDING" /\ deps[t] \cap failedOrBlocked # {} => t \in failedOrBlocked

\* What the loop has changed is what it has found out, which is never too much;
\* a pass without progress has settled the tasks behind it.
LoopInv ==
    /\ LoopTypeOK
    /\ FailedOrBlocked(initial) \subseteq failedOrBlocked
    /\ failedOrBlocked \subseteq Doomed(deps, initial)
    /\ \A t \in Task :
           rows[t] = IF t \in failedOrBlocked \ FailedOrBlocked(initial)
                     THEN [initial[t] EXCEPT !.status = "BLOCKED", !.truth = "BLOCKED"]
                     ELSE initial[t]
    /\ ~progress => \A n \in 1 .. Len(Order) : n < i => Settled(Order[n])
    /\ done => \A t \in Task : Settled(t)

LEMMA OrderFacts ==
    /\ Len(Order) \in Nat
    /\ \A n \in 1 .. Len(Order) : Order[n] \in Task
    /\ \A t \in Task : \E n \in 1 .. Len(Order) : Order[n] = t
BY OrderAssumption

\* What has failed is in every closed set, and so is what depends on it.
LEMMA DoomedGrows ==
    ASSUME NEW graph, NEW ts, NEW S \in SUBSET Doomed(graph, ts), NEW t \in Task,
           ts[t].status = "PENDING", graph[t] \cap S # {}
    PROVE  t \in Doomed(graph, ts)
BY DEF Doomed, ClosedUnderFailure

LEMMA LoopInvInit == LoopInit => LoopInv
<1> SUFFICES ASSUME LoopInit PROVE LoopInv
  OBVIOUS
<1>1. LoopTypeOK
  <2>1. deps \in [Task -> SUBSET Task] /\ initial \in [Task -> TaskRow]
    BY InputAssumption DEF LoopInit
  <2>2. 1 \in 1 .. Len(Order) + 1
    BY OrderFacts
  <2>3. QED
    BY <2>1, <2>2 DEF LoopInit, LoopTypeOK, FailedOrBlocked
<1>2. FailedOrBlocked(initial) \subseteq Doomed(deps, initial)
  BY DEF FailedOrBlocked, Doomed, ClosedUnderFailure
<1>3. \A n \in 1 .. Len(Order) : ~(n < i)
  BY OrderFacts DEF LoopInit
<1>4. QED
  BY <1>1, <1>2, <1>3 DEF LoopInit, LoopInv

LEMMA LoopInvStep ==
    ASSUME LoopInv, [LoopNext]_loopVars
    PROVE  LoopInv'
<1>a. /\ LoopTypeOK
      /\ FailedOrBlocked(initial) \subseteq failedOrBlocked
      /\ failedOrBlocked \subseteq Doomed(deps, initial)
      /\ \A t \in Task :
             rows[t] = IF t \in failedOrBlocked \ FailedOrBlocked(initial)
                       THEN [initial[t] EXCEPT !.status = "BLOCKED", !.truth = "BLOCKED"]
                       ELSE initial[t]
      /\ done => \A t \in Task : Settled(t)
  BY DEF LoopInv
<1>b. ~progress => \A n \in 1 .. Len(Order) : n < i => Settled(Order[n])
  BY DEF LoopInv
<1>c. i \in 1 .. Len(Order) + 1 /\ passes \in Nat
  BY <1>a DEF LoopTypeOK
<1>1. CASE Visit
  <2> DEFINE t == Order[i]
             hit == t \notin failedOrBlocked /\ rows[t].status = "PENDING" /\ deps[t] \cap failedOrBlocked # {}
             blocked == [rows EXCEPT ![t].status = "BLOCKED", ![t].truth = "BLOCKED"]
  <2>1. /\ ~done /\ i <= Len(Order) /\ i' = i + 1 /\ UNCHANGED <<deps, initial, passes, done>>
        /\ rows' = IF hit THEN blocked ELSE rows
        /\ failedOrBlocked' = IF hit THEN failedOrBlocked \cup {t} ELSE failedOrBlocked
        /\ progress' = (progress \/ hit)
    BY <1>1 DEF Visit
  <2>2. i \in 1 .. Len(Order) /\ i' \in 1 .. Len(Order) + 1
    BY <1>c, <2>1, OrderFacts
  <2>3. PICK u \in Task : u = t
    BY <2>2, OrderFacts
  <2>4. u \notin failedOrBlocked => rows[u] = initial[u]
    BY <1>a
  <2>5. CASE hit
    <3> DEFINE row == [initial[u] EXCEPT !.status = "BLOCKED", !.truth = "BLOCKED"]
    <3>1. rows' = [rows EXCEPT ![u] = row]
      BY <2>1, <2>3, <2>4, <2>5
    <3>2. row \in TaskRow
      BY <1>a DEF LoopTypeOK, TaskRow, TaskStatus, TruthStatus
    <3>3. failedOrBlocked' = failedOrBlocked \cup {u} /\ progress' = TRUE
      BY <2>1, <2>3, <2>5
    <3>4. u \in Doomed(deps, initial) /\ u \notin FailedOrBlocked(initial)
      BY <1>a, <2>3, <2>4, <2>5, DoomedGrows
    <3> HIDE DEF hit, blocked, t
    <3>5. LoopTypeOK'
      BY <1>a, <2>1, <2>2, <3>1, <3>2, <3>3 DEF LoopTypeOK
    <3>6. ASSUME NEW v \in Task
          PROVE  rows'[v] = IF v \in failedOrBlocked' \ FailedOrBlocked(initial)
                            THEN [initial[v] EXCEPT !.status = "BLOCKED", !.truth = "BLOCKED"]
                            ELSE initial[v]
      <4>1. rows'[v] = IF v = u THEN row ELSE rows[v]
        BY <1>a, <3>1 DEF LoopTypeOK
      <4>2. QED
        BY <1>a, <3>3, <3>4, <4>1
    <3>7. QED
      BY <1>a, <2>1, <3>3, <3>4, <3>5, <3>6 DEF LoopInv
  <2>6. CASE ~hit
    <3>1. UNCHANGED <<rows, failedOrBlocked, progress>>
      BY <1>a, <2>1, <2>6 DEF LoopTypeOK
    <3>2. Settled(Order[i])
      BY <2>3, <2>4, <2>6 DEF Settled
    <3> HIDE DEF hit, blocked, t
    <3>3. ASSUME NEW n \in 1 .. Len(Order), n < i', ~progress PROVE Settled(Order[n])
      <4>1. n < i \/ n = i
        BY <1>c, <2>1, <3>3, OrderFacts
      <4>2. QED
        BY <1>b, <3>2, <3>3, <4>1
    <3>4. LoopTypeOK'
      BY <1>a, <2>1, <2>2, <3>1 DEF LoopTypeOK
    <3>5. QED
      BY <1>a, <2>1, <3>1, <3>3, <3>4 DEF LoopInv, Settled
  <2>7. QED
    BY <2>5, <2>6
<1>2. CASE PassEnd
  <2>1. /\ i > Len(Order) /\ i' = 1 /\ done' = ~progress /\ progress' = FALSE /\ passes' = passes + 1
        /\ UNCHANGED <<deps, initial, rows, failedOrBlocked>>
    BY <1>2 DEF PassEnd
  <2>2. ASSUME ~progress, NEW t \in Task PROVE Settled(t)
    <3>1. PICK n \in 1 .. Len(Order) : Order[n] = t
      BY OrderFacts
    <3>2. n < i
      BY <1>c, <2>1, OrderFacts
    <3>3. QED
      BY <1>b, <2>2, <3>1, <3>2
  <2>3. i' \in 1 .. Len(Order) + 1 /\ \A n \in 1 .. Len(Order) : ~(n < i')
    BY <2>1, OrderFacts
  <2>4. LoopTypeOK'
    <3>1. passes' \in Nat
      BY <1>c, <2>1
    <3>2. done' \in BOOLEAN /\ progress' \in BOOLEAN
      BY <2>1
    <3>3. QED
      BY <1>a, <2>1, <2>3, <3>1, <3>2 DEF LoopTypeOK
  <2>5. QED
    BY <1>a, <2>1, <2>2, <2>3, <2>4 DEF LoopInv, Settled
<1>3. CASE UNCHANGED loopVars
  BY <1>a, <1>b, <1>3 DEF loopVars, Settled, LoopInv, LoopTypeOK
<1>4. QED
  BY <1>1, <1>2, <1>3 DEF LoopNext

\* The bookkeeping of the loop is right in every reachable state.
THEOREM LoopInvCorrect == LoopSpec => []LoopInv
BY LoopInvInit, LoopInvStep, PTL DEF LoopSpec

\* For every graph, cyclic or not, every list of its tasks and every start: when
\* propagate_failures returns, the rows are those the other modules take it to
\* leave in one step.
THEOREM LoopReachesLeastClosedSetHolds == LoopSpec => []LoopReachesLeastClosedSet
<1>1. LoopInv => LoopReachesLeastClosedSet
  <2> SUFFICES ASSUME LoopInv, done PROVE rows = PropagateFailures(deps, initial)
    BY DEF LoopReachesLeastClosedSet
  <2>1. ClosedUnderFailure(deps, initial, failedOrBlocked)
    BY DEF LoopInv, Settled, ClosedUnderFailure
  <2>2. failedOrBlocked = Doomed(deps, initial)
    BY <2>1 DEF LoopInv, LoopTypeOK, Doomed
  <2>3. QED
    BY <2>2 DEF LoopInv, LoopTypeOK, PropagateFailures, NewlyBlocked
<1>2. QED
  BY <1>1, LoopInvCorrect, PTL

(***************************************************************************)
(* Worker leases: the invariant                                            *)
(***************************************************************************)

\* One process: every caller uses the same store object.
OneStore == \A s, t \in Store : s = t

\* The caller is between the two statements of its call.
Inside(c) == call[c].pc \in {"select", "upsert", "rselect", "rdelete"}

\* Who is inside the store holds its lock.
InsideLocked == \A c \in Caller : Inside(c) => lock[StoreOf[c]] = c

\* The time a call works with is in the past, and no time is 0.
TimesPast ==
    /\ clock >= 1
    /\ \A c \in Caller : call[c].now <= clock /\ (call[c].pc # "idle" => call[c].now >= 1)

\* What acquire_worker_lease has selected is still what the table holds, and
\* a worker without a lease was let through because there was a free slot.
SeenIsActive ==
    \A c \in Caller : call[c].pc = "upsert" =>
        LET w == call[c].worker IN
        /\ call[c].seen = Active(LaneOf[w], call[c].now)
        /\ w \notin call[c].seen => Cardinality(call[c].seen) < Cap[LaneOf[w]]

\* The rows the reconciler has selected are still the expired ones it saw.
SeenIsExpired ==
    \A c \in Caller : call[c].pc = "rdelete" =>
        \A w \in call[c].seen : leases[w] <= call[c].now

\* Caller and table agree as long as the lock is held, which is what the
\* statements of a call rely on.
LeaseInv ==
    /\ TypeOK
    /\ InsideLocked
    /\ TimesPast
    /\ SeenIsActive
    /\ SeenIsExpired

(***************************************************************************)
(* The invariant is inductive                                              *)
(***************************************************************************)

LEMMA LeaseInvInit == Init => LeaseInv
BY LeaseAssumption DEF Init, LeaseInv, TypeOK, InsideLocked, TimesPast, SeenIsActive, SeenIsExpired,
       Inside, CallState, PC

\* With one store there is one caller inside.
LEMMA OneInside ==
    ASSUME OneStore, TypeOK, InsideLocked, NEW c \in Caller, NEW d \in Caller, Inside(d),
           Inside(c) \/ lock[StoreOf[c]] = NoCaller
    PROVE  c = d
BY LeaseAssumption DEF OneStore, TypeOK, InsideLocked

LEMMA LeaseInvStep ==
    ASSUME OneStore, LeaseInv, [Next]_vars
    PROVE  LeaseInv'
<1> USE LeaseAssumption DEF LeaseInv
<1>0. \A c \in Caller : call[c] \in CallState /\ StoreOf[c] \in Store
  BY DEF TypeOK
<1>1. ASSUME NEW c \in Caller, NEW w \in Worker, Begin(c, w) PROVE LeaseInv'
  <2> DEFINE r == [call[c] EXCEPT !.pc = "lock", !.worker = w, !.now = clock]
  <2>1. call' = [call EXCEPT ![c] = r] /\ UNCHANGED <<leases, clock, lock, holding>>
        /\ call[c].pc = "idle"
    BY <1>1 DEF Begin
  <2>2. r \in CallState /\ r.pc = "lock" /\ r.now = clock
    BY <1>0 DEF CallState, PC, TypeOK
  <2> HIDE DEF r
  <2>3. TypeOK'
    BY <2>1, <2>2 DEF TypeOK
  <2>4. \A d \in Caller : call'[d] = call[d] \/ (call'[d].pc = "lock" /\ call'[d].now = clock)
    BY <2>1, <2>2
  <2>5. InsideLocked' /\ TimesPast'
    BY <2>1, <2>4, <1>0 DEF InsideLocked, TimesPast, Inside, CallState, TypeOK
  <2>6. SeenIsActive' /\ SeenIsExpired'
    BY <2>1, <2>4 DEF SeenIsActive, SeenIsExpired, Active
  <2>7. QED
    BY <2>3, <2>5, <2>6
<1>2. ASSUME NEW c \in Caller, BeginReconcile(c) PROVE LeaseInv'
  <2> DEFINE r == [call[c] EXCEPT !.pc = "rlock", !.now = clock]
  <2>1. call' = [call EXCEPT ![c] = r] /\ UNCHANGED <<leases, clock, lock, holding>>
    BY <1>2 DEF BeginReconcile
  <2>2. r \in CallState /\ r.pc = "rlock" /\ r.now = clock
    BY <1>0 DEF CallState, PC, TypeOK
  <2> HIDE DEF r
  <2>3. TypeOK'
    BY <2>1, <2>2 DEF TypeOK
  <2>4. \A d \in Caller : call'[d] = call[d] \/ (call'[d].pc = "rlock" /\ call'[d].now = clock)
    BY <2>1, <2>2
  <2>5. InsideLocked' /\ TimesPast'
    BY <2>1, <2>4, <1>0 DEF InsideLocked, TimesPast, Inside, CallState, TypeOK
  <2>6. SeenIsActive' /\ SeenIsExpired'
    BY <2>1, <2>4 DEF SeenIsActive, SeenIsExpired, Active
  <2>7. QED
    BY <2>3, <2>5, <2>6
<1>3. ASSUME NEW c \in Caller, EnterStore(c) PROVE LeaseInv'
  <2> DEFINE label == IF call[c].pc = "lock" THEN "select" ELSE "rselect"
  <2>1. /\ call' = [call EXCEPT ![c].pc = label] /\ lock' = [lock EXCEPT ![StoreOf[c]] = c]
        /\ UNCHANGED <<leases, clock, holding>>
        /\ lock[StoreOf[c]] = NoCaller /\ call[c].pc \in {"lock", "rlock"}
    BY <1>3 DEF EnterStore
  <2>2. TypeOK'
    BY <1>0, <2>1 DEF TypeOK, CallState, PC
  <2>3. /\ \A d \in Caller : d # c => call'[d] = call[d]
        /\ call'[c].pc = label /\ call'[c].now = call[c].now
    <3>1. call' = [call EXCEPT ![c] = [call[c] EXCEPT !.pc = label]]
      BY <2>1
    <3>2. [call[c] EXCEPT !.pc = label].pc = label /\ [call[c] EXCEPT !.pc = label].now = call[c].now
      BY <1>0 DEF CallState
    <3>3. QED
      BY <3>1, <3>2 DEF TypeOK
  <2>4. \A d \in Caller : ~Inside(d)
    BY <2>1, OneInside DEF Inside
  <2>5. InsideLocked'
    BY <1>0, <2>1, <2>3, <2>4 DEF InsideLocked, Inside, TypeOK
  <2>6. TimesPast'
    BY <2>1, <2>3 DEF TimesPast
  <2>7. SeenIsActive' /\ SeenIsExpired'
    BY <2>1, <2>3, <2>4 DEF SeenIsActive, SeenIsExpired, Inside
  <2>8. QED
    BY <2>2, <2>5, <2>6, <2>7
<1>4. ASSUME NEW c \in Caller, Select(c) PROVE LeaseInv'
  <2> DEFINE w == call[c].worker
             active == Active(LaneOf[w], call[c].now)
             refuse == w \notin active /\ Full(w, call[c].now)
             r == [call[c] EXCEPT !.pc = IF refuse THEN "idle" ELSE "upsert",
                                  !.seen = IF refuse THEN {} ELSE active]
  <2>1. /\ call' = [call EXCEPT ![c] = r] /\ call[c].pc = "select"
        /\ lock' = IF refuse THEN [lock EXCEPT ![StoreOf[c]] = NoCaller] ELSE lock
        /\ UNCHANGED <<leases, clock, holding>>
    BY <1>4 DEF Select
  <2>2. active \subseteq Worker /\ w \in Worker
    BY <1>0 DEF Active, CallState
  <2> HIDE DEF active
  <2>3. /\ r \in CallState /\ r.now = call[c].now /\ r.worker = w
        /\ r.pc = (IF refuse THEN "idle" ELSE "upsert")
        /\ r.seen = (IF refuse THEN {} ELSE active)
    BY <1>0, <2>2 DEF CallState, PC
  <2>4. ~refuse => w \in active \/ Cardinality(active) < Cap[LaneOf[w]]
    <3>1. IsFiniteSet(active)
      BY <2>2, FS_Subset
    <3>2. Cardinality(active) \in Nat /\ Cap[LaneOf[w]] \in Nat
      BY <2>2, <3>1, FS_CardinalityType
    <3>3. QED
      BY <3>2 DEF Full, active
  <2> HIDE DEF r, refuse
  <2>5. TypeOK'
    BY <1>0, <2>1, <2>3 DEF TypeOK
  <2>6. \A d \in Caller : d # c => call'[d] = call[d] /\ ~Inside(d) /\ ~Inside(d)'
    BY <2>1, OneInside DEF Inside
  <2>7. call'[c] = r
    BY <2>1 DEF TypeOK
  <2>8. InsideLocked'
    <3>1. Inside(c)' => lock'[StoreOf[c]] = c
      BY <2>1, <2>3, <2>7 DEF Inside, InsideLocked
    <3>2. QED
      BY <2>6, <3>1 DEF InsideLocked
  <2>9. TimesPast'
    BY <2>1, <2>3, <2>6, <2>7 DEF TimesPast
  <2>10. SeenIsActive'
    <3>1. call'[c].pc = "upsert" =>
             /\ call'[c].seen = Active(LaneOf[call'[c].worker], call'[c].now)
             /\ call'[c].worker \notin call'[c].seen =>
                    Cardinality(call'[c].seen) < Cap[LaneOf[call'[c].worker]]
      BY <2>3, <2>4, <2>7 DEF active
    <3>2. QED
      BY <2>1, <2>6, <3>1 DEF SeenIsActive, Inside, Active
  <2>11. SeenIsExpired'
    BY <2>3, <2>6, <2>7 DEF SeenIsExpired, Inside
  <2>12. QED
    BY <2>5, <2>8, <2>9, <2>10, <2>11
<1>5. ASSUME NEW c \in Caller, Upsert(c) PROVE LeaseInv'
  <2> DEFINE r == [call[c] EXCEPT !.pc = "idle", !.seen = {}]
  <2>1. /\ call' = [call EXCEPT ![c] = r] /\ call[c].pc = "upsert"
        /\ lock' = [lock EXCEPT ![StoreOf[c]] = NoCaller]
        /\ leases' = [leases EXCEPT ![call[c].worker] = call[c].now + Duration]
        /\ holding' = [holding EXCEPT ![c] = @ \cup {call[c].worker}]
        /\ clock' = clock
    BY <1>5 DEF Upsert
  <2>2. r \in CallState /\ r.pc = "idle" /\ r.now = call[c].now
    BY <1>0 DEF CallState, PC
  <2>3. call[c].worker \in Worker /\ call[c].now + Duration \in Nat
    BY <1>0 DEF CallState
  <2> HIDE DEF r
  <2>4. TypeOK'
    BY <1>0, <2>1, <2>2, <2>3 DEF TypeOK
  <2>5. /\ \A d \in Caller : d # c => call'[d] = call[d] /\ ~Inside(d) /\ ~Inside(d)'
        /\ call'[c].pc = "idle" /\ call'[c].now = call[c].now
    BY <2>1, <2>2, OneInside DEF Inside, TypeOK
  <2>6. InsideLocked' /\ SeenIsActive' /\ SeenIsExpired'
    BY <2>5 DEF InsideLocked, SeenIsActive, SeenIsExpired, Inside
  <2>7. TimesPast'
    BY <2>1, <2>5 DEF TimesPast
  <2>8. QED
    BY <2>4, <2>6, <2>7
<1>6. ASSUME NEW c \in Caller, NEW w \in Worker, Release(c, w) PROVE LeaseInv'
  <2>1. /\ UNCHANGED <<clock, lock, call>> /\ lock[StoreOf[c]] = NoCaller
        /\ leases' = [leases EXCEPT ![w] = 0] /\ holding' = [holding EXCEPT ![c] = @ \ {w}]
    BY <1>6 DEF Release
  <2>2. TypeOK'
    BY <2>1 DEF TypeOK
  <2>3. \A d \in Caller : ~Inside(d) /\ ~Inside(d)'
    BY <1>6, <2>1, OneInside DEF Inside, Release
  <2>4. InsideLocked' /\ SeenIsActive' /\ SeenIsExpired'
    BY <2>3 DEF InsideLocked, SeenIsActive, SeenIsExpired, Inside
  <2>5. TimesPast'
    BY <2>1 DEF TimesPast
  <2>6. QED
    BY <2>2, <2>4, <2>5
<1>7. ASSUME NEW c \in Caller, ReconcileSelect(c) PROVE LeaseInv'
  <2>1. PICK S \in SUBSET {w \in Worker : leases[w] # 0 /\ leases[w] <= call[c].now} :
            call' = [call EXCEPT ![c].pc = "rdelete", ![c].seen = S]
    BY <1>7 DEF ReconcileSelect
  <2> DEFINE r == [call[c] EXCEPT !.pc = "rdelete", !.seen = S]
  <2>2. /\ call' = [call EXCEPT ![c] = r] /\ call[c].pc = "rselect"
        /\ UNCHANGED <<leases, clock, lock, holding>>
    BY <1>7, <2>1 DEF ReconcileSelect
  <2>3. r \in CallState /\ r.pc = "rdelete" /\ r.now = call[c].now /\ r.seen = S
    BY <1>0 DEF CallState, PC
  <2> HIDE DEF r
  <2>4. TypeOK'
    BY <2>2, <2>3 DEF TypeOK
  <2>5. /\ \A d \in Caller : d # c => call'[d] = call[d] /\ ~Inside(d) /\ ~Inside(d)'
        /\ call'[c] = r
    BY <2>2, OneInside DEF Inside, TypeOK
  <2>6. InsideLocked'
    BY <2>2, <2>5 DEF InsideLocked, Inside
  <2>7. TimesPast'
    BY <2>2, <2>3, <2>5 DEF TimesPast
  <2>8. SeenIsActive' /\ SeenIsExpired'
    BY <2>2, <2>3, <2>5 DEF SeenIsActive, SeenIsExpired, Inside
  <2>9. QED
    BY <2>4, <2>6, <2>7, <2>8
<1>8. ASSUME NEW c \in Caller, ReconcileDelete(c) PROVE LeaseInv'
  <2> DEFINE r == [call[c] EXCEPT !.pc = "idle", !.seen = {}]
  <2>1. /\ call' = [call EXCEPT ![c] = r] /\ call[c].pc = "rdelete"
        /\ lock' = [lock EXCEPT ![StoreOf[c]] = NoCaller]
        /\ leases' = [w \in Worker |-> IF w \in call[c].seen THEN 0 ELSE leases[w]]
        /\ UNCHANGED <<clock, holding>>
    BY <1>8 DEF ReconcileDelete
  <2>2. r \in CallState /\ r.pc = "idle" /\ r.now = call[c].now
    BY <1>0 DEF CallState, PC
  <2> HIDE DEF r
  <2>3. TypeOK'
    BY <1>0, <2>1, <2>2 DEF TypeOK
  <2>4. /\ \A d \in Caller : d # c => call'[d] = call[d] /\ ~Inside(d) /\ ~Inside(d)'
        /\ call'[c].pc = "idle" /\ call'[c].now = call[c].now
    BY <2>1, <2>2, OneInside DEF Inside, TypeOK
  <2>5. InsideLocked' /\ SeenIsActive' /\ SeenIsExpired'
    BY <2>4 DEF InsideLocked, SeenIsActive, SeenIsExpired, Inside
  <2>6. TimesPast'
    BY <2>1, <2>4 DEF TimesPast
  <2>7. QED
    BY <2>3, <2>5, <2>6
<1>9. ASSUME NEW s \in Store, Crash(s) PROVE LeaseInv'
  <2>1. \A c \in Caller : call'[c].pc = "idle" /\ call'[c].now = call[c].now
    BY <1>0, <1>9 DEF Crash, OneStore, CallState
  <2>2. TypeOK'
    BY <1>9 DEF Crash, TypeOK, CallState, PC
  <2>3. InsideLocked' /\ SeenIsActive' /\ SeenIsExpired' /\ TimesPast'
    BY <1>9, <2>1 DEF Crash, InsideLocked, SeenIsActive, SeenIsExpired, TimesPast, Inside
  <2>4. QED
    BY <2>2, <2>3
<1>10. CASE Tick
  BY <1>0, <1>10 DEF Tick, TypeOK, InsideLocked, SeenIsActive, SeenIsExpired, TimesPast, Inside, Active,
                CallState
<1>11. CASE UNCHANGED vars
  BY <1>11 DEF vars, TypeOK, InsideLocked, SeenIsActive, SeenIsExpired, TimesPast, Inside, Active
<1>12. QED
  BY <1>1, <1>2, <1>3, <1>4, <1>5, <1>6, <1>7, <1>8, <1>9, <1>10, <1>11 DEF Next

\* What a caller has selected stays true until it writes.
THEOREM LeaseInvCorrect ==
    ASSUME OneStore
    PROVE  Spec => []LeaseInv
<1>1. LeaseInv /\ [Next]_vars => LeaseInv'
  BY LeaseInvStep
<1>2. QED
  BY <1>1, LeaseInvInit, PTL DEF Spec

(***************************************************************************)
(* What the lock of the store buys                                         *)
(***************************************************************************)

\* A slot granted to a worker that had none leaves the lane within its
\* capacity: the rows counted with the old time include those that are
\* unexpired now, and nobody has inserted one since.
LEMMA GrantWithinCap ==
    ASSUME LeaseInv, NEW c \in Caller, Upsert(c), call[c].worker \notin call[c].seen
    PROVE  LET w == call[c].worker
           IN Cardinality({x \in Worker : LaneOf[x] = LaneOf[w] /\ leases'[x] > clock'})
                  <= Cap[LaneOf[w]]
<1> DEFINE w == call[c].worker
           seen == call[c].seen
           held == {x \in Worker : LaneOf[x] = LaneOf[w] /\ leases'[x] > clock'}
<1> USE LeaseAssumption DEF LeaseInv
<1>1. w \in Worker /\ call[c].now \in Nat /\ call[c].now <= clock /\ clock \in Nat
      /\ leases \in [Worker -> Nat] /\ Cap[LaneOf[w]] \in Nat
  BY DEF TypeOK, CallState, TimesPast
<1>2. seen = Active(LaneOf[w], call[c].now) /\ Cardinality(seen) < Cap[LaneOf[w]]
  BY DEF SeenIsActive, Upsert
<1>3. held \subseteq seen \cup {w}
  <2>1. \A x \in Worker : x # w => leases'[x] = leases[x] /\ leases[x] \in Nat
    BY <1>1 DEF Upsert
  <2>2. clock' = clock
    BY DEF Upsert
  <2>3. ASSUME NEW x \in held, x # w PROVE x \in seen
    BY <1>1, <1>2, <2>1, <2>2, <2>3 DEF Active
  <2>4. QED
    BY <2>3
<1>4. IsFiniteSet(seen) /\ IsFiniteSet(seen \cup {w}) /\ Cardinality(seen) \in Nat
  BY <1>2, FS_Subset, FS_AddElement, FS_CardinalityType DEF Active
<1>5. Cardinality(seen \cup {w}) = Cardinality(seen) + 1
  BY <1>4, FS_AddElement
<1>6. Cardinality(held) <= Cardinality(seen \cup {w}) /\ Cardinality(held) \in Nat
  BY <1>3, <1>4, FS_Subset, FS_CardinalityType
<1>7. QED
  BY <1>1, <1>2, <1>4, <1>5, <1>6

\* Within one process every fresh grant leaves its lane within the capacity,
\* although the time was read before the lock was waited for.
THEOREM FreshGrantWithinCapHolds ==
    ASSUME OneStore
    PROVE  Spec => FreshGrantWithinCap
<1>1. LeaseInv /\ [Next]_vars =>
        [\A c \in Caller :
            LET w == call[c].worker
            IN Upsert(c) /\ w \notin call[c].seen =>
                   Cardinality({x \in Worker : LaneOf[x] = LaneOf[w] /\ leases'[x] > clock'})
                       <= Cap[LaneOf[w]]]_vars
  BY GrantWithinCap
<1>2. QED
  BY <1>1, LeaseInvCorrect, PTL DEF Spec, FreshGrantWithinCap

\* A step that takes away a lease that has not expired is its release.
LEMMA OnlyReleaseTakes ==
    ASSUME LeaseInv, [Next]_vars, NEW w \in Worker, leases[w] > clock, leases'[w] = 0
    PROVE  \E c \in Caller : w \in holding[c] /\ w \notin holding'[c]
<1> USE DEF LeaseInv
<1>1. leases[w] \in Nat /\ clock \in Nat /\ leases[w] # 0
  BY DEF TypeOK
<1>2. \A c \in Caller : call[c] \in CallState
  BY DEF TypeOK
<1>3. ASSUME NEW c \in Caller, NEW x \in Worker, Release(c, x)
      PROVE  w \in holding[c] /\ w \notin holding'[c]
  BY <1>1, <1>3 DEF Release, TypeOK
<1>4. ASSUME NEW c \in Caller PROVE ~Upsert(c)
  <2>1. call[c].pc = "upsert" => call[c].now + Duration # 0 /\ call[c].worker \in Worker
    <3>1. call[c].now \in Nat /\ call[c].worker \in Worker
      BY <1>2 DEF CallState
    <3>2. call[c].pc = "upsert" => call[c].now >= 1
      BY DEF TimesPast
    <3>3. QED
      BY <3>1, <3>2, LeaseAssumption
  <2>2. QED
    BY <1>1, <2>1 DEF Upsert, TypeOK
<1>5. ASSUME NEW c \in Caller PROVE ~ReconcileDelete(c)
  <2>1. call[c].pc = "rdelete" /\ w \in call[c].seen => leases[w] <= clock
    BY <1>1, <1>2 DEF SeenIsExpired, TimesPast, CallState
  <2>2. QED
    BY <1>1, <2>1 DEF ReconcileDelete
<1>6. leases' # leases
  BY <1>1
<1>7. QED
  BY <1>3, <1>4, <1>5, <1>6 DEF Next, vars, Begin, EnterStore, Select, BeginReconcile,
     ReconcileSelect, Crash, Tick

\* Within one process only the holder's release ends a lease before it
\* expires; no reconciler deletes one that was renewed under it.
THEOREM OnlyHolderReleasesHolds ==
    ASSUME OneStore
    PROVE  Spec => OnlyHolderReleases
<1>1. LeaseInv /\ [Next]_vars =>
        [\A w \in Worker : leases[w] > clock /\ leases'[w] = 0 =>
            \E c \in Caller : w \in holding[c] /\ w \notin holding'[c]]_vars
  BY OnlyReleaseTakes
<1>2. QED
  BY <1>1, LeaseInvCorrect, PTL DEF Spec, OnlyHolderReleases
=============================================================================
