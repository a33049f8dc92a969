---------------------------- MODULE WorkerLeases ----------------------------
(***************************************************************************)
(* The worker_leases table of goal_engine/store.py: bounded lanes that     *)
(* several callers, in one process or in several, take slots of.           *)
(*                                                                         *)
(* acquire_worker_lease holds the lock of its store object, reads the      *)
(* unexpired leases of the lane in one statement and inserts its row in    *)
(* another.  The lock is a threading.RLock of the process: callers with    *)
(* another store object on the same database are not kept out.  The time   *)
(* is taken before the lock is.  reconcile_orphaned_running_tasks works    *)
(* the same way: it reads the rows, then deletes the expired ones by id.   *)
(***************************************************************************)
EXTENDS Naturals, FiniteSets

CONSTANTS
    Worker,         \* worker ids
    Lane,           \* lane kinds
    LaneOf,         \* worker -> its lane
    Cap,            \* lane -> slots
    Caller,         \* threads that take leases or reconcile them
    MayUse,         \* caller -> the worker ids of the tasks it runs
    Store,          \* store objects, one per process
    StoreOf,        \* caller -> the store it uses
    NoCaller,       \* nobody holds the lock
    Duration,       \* life of a lease
    MaxTime         \* bound: the clock stops here

ASSUME LeaseAssumption ==
    /\ LaneOf \in [Worker -> Lane]
    /\ Cap \in [Lane -> Nat]
    /\ StoreOf \in [Caller -> Store]
    /\ MayUse \in [Caller -> SUBSET Worker]
    /\ NoCaller \notin Caller
    /\ Duration \in Nat
    /\ MaxTime \in Nat
    /\ IsFiniteSet(Worker)

VARIABLES
    leases,         \* worker -> expiry of its row, 0 when there is none
    clock,          \* time.time()
    lock,           \* store -> the caller inside it
    call,           \* caller -> its call of acquire_worker_lease
    holding         \* caller -> the workers it has leases for

vars == <<leases, clock, lock, call, holding>>

PC == {"idle", "lock", "select", "upsert", "rlock", "rselect", "rdelete"}

\* worker is the one asked for, now the time the call began, seen the workers
\* of the rows its SELECT returned.
CallState == [pc : PC, worker : Worker, now : Nat, seen : SUBSET Worker]

Init ==
    /\ leases = [w \in Worker |-> 0]
    /\ clock = 1
    /\ lock = [s \in Store |-> NoCaller]
    /\ \E w \in Worker : call = [c \in Caller |-> [pc |-> "idle", worker |-> w, now |-> 0, seen |-> {}]]
    /\ holding = [c \in Caller |-> {}]

\* The workers of a lane with a lease that is unexpired at time now.
Active(lane, now) == {w \in Worker : LaneOf[w] = lane /\ leases[w] > now}

\* A caller wants a lease for w; it reads the clock.
Begin(c, w) ==
    /\ call[c].pc = "idle"
    /\ w \in MayUse[c] \ holding[c]
    /\ call' = [call EXCEPT ![c].pc = "lock", ![c].worker = w, ![c].now = clock]
    /\ UNCHANGED <<leases, clock, lock, holding>>

\* The reconciliation of a goal begins.
BeginReconcile(c) ==
    /\ call[c].pc = "idle"
    /\ call' = [call EXCEPT ![c].pc = "rlock", ![c].now = clock]
    /\ UNCHANGED <<leases, clock, lock, holding>>

\* Mutant of EnterStore: the lock is not waited for.
EnterStoreUnlocked(c) ==
    /\ call[c].pc \in {"lock", "rlock"}
    /\ call' = [call EXCEPT ![c].pc = IF @ = "lock" THEN "select" ELSE "rselect"]
    /\ UNCHANGED <<leases, clock, lock, holding>>

EnterStore(c) ==
    /\ call[c].pc \in {"lock", "rlock"}
    /\ lock[StoreOf[c]] = NoCaller
    /\ lock' = [lock EXCEPT ![StoreOf[c]] = c]
    /\ call' = [call EXCEPT ![c].pc = IF @ = "lock" THEN "select" ELSE "rselect"]
    /\ UNCHANGED <<leases, clock, holding>>

\* The lane of w has no free slot at time now.
Full(w, now) == Cardinality(Active(LaneOf[w], now)) >= Cap[LaneOf[w]]

\* The SELECT: the lease is refused when the lane is full of other workers.
Select(c) ==
    LET w == call[c].worker
        seen == Active(LaneOf[w], call[c].now)
        refuse == w \notin seen /\ Full(w, call[c].now)
    IN /\ call[c].pc = "select"
       /\ call' = [call EXCEPT ![c].pc = IF refuse THEN "idle" ELSE "upsert",
                               ![c].seen = IF refuse THEN {} ELSE seen]
       /\ lock' = IF refuse THEN [lock EXCEPT ![StoreOf[c]] = NoCaller] ELSE lock
       /\ UNCHANGED <<leases, clock, holding>>

\* The INSERT, or the update of the row the worker already has.
Upsert(c) ==
    /\ call[c].pc = "upsert"
    /\ leases' = [leases EXCEPT ![call[c].worker] = call[c].now + Duration]
    /\ holding' = [holding EXCEPT ![c] = @ \cup {call[c].worker}]
    /\ call' = [call EXCEPT ![c].pc = "idle", ![c].seen = {}]
    /\ lock' = [lock EXCEPT ![StoreOf[c]] = NoCaller]
    /\ UNCHANGED clock

\* release_worker_lease: one DELETE by worker id, under the lock.
Release(c, w) ==
    /\ call[c].pc = "idle"
    /\ w \in holding[c]
    /\ lock[StoreOf[c]] = NoCaller
    /\ leases' = [leases EXCEPT ![w] = 0]
    /\ holding' = [holding EXCEPT ![c] = @ \ {w}]
    /\ UNCHANGED <<clock, lock, call>>

\* Mutant of ReconcileSelect: leases that have not expired are taken too.
ReconcileSelectAny(c) ==
    /\ call[c].pc = "rselect"
    /\ \E S \in SUBSET {w \in Worker : leases[w] # 0} :
           call' = [call EXCEPT ![c].pc = "rdelete", ![c].seen = S]
    /\ UNCHANGED <<leases, clock, lock, holding>>

\* The reconciler reads the rows: those of some RUNNING tasks have expired.
ReconcileSelect(c) ==
    /\ call[c].pc = "rselect"
    /\ \E S \in SUBSET {w \in Worker : leases[w] # 0 /\ leases[w] <= call[c].now} :
           call' = [call EXCEPT ![c].pc = "rdelete", ![c].seen = S]
    /\ UNCHANGED <<leases, clock, lock, holding>>

\* It deletes their leases.
ReconcileDelete(c) ==
    /\ call[c].pc = "rdelete"
    /\ leases' = [w \in Worker |-> IF w \in call[c].seen THEN 0 ELSE leases[w]]
    /\ call' = [call EXCEPT ![c].pc = "idle", ![c].seen = {}]
    /\ lock' = [lock EXCEPT ![StoreOf[c]] = NoCaller]
    /\ UNCHANGED <<clock, holding>>

\* A process dies: its store object, with the lock, and its callers are new;
\* the rows remain until they expire.
Crash(s) ==
    /\ call' = [c \in Caller |-> IF StoreOf[c] = s
                                 THEN [call[c] EXCEPT !.pc = "idle", !.seen = {}] ELSE call[c]]
    /\ holding' = [c \in Caller |-> IF StoreOf[c] = s THEN {} ELSE holding[c]]
    /\ lock' = [lock EXCEPT ![s] = NoCaller]
    /\ UNCHANGED <<leases, clock>>

Tick ==
    /\ clock < MaxTime
    /\ clock' = clock + 1
    /\ UNCHANGED <<leases, lock, call, holding>>

Next ==
    \/ \E c \in Caller, w \in Worker : Begin(c, w) \/ Release(c, w)
    \/ \E c \in Caller : EnterStore(c) \/ Select(c) \/ Upsert(c)
    \/ \E c \in Caller : BeginReconcile(c) \/ ReconcileSelect(c) \/ ReconcileDelete(c)
    \/ \E s \in Store : Crash(s)
    \/ Tick

Spec == Init /\ [][Next]_vars

TypeOK ==
    /\ leases \in [Worker -> Nat]
    /\ clock \in Nat
    /\ lock \in [Store -> Caller \cup {NoCaller}]
    /\ call \in [Caller -> CallState]
    /\ holding \in [Caller -> SUBSET Worker]

(***************************************************************************)
(* Properties                                                              *)
(***************************************************************************)

\* Within one process, a slot granted to a worker that had none leaves the
\* lane within its capacity, although the time was read before the lock was
\* taken and other threads waited, crashed or released meanwhile.
FreshGrantWithinCap ==
    [][\A c \in Caller :
        LET w == call[c].worker
        IN Upsert(c) /\ w \notin call[c].seen =>
               Cardinality({x \in Worker : LaneOf[x] = LaneOf[w] /\ leases'[x] > clock'})
                   <= Cap[LaneOf[w]]]_vars

\* Within one process a lease that has not expired disappears only when its
\* holder gives it back: no reconciliation deletes a lease that was renewed
\* after the reconciler looked.
OnlyHolderReleases ==
    [][\A w \in Worker : leases[w] > clock /\ leases'[w] = 0 =>
        \E c \in Caller : w \in holding[c] /\ w \notin holding'[c]]_vars
=============================================================================
