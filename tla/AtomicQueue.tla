----------------------------- MODULE AtomicQueue -----------------------------
(***************************************************************************)
(* What src/core/task_queue.py promises, "atomic worker leases with stale  *)
(* reclamation, retries and a dead-letter queue": every operation is one   *)
(* step, and a lease takes the most urgent tasks there are.                *)
(***************************************************************************)
EXTENDS Naturals, FiniteSets

CONSTANTS
    Task, Worker,
    Priority,       \* task -> its priority, a lower one is more urgent
    Limit,          \* tasks a worker asks for at a time
    NoWorker

VARIABLES
    state,          \* task -> where it is
    holder,         \* task -> the worker its lease names
    ripe,           \* tasks due for so long that every lease call sees them
    lapsed          \* tasks whose lease has run out

avars == <<state, holder, ripe, lapsed>>

Waiting == {t \in Task : state[t] = "pending"}

AInit ==
    /\ state = [t \in Task |-> "absent"]
    /\ holder = [t \in Task |-> NoWorker]
    /\ ripe = {}
    /\ lapsed = {}

\* The tasks of S go from one state to another; a lease of theirs ends.
Transfer(S, from, to) ==
    /\ S # {} /\ \A t \in S : state[t] = from
    /\ state' = [t \in Task |-> IF t \in S THEN to ELSE state[t]]
    /\ holder' = [t \in Task |-> IF t \in S THEN NoWorker ELSE holder[t]]
    /\ lapsed' = lapsed \ S
    /\ ripe' \subseteq ripe \cup S

Offer(t) == Transfer({t}, "absent", "pending")

\* Only waiting tasks are leased, at most Limit, and no ripe task is passed
\* over for a less urgent one or left while there is room.
Lease(w, S) ==
    /\ S # {} /\ S \subseteq Waiting /\ Cardinality(S) <= Limit
    /\ \A u \in ripe \ S : Cardinality(S) = Limit /\ \A t \in S : Priority[t] <= Priority[u]
    /\ state' = [t \in Task |-> IF t \in S THEN "running" ELSE state[t]]
    /\ holder' = [t \in Task |-> IF t \in S THEN w ELSE holder[t]]
    /\ ripe' = ripe \ S
    /\ lapsed' \subseteq lapsed \cup S

\* Leases that have run out, and no others, are taken back.
Reclaim(S) ==
    /\ S # {} /\ S \subseteq lapsed
    /\ state' = [t \in Task |-> IF t \in S THEN "pending" ELSE state[t]]
    /\ holder' = [t \in Task |-> IF t \in S THEN NoWorker ELSE holder[t]]
    /\ lapsed' = lapsed \ S
    /\ ripe' \in SUBSET (ripe \cup S)

Complete(t) == Transfer({t}, "running", "completed")
Fail(t) == Transfer({t}, "running", "pending") \/ Transfer({t}, "running", "dead_letter")
Replay(S) == Transfer(S, "dead_letter", "pending")
Purge(S) == Transfer(S, "dead_letter", "purged")

\* A heartbeat: the lease runs again.
Renew(t) ==
    /\ state[t] = "running"
    /\ lapsed' = lapsed \ {t}
    /\ UNCHANGED <<state, holder, ripe>>

TimePasses ==
    /\ ripe \subseteq ripe' /\ ripe' \subseteq Waiting
    /\ lapsed \subseteq lapsed' /\ lapsed' \subseteq {t \in Task : state[t] = "running"}
    /\ UNCHANGED <<state, holder>>

ANext ==
    \/ \E t \in Task : Offer(t) \/ Complete(t) \/ Fail(t) \/ Renew(t)
    \/ \E S \in SUBSET Task : Reclaim(S) \/ Replay(S) \/ Purge(S) \/ \E w \in Worker : Lease(w, S)
    \/ TimePasses

ASpec == AInit /\ [][ANext]_avars
=============================================================================
