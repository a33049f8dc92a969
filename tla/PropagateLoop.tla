---------------------------- MODULE PropagateLoop ----------------------------
(***************************************************************************)
(* TaskGraph.propagate_failures as the loop it is: passes over the task    *)
(* list in order, changing rows in place, until one pass changes nothing.  *)
(* The checks compare it with the least closed set that TaskGraph states.  *)
(***************************************************************************)
EXTENDS TaskGraph, Sequences

CONSTANTS Order,        \* the sequence of tasks, as get_tasks lists them
          Graphs,       \* the dependency functions to try
          StartRows     \* the rows a task may start with

ASSUME OrderAssumption == /\ Order \in Seq(Task)
                          /\ \A t \in Task : \E n \in DOMAIN Order : Order[n] = t

ASSUME InputAssumption == Graphs \subseteq [Task -> SUBSET Task] /\ StartRows \subseteq TaskRow

VARIABLES deps,         \* depends_on of every task
          initial,      \* the rows the loop started from
          rows,         \* the rows as changed so far
          failedOrBlocked,  \* ids known to have failed
          progress,     \* the flag of the while loop
          i,            \* position of the for loop
          passes,       \* full passes made
          done

loopVars == <<deps, initial, rows, failedOrBlocked, progress, i, passes, done>>

LoopInit ==
    /\ deps \in Graphs
    /\ initial \in [Task -> StartRows]
    /\ rows = initial
    /\ failedOrBlocked = FailedOrBlocked(initial)
    /\ progress = FALSE
    /\ i = 1
    /\ passes = 0
    /\ done = FALSE

\* Mutant of Visit: looks for failed dependencies among the tasks that had
\* failed at the start only, so a failure travels one edge.
VisitOneEdge ==
    /\ ~done /\ i <= Len(Order)
    /\ LET t == Order[i]
           hit == /\ t \notin failedOrBlocked
                  /\ rows[t].status = "PENDING"
                  /\ deps[t] \cap FailedOrBlocked(initial) # {}
       IN /\ rows' = IF hit THEN [rows EXCEPT ![t].status = "BLOCKED", ![t].truth = "BLOCKED"]
                            ELSE rows
          /\ failedOrBlocked' = IF hit THEN failedOrBlocked \cup {t} ELSE failedOrBlocked
          /\ progress' = (progress \/ hit)
    /\ i' = i + 1
    /\ UNCHANGED <<deps, initial, passes, done>>

\* One iteration of the for loop: a PENDING task with a failed dependency
\* is blocked, any other task is passed over.
Visit ==
    /\ ~done /\ i <= Len(Order)
    /\ LET t == Order[i]
           hit == /\ t \notin failedOrBlocked
                  /\ rows[t].status = "PENDING"
                  /\ deps[t] \cap failedOrBlocked # {}
       IN /\ rows' = IF hit THEN [rows EXCEPT ![t].status = "BLOCKED", ![t].truth = "BLOCKED"]
                            ELSE rows
          /\ failedOrBlocked' = IF hit THEN failedOrBlocked \cup {t} ELSE failedOrBlocked
          /\ progress' = (progress \/ hit)
    /\ i' = i + 1
    /\ UNCHANGED <<deps, initial, passes, done>>

\* Mutant of PassEnd: progress is not reset at the start of a pass.
PassEndNoReset ==
    /\ ~done /\ i > Len(Order)
    /\ passes' = IF passes < 9 THEN passes + 1 ELSE passes
    /\ done' = ~progress
    /\ i' = 1
    /\ UNCHANGED <<deps, initial, rows, failedOrBlocked, progress>>

\* The while test: another pass after one that changed something.
PassEnd ==
    /\ ~done /\ i > Len(Order)
    /\ passes' = passes + 1
    /\ done' = ~progress
    /\ progress' = FALSE
    /\ i' = 1
    /\ UNCHANGED <<deps, initial, rows, failedOrBlocked>>

LoopNext == Visit \/ PassEnd

LoopSpec == LoopInit /\ [][LoopNext]_loopVars /\ WF_loopVars(LoopNext)

LoopTypeOK ==
    /\ deps \in [Task -> SUBSET Task]
    /\ initial \in [Task -> TaskRow] /\ rows \in [Task -> TaskRow]
    /\ failedOrBlocked \subseteq Task
    /\ i \in 1 .. Len(Order) + 1 /\ passes \in Nat
    /\ progress \in BOOLEAN /\ done \in BOOLEAN

(***************************************************************************)
(* Properties                                                              *)
(***************************************************************************)

\* When propagate_failures returns it has blocked exactly the tasks of the
\* least set closed under failure, whatever the order of the list and even
\* on a cyclic graph: no PENDING task downstream of a failure is missed and
\* none is blocked without a failed task above it.
LoopReachesLeastClosedSet == done => rows = PropagateFailures(deps, initial)

\* The while loop of propagate_failures ends, after at most one pass for each
\* task and one that finds nothing to do.
LoopEnds == <>(done /\ passes <= Len(Order) + 1)
=============================================================================
