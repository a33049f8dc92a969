------------------------------ MODULE Worktrees ------------------------------
(***************************************************************************)
(* The worktree of a task, from goal_engine/worktree_manager.py, as        *)
(* run_goal and the threads of run_goal_parallel use it: allocate, run the *)
(* command in it, finalize_worktree, save the result of the task.          *)
(*                                                                         *)
(* The directory is named after ticket and task, so every attempt gets the *)
(* same one, and what was in it is deleted first.  The hashes it is        *)
(* compared with at the end are in the memory of the manager.  A listing   *)
(* of it passes over the files it cannot read, and never shows some.  A    *)
(* file is one that commands create; its content is the attempt that wrote *)
(* it, or None.  Deletions, the patch that records them, and files under   *)
(* .git, which no copy takes, are left out.                                *)
(***************************************************************************)
EXTENDS Naturals, Sequences, FiniteSets

CONSTANTS
    Task,
    Idempotent,     \* tasks the reconciler may have repeated
    File,
    Ignored,        \* files no listing shows: under an ignored name, or links
    Runner,         \* callers that run tasks; each has a manager of its own
    MaxAttempts

ASSUME WorktreeAssumption ==
    /\ Idempotent \subseteq Task
    /\ Ignored \subseteq File
    /\ MaxAttempts \in Nat \ {0}

VARIABLES
    row,            \* task -> [status, attempts] in the store
    tree,           \* task -> its directory
    run,            \* runner -> the attempt it makes
    artifacts,      \* task -> attempt -> .mekong/artifacts/<ticket>/<task>/attempt_<n>
    recovery,       \* task -> its copies under .mekong/recovery_worktrees, in order
    made,           \* task -> attempt -> what its command left; history
    missed          \* task -> attempt -> what the listings before and after its
                    \* command did not show as it was; history

vars == <<row, tree, run, artifacts, recovery, made, missed>>

None == 0
Attempt == 1..MaxAttempts
Files == [File -> None..MaxAttempts]
Nothing == [f \in File |-> None]

Directory == [there : BOOLEAN, files : Files]
NoTree == [there |-> FALSE, files |-> Nothing]
AllShown == [before |-> {}, after |-> {}]

\* _snapshot_tree_hashes: a file whose hash fails is passed over.
Listings(files) ==
    {seen \in Files : \A f \in File : \/ seen[f] = None
                                      \/ f \notin Ignored /\ seen[f] = files[f]}

\* The files a listing does not show as they are.
Hidden(seen, files) == {f \in File : seen[f] # files[f]}

PC == {"idle", "clean", "create", "execute", "finalize", "list", "harvest", "copytree", "manifest", "remove", "record"}

\* base is the snapshot allocate took, todo the files harvest_artifacts still
\* has to copy, copied the contents of those it has copied.
Idle(t) == [pc |-> "idle", task |-> t, attempt |-> 0, base |-> Nothing, ok |-> FALSE, todo |-> {}, copied |-> Nothing]

\* The tasks of S are ready, the others have ended.
InitFrom(S) ==
    /\ row = [t \in Task |-> [status |-> IF t \in S THEN "PENDING" ELSE "BLOCKED", attempts |-> 0]]
    /\ tree = [t \in Task |-> NoTree]
    /\ \E t \in Task : run = [r \in Runner |-> Idle(t)]
    /\ artifacts = [t \in Task |-> [a \in Attempt |-> [files |-> Nothing, listed |-> Nothing, done |-> FALSE]]]
    /\ recovery = [t \in Task |-> <<>>]
    /\ made = [t \in Task |-> [a \in Attempt |-> Nothing]]
    /\ missed = [t \in Task |-> [a \in Attempt |-> AllShown]]

Init == InitFrom(Task)

\* The directory and the number of the attempt r makes.
Dir(r) == tree[run[r].task]
Number(r) == run[r].attempt

Goto(r, pc) == run' = [run EXCEPT ![r].pc = pc]

\* The engine marks a ready task RUNNING and counts the attempt.
Begin(r, t) ==
    /\ run[r].pc = "idle"
    /\ row[t].status = "PENDING"
    /\ row' = [row EXCEPT ![t] = [status |-> "RUNNING", attempts |-> @.attempts + 1]]
    /\ run' = [run EXCEPT ![r] = [Idle(t) EXCEPT !.pc = "clean", !.attempt = row[t].attempts + 1]]
    /\ UNCHANGED <<tree, artifacts, recovery, made, missed>>

\* Mutant of Reconcile: whether the task may be repeated is not asked.
ReconcileAll(r, t) ==
    /\ run[r].pc = "idle"
    /\ row[t].status = "RUNNING"
    /\ row' = [row EXCEPT ![t].status = IF row[t].attempts < MaxAttempts THEN "PENDING" ELSE "BLOCKED"]
    /\ UNCHANGED <<tree, run, artifacts, recovery, made, missed>>

\* A resume finds a RUNNING task without a lease.
Reconcile(r, t) ==
    /\ run[r].pc = "idle"
    /\ row[t].status = "RUNNING"
    /\ row' = [row EXCEPT ![t].status =
                   IF t \in Idempotent /\ row[t].attempts < MaxAttempts THEN "PENDING" ELSE "BLOCKED"]
    /\ UNCHANGED <<tree, run, artifacts, recovery, made, missed>>

\* cleanup: git worktree remove, then rmtree(ignore_errors=True), which may
\* leave the directory with some of its files.
CleanedUp(t) ==
    \E S \in SUBSET File :
        LET left == [f \in File |-> IF f \in S THEN tree[t].files[f] ELSE None]
        IN tree' = [tree EXCEPT ![t] = IF S = {} THEN NoTree ELSE [@ EXCEPT !.files = left]]

\* allocate deletes the directory of an earlier attempt.
Clean(r) ==
    /\ run[r].pc = "clean"
    /\ IF Dir(r).there THEN CleanedUp(run[r].task) ELSE UNCHANGED tree
    /\ Goto(r, "create")
    /\ UNCHANGED <<row, artifacts, recovery, made, missed>>

\* Mutant of Create: no snapshot is taken.
CreateNoSnapshot(r) ==
    /\ run[r].pc = "create"
    /\ tree' = [tree EXCEPT ![run[r].task].there = TRUE]
    /\ run' = [run EXCEPT ![r].pc = "execute"]
    /\ UNCHANGED <<row, artifacts, recovery, made, missed>>

\* A fresh worktree, or the workspace copied over what is left of an old one.
Create(r) ==
    LET t == run[r].task
    IN /\ run[r].pc = "create"
       /\ tree' = [tree EXCEPT ![t].there = TRUE]
       /\ \E seen \in Listings(Dir(r).files) :
              /\ run' = [run EXCEPT ![r].pc = "execute", ![r].base = seen]
              /\ missed' = [missed EXCEPT ![t][Number(r)].before = Hidden(seen, Dir(r).files)]
       /\ UNCHANGED <<row, artifacts, recovery, made>>

\* allocate raises: nothing is run and nothing finalized.
CreateRaises(r) ==
    /\ run[r].pc = "create"
    /\ Goto(r, "record")
    /\ UNCHANGED <<row, tree, artifacts, recovery, made, missed>>

\* The command writes some files and succeeds or not; without a directory it
\* cannot start.
Execute(r) ==
    LET t == run[r].task
    IN /\ run[r].pc = "execute"
       /\ \E S \in IF Dir(r).there THEN SUBSET File ELSE {{}}, ok \in BOOLEAN :
              /\ ok => Dir(r).there
              /\ tree' = [tree EXCEPT ![t].files = [f \in File |-> IF f \in S THEN Number(r) ELSE @[f]]]
              /\ made' = [made EXCEPT ![t][Number(r)] = [f \in File |-> IF f \in S THEN Number(r) ELSE None]]
              /\ run' = [run EXCEPT ![r].pc = "finalize", ![r].ok = ok]
       /\ UNCHANGED <<row, artifacts, recovery, missed>>

\* finalize_worktree finds no directory, or preserves that of a failure.
FinalizeFailure(r) ==
    /\ run[r].pc = "finalize"
    /\ ~Dir(r).there \/ ~run[r].ok
    /\ Goto(r, IF Dir(r).there THEN "copytree" ELSE "record")
    /\ UNCHANGED <<row, tree, artifacts, recovery, made, missed>>

\* That of a success has changed, by its listing or by git status: ARTIFACT;
\* or not: SCRATCH.
FinalizeSuccess(r) ==
    LET t == run[r].task
    IN /\ run[r].pc = "finalize"
       /\ Dir(r).there /\ run[r].ok
       /\ \E seen \in Listings(Dir(r).files), status \in BOOLEAN :
              IF seen # run[r].base \/ status
              THEN Goto(r, "list") /\ UNCHANGED missed
              ELSE /\ Goto(r, "remove")
                   /\ missed' = [missed EXCEPT ![t][Number(r)].after = Hidden(seen, Dir(r).files)]
       /\ UNCHANGED <<row, tree, artifacts, recovery, made>>

\* harvest_artifacts lists the directory again.
HarvestList(r) ==
    LET t == run[r].task
    IN /\ run[r].pc = "list" /\ Dir(r).there
       /\ \E seen \in Listings(Dir(r).files) :
              /\ run' = [run EXCEPT ![r].pc = "harvest",
                                    ![r].todo = {f \in File : seen[f] \notin {None, run[r].base[f]}}]
              /\ missed' = [missed EXCEPT ![t][Number(r)].after = Hidden(seen, Dir(r).files)]
       /\ UNCHANGED <<row, tree, artifacts, recovery, made>>

\* harvest_artifacts copies one file and compares the hashes; a file that has
\* gone is skipped.
HarvestFile(r) ==
    LET t == run[r].task
    IN /\ run[r].pc = "harvest"
       /\ \E f \in run[r].todo :
              /\ artifacts' = IF ~Dir(r).there THEN artifacts
                              ELSE [artifacts EXCEPT ![t][Number(r)].files[f] = Dir(r).files[f]]
              /\ run' = [run EXCEPT ![r].todo = @ \ {f}, ![r].copied[f] = Dir(r).files[f]]
       /\ UNCHANGED <<row, tree, recovery, made, missed>>

\* The manifest is written last.
HarvestManifest(r) ==
    LET t == run[r].task
    IN /\ run[r].pc = "harvest" /\ run[r].todo = {}
       /\ artifacts' = [artifacts EXCEPT ![t][Number(r)] = [@ EXCEPT !.listed = run[r].copied, !.done = TRUE]]
       /\ Goto(r, "remove")
       /\ UNCHANGED <<row, tree, recovery, made, missed>>

\* Mutant of HarvestRaises: the worktree is cleaned up all the same.
HarvestRaisesCleanup(r) ==
    /\ run[r].pc \in {"list", "harvest"}
    /\ Goto(r, "remove")
    /\ UNCHANGED <<row, tree, artifacts, recovery, made, missed>>

\* A copy, a hash or the manifest fails: the worktree is preserved instead,
\* by a copy that passes over nothing.
HarvestRaises(r) ==
    /\ run[r].pc \in {"list", "harvest"}
    /\ Goto(r, "copytree")
    /\ missed' = [missed EXCEPT ![run[r].task][Number(r)].after = {}]
    /\ UNCHANGED <<row, tree, artifacts, recovery, made>>

\* An exception leaves finalize_worktree: it ends run_goal, the task still
\* RUNNING, or is the result of a future, and the task FAILED.
Escapes(r) ==
    /\ run' = [run EXCEPT ![r] = Idle(run[r].task)]
    /\ row' = row \/ row' = [row EXCEPT ![run[r].task] = [status |-> "FAILED", attempts |-> Number(r)]]

\* preserve_recovery_worktree copies the tree to a name not in use.
PreserveCopy(r) ==
    LET t == run[r].task
    IN /\ run[r].pc = "copytree" /\ Dir(r).there
       /\ recovery' = [recovery EXCEPT ![t] =
                          Append(@, [attempt |-> Number(r), files |-> Dir(r).files, done |-> FALSE])]
       /\ run' = [run EXCEPT ![r].pc = "manifest"]
       /\ UNCHANGED <<row, tree, artifacts, made, missed>>

\* The tree has gone, or the copy fails with some of the files copied.
PreserveRaises(r) ==
    LET t == run[r].task
    IN /\ run[r].pc = "copytree"
       /\ Escapes(r)
       /\ \E S \in SUBSET File :
              recovery' = IF ~Dir(r).there THEN recovery
                          ELSE [recovery EXCEPT ![t] = Append(@,
                                   [attempt |-> Number(r), done |-> FALSE,
                                    files |-> [f \in File |-> IF f \in S THEN Dir(r).files[f] ELSE None]])]
       /\ UNCHANGED <<tree, artifacts, made, missed>>

\* recovery_manifest.json is written into the copy.
PreserveManifest(r) ==
    LET t == run[r].task
    IN /\ run[r].pc = "manifest"
       /\ \/ /\ \E i \in DOMAIN recovery[t] :
                     /\ \A j \in DOMAIN recovery[t] : recovery[t][j].attempt = Number(r) => j <= i
                     /\ recovery[t][i].attempt = Number(r)
                     /\ recovery' = [recovery EXCEPT ![t][i].done = TRUE]
             /\ Goto(r, "remove")
             /\ UNCHANGED row
          \/ Escapes(r) /\ UNCHANGED recovery
       /\ UNCHANGED <<tree, artifacts, made, missed>>

\* cleanup at the end of a finalization.
Remove(r) ==
    /\ run[r].pc = "remove"
    /\ CleanedUp(run[r].task)
    /\ Goto(r, "record")
    /\ UNCHANGED <<row, artifacts, recovery, made, missed>>

\* The engine saves the result of the task.
Record(r) ==
    /\ run[r].pc = "record"
    /\ row' = [row EXCEPT ![run[r].task] = [status |-> IF run[r].ok THEN "VERIFIED_SUCCESS" ELSE "FAILED",
                                            attempts |-> Number(r)]]
    /\ run' = [run EXCEPT ![r] = Idle(run[r].task)]
    /\ UNCHANGED <<tree, artifacts, recovery, made, missed>>

\* The process dies, the command with it: what it wrote so far is left.
Crash(r) ==
    LET t == run[r].task
    IN /\ run[r].pc # "idle"
       /\ run' = [run EXCEPT ![r] = Idle(t)]
       /\ \E S \in IF run[r].pc = "execute" /\ Dir(r).there THEN SUBSET File ELSE {{}} :
              /\ tree' = [tree EXCEPT ![t].files = [f \in File |-> IF f \in S THEN Number(r) ELSE @[f]]]
              /\ made' = [made EXCEPT ![t][Number(r)] = [f \in File |-> IF f \in S THEN Number(r) ELSE @[f]]]
       /\ UNCHANGED <<row, artifacts, recovery, missed>>

Next == \E r \in Runner :
    \/ \E t \in Task : Begin(r, t) \/ Reconcile(r, t)
    \/ Clean(r) \/ Create(r) \/ CreateRaises(r) \/ Execute(r)
    \/ FinalizeFailure(r) \/ FinalizeSuccess(r)
    \/ HarvestList(r) \/ HarvestFile(r) \/ HarvestManifest(r) \/ HarvestRaises(r)
    \/ PreserveCopy(r) \/ PreserveManifest(r) \/ PreserveRaises(r)
    \/ Remove(r) \/ Record(r) \/ Crash(r)

Spec == Init /\ [][Next]_vars

TypeOK ==
    /\ row \in [Task -> [status : {"PENDING", "RUNNING", "VERIFIED_SUCCESS", "FAILED", "BLOCKED"},
                         attempts : 0..MaxAttempts]]
    /\ tree \in [Task -> Directory]
    /\ run \in [Runner -> [pc : PC, task : Task, attempt : 0..MaxAttempts, base : Files, ok : BOOLEAN,
                           todo : SUBSET File, copied : Files]]
    /\ artifacts \in [Task -> [Attempt -> [files : Files, listed : Files, done : BOOLEAN]]]
    /\ recovery \in [Task -> Seq([attempt : Attempt, files : Files, done : BOOLEAN])]
    /\ made \in [Task -> [Attempt -> Files]]
    /\ missed \in [Task -> [Attempt -> [before : SUBSET File, after : SUBSET File]]]

(***************************************************************************)
(* Properties                                                              *)
(***************************************************************************)

\* File f of attempt a is where somebody finds it: listed in a manifest of
\* artifacts, or in a recovery copy with a manifest.
Kept(t, a, f) ==
    \/ artifacts[t][a].done /\ artifacts[t][a].listed[f] = made[t][a][f]
                            /\ artifacts[t][a].files[f] = made[t][a][f]
    \/ \E i \in DOMAIN recovery[t] : recovery[t][i].done /\ recovery[t][i].files[f] = made[t][a][f]

\* Wherever the process dies and whatever copy fails, each file an attempt has
\* written is kept or still in its directory.  Given up are the files of a
\* crashed attempt, by the retry of an idempotent task, which will write them
\* again, and those of a success that its last listing passes over, which are
\* deleted with the directory.
NothingLost ==
    \A t \in Task, a \in Attempt, f \in File :
        \/ made[t][a][f] = None \/ Kept(t, a, f) \/ tree[t].files[f] = a
        \/ t \in Idempotent /\ a < row[t].attempts
        \/ f \in missed[t][a].after

\* The work of a task whose success is on record has been handed over, but for
\* what the last listing passes over: it is not only in a directory that the
\* next attempt or a user may delete.
SuccessHandedOver ==
    \A t \in Task, f \in File :
        LET a == row[t].attempts
        IN row[t].status = "VERIFIED_SUCCESS" /\ made[t][a][f] # None =>
               Kept(t, a, f) \/ f \in missed[t][a].after

\* A manifest of artifacts lists what its own attempt made, with the contents
\* that are stored beside it; not what a half-done harvest stored, nor what an
\* earlier attempt left in a directory that could not be deleted, unless the
\* first listing passed over it.
ManifestIsOwnWork ==
    \A t \in Task, a \in Attempt, f \in File :
        artifacts[t][a].done => /\ \/ artifacts[t][a].listed[f] \in {None, a}
                                   \/ f \in missed[t][a].before
                                /\ artifacts[t][a].listed[f] = artifacts[t][a].files[f]
=============================================================================
