---------------------------- MODULE WorktreesProofs ----------------------------
(***************************************************************************)
(* Proofs about Worktrees for any tasks, files and number of attempts, and *)
(* one runner.  One runner is what keeps a task's directory to one attempt *)
(* at a time: a second caller may reconcile a task that is being run.      *)
(***************************************************************************)
EXTENDS Worktrees, SequenceTheorems, TLAPS

\* One runner at a time; it may crash, and start again.
OneRunner == \A r, q \in Runner : r = q

\* The artifacts of an attempt that has not been made.
Blank == [files |-> Nothing, listed |-> Nothing, done |-> FALSE]

\* Attempts of a task are counted, and a task that is not idempotent has one.
AttemptsCounted(t) ==
    /\ row[t].status = "PENDING" => row[t].attempts < MaxAttempts
    /\ t \notin Idempotent => /\ row[t].attempts <= 1
                              /\ row[t].status = "PENDING" => row[t].attempts = 0

\* What an attempt made carries its number; attempts to come made nothing,
\* and nothing in the directory is of an attempt to come.
AttemptsOwn(t) ==
    /\ \A f \in File : tree[t].files[f] <= row[t].attempts
    /\ \A a \in Attempt, f \in File : made[t][a][f] \in {None, a}
    /\ \A a \in Attempt : a > row[t].attempts => made[t][a] = Nothing /\ artifacts[t][a] = Blank

\* Every file the latest attempt made is kept, or in the directory, or missed.
LatestNotLost(t) ==
    \A a \in Attempt, f \in File : a = row[t].attempts =>
        made[t][a][f] = None \/ Kept(t, a, f) \/ tree[t].files[f] = a \/ f \in missed[t][a].after

\* Every file the attempt made is kept, but for those the last listing missed.
AllKept(t, a) == \A f \in File : made[t][a][f] = None \/ Kept(t, a, f) \/ f \in missed[t][a].after

SuccessKept(t) ==
    row[t].status = "VERIFIED_SUCCESS" => row[t].attempts \in Attempt /\ AllKept(t, row[t].attempts)

ManifestOwn(t) ==
    \A a \in Attempt, f \in File :
        artifacts[t][a].done =>
            /\ artifacts[t][a].listed[f] \in {None, a} \/ f \in missed[t][a].before
            /\ artifacts[t][a].listed[f] = artifacts[t][a].files[f]

TaskOK(t) ==
    /\ AttemptsCounted(t) /\ AttemptsOwn(t)
    /\ LatestNotLost(t) /\ SuccessKept(t) /\ ManifestOwn(t)

\* Attempt a of task t has not executed: it made and stored nothing.
Untouched(r, t, a) ==
    /\ made[t][a] = Nothing
    /\ artifacts[t][a] = Blank
    /\ run[r].copied = Nothing /\ ~run[r].ok
    /\ \A f \in File : tree[t].files[f] < a

\* A file the first listing did not miss is as it says.
Listed(r, t, a, f) == run[r].base[f] = tree[t].files[f] \/ f \in missed[t][a].before

\* The directory holds what the attempt made, and else what it started from.
Executed(r, t, a) ==
    \A f \in File :
        /\ run[r].base[f] < a
        /\ IF made[t][a][f] = None THEN Listed(r, t, a, f) ELSE tree[t].files[f] = a

\* The directory holds what the attempt made.
InDirectory(t, a) == \A f \in File : made[t][a][f] # None => tree[t].files[f] = a

\* A file the attempt made is still to do, or harvested, or missed by the last
\* listing; one it did not make is harvested if the first listing missed it.
Harvesting(r, t, a) ==
    /\ tree[t].there /\ ~artifacts[t][a].done
    /\ artifacts[t][a].files = run[r].copied
    /\ \A f \in File :
          /\ \/ made[t][a][f] = None \/ f \in run[r].todo
             \/ run[r].copied[f] = a \/ f \in missed[t][a].after
          /\ run[r].copied[f] \in {None, a} \/ f \in missed[t][a].before
          /\ f \in run[r].todo => made[t][a][f] = a \/ f \in missed[t][a].before

\* The last recovery copy is that of the directory of this attempt.
JustCopied(t, a) ==
    LET n == Len(recovery[t])
    IN n > 0 /\ recovery[t][n].attempt = a /\ recovery[t][n].files = tree[t].files

\* What runner r knows at each label of attempt a of task t.
PhaseAt(r, t, a) ==
    /\ row[t] = [status |-> "RUNNING", attempts |-> a]
    /\ run[r].pc \in {"clean", "create", "execute"} => Untouched(r, t, a)
    /\ run[r].pc = "execute" => \A f \in File : run[r].base[f] < a /\ Listed(r, t, a, f)
    /\ run[r].pc \in {"finalize", "list"} =>
           /\ Executed(r, t, a) /\ artifacts[t][a] = Blank /\ run[r].copied = Nothing
           /\ ~tree[t].there => made[t][a] = Nothing /\ ~run[r].ok
    /\ run[r].pc = "harvest" => InDirectory(t, a) /\ Harvesting(r, t, a)
    /\ run[r].pc \in {"copytree", "manifest"} => InDirectory(t, a) /\ ~artifacts[t][a].done
    /\ run[r].pc = "manifest" => JustCopied(t, a)
    /\ run[r].pc \in {"remove", "record"} => AllKept(t, a)

Phase(r) ==
    run[r].pc # "idle" => run[r].attempt \in Attempt /\ PhaseAt(r, run[r].task, run[r].attempt)

\* What each task and each runner has done is where its next step expects it.
WorktreeInv ==
    /\ TypeOK
    /\ \A t \in Task : TaskOK(t)
    /\ \A r \in Runner : Phase(r)

(***************************************************************************)
(* Types                                                                   *)
(***************************************************************************)

RowType == [status : {"PENDING", "RUNNING", "VERIFIED_SUCCESS", "FAILED", "BLOCKED"},
            attempts : 0..MaxAttempts]
RunType == [pc : PC, task : Task, attempt : 0..MaxAttempts, base : Files, ok : BOOLEAN,
            todo : SUBSET File, copied : Files]
ArtifactType == [files : Files, listed : Files, done : BOOLEAN]
MissedType == [before : SUBSET File, after : SUBSET File]
CopyType == [attempt : Attempt, files : Files, done : BOOLEAN]

\* TypeOK with its types named.
LEMMA NamedTypes ==
    /\ TypeOK <=> /\ row \in [Task -> RowType]
                  /\ tree \in [Task -> Directory]
                  /\ run \in [Runner -> RunType]
                  /\ artifacts \in [Task -> [Attempt -> ArtifactType]]
                  /\ recovery \in [Task -> Seq(CopyType)]
                  /\ made \in [Task -> [Attempt -> Files]]
                  /\ missed \in [Task -> [Attempt -> MissedType]]
    /\ TypeOK' <=> /\ row' \in [Task -> RowType]
                   /\ tree' \in [Task -> Directory]
                   /\ run' \in [Runner -> RunType]
                   /\ artifacts' \in [Task -> [Attempt -> ArtifactType]]
                   /\ recovery' \in [Task -> Seq(CopyType)]
                   /\ made' \in [Task -> [Attempt -> Files]]
                   /\ missed' \in [Task -> [Attempt -> MissedType]]
BY DEF TypeOK, RowType, RunType, ArtifactType, CopyType, MissedType

LEMMA ConstantTypes ==
    /\ Nothing \in Files /\ NoTree \in Directory
    /\ \A a \in Attempt : a \in Nat /\ a >= 1 /\ a \in 0..MaxAttempts /\ None # a
    /\ \A t \in Task : Idle(t) \in RunType
BY WorktreeAssumption DEF Nothing, Files, None, NoTree, Directory, Attempt, Idle, RunType, PC

\* What the listings of attempt a of task t missed, and of no other, changes.
MissedOnly(t, a) ==
    /\ missed' \in [Task -> [Attempt -> MissedType]]
    /\ \A u \in Task : u # t => missed'[u] = missed[u]
    /\ \A b \in Attempt : b # a => missed'[t][b] = missed[t][b]

LEMMA MissedBefore ==
    ASSUME TypeOK, NEW t \in Task, NEW a \in Attempt, NEW S \in SUBSET File,
           missed' = [missed EXCEPT ![t][a].before = S]
    PROVE  MissedOnly(t, a) /\ missed'[t][a].before = S /\ missed'[t][a].after = missed[t][a].after
<1> DEFINE new == [missed[t][a] EXCEPT !.before = S]
<1>1. missed \in [Task -> [Attempt -> MissedType]] /\ missed[t][a] \in MissedType
  BY NamedTypes
<1>2. new \in MissedType /\ new.before = S /\ new.after = missed[t][a].after
  BY <1>1 DEF MissedType
<1>3. missed' = [missed EXCEPT ![t] = [missed[t] EXCEPT ![a] = new]]
  OBVIOUS
<1> HIDE DEF new
<1>4. QED
  BY <1>1, <1>2, <1>3 DEF MissedOnly

LEMMA MissedAfter ==
    ASSUME TypeOK, NEW t \in Task, NEW a \in Attempt, NEW S \in SUBSET File,
           missed' = [missed EXCEPT ![t][a].after = S]
    PROVE  MissedOnly(t, a) /\ missed'[t][a].after = S /\ missed'[t][a].before = missed[t][a].before
<1> DEFINE new == [missed[t][a] EXCEPT !.after = S]
<1>1. missed \in [Task -> [Attempt -> MissedType]] /\ missed[t][a] \in MissedType
  BY NamedTypes
<1>2. new \in MissedType /\ new.after = S /\ new.before = missed[t][a].before
  BY <1>1 DEF MissedType
<1>3. missed' = [missed EXCEPT ![t] = [missed[t] EXCEPT ![a] = new]]
  OBVIOUS
<1> HIDE DEF new
<1>4. QED
  BY <1>1, <1>2, <1>3 DEF MissedOnly

\* A listing shows a file as it is, or not at all.
LEMMA ListingShows ==
    ASSUME NEW files, NEW seen \in Listings(files)
    PROVE  /\ seen \in Files /\ Hidden(seen, files) \in SUBSET File
           /\ \A f \in File : /\ seen[f] \in {None, files[f]}
                              /\ seen[f] = files[f] \/ f \in Hidden(seen, files)
BY DEF Listings, Hidden

\* What a runner remembers other than its label.
SameMemory(r) ==
    /\ run'[r].task = run[r].task /\ run'[r].attempt = run[r].attempt /\ run'[r].ok = run[r].ok
    /\ run'[r].base = run[r].base /\ run'[r].todo = run[r].todo /\ run'[r].copied = run[r].copied

\* A runner that goes to another label keeps its memory.
LEMMA GotoType ==
    ASSUME NEW r \in Runner, NEW pc \in PC, TypeOK, Goto(r, pc)
    PROVE  run' \in [Runner -> RunType] /\ run'[r].pc = pc /\ SameMemory(r)
<1>1. run[r] \in RunType /\ run \in [Runner -> RunType]
  BY NamedTypes
<1>2. run' = [run EXCEPT ![r] = [run[r] EXCEPT !.pc = pc]]
  BY DEF Goto
<1>3. [run[r] EXCEPT !.pc = pc] \in RunType
  BY <1>1 DEF RunType
<1>4. QED
  BY <1>1, <1>2, <1>3 DEF SameMemory, RunType

\* Deleting a directory leaves some of its files, or none.
LEMMA CleanedUpType ==
    ASSUME NEW t \in Task, tree \in [Task -> Directory], CleanedUp(t)
    PROVE  /\ tree' \in [Task -> Directory]
           /\ \A u \in Task : u # t => tree'[u] = tree[u]
           /\ \A f \in File : tree'[t].files[f] \in {None, tree[t].files[f]}
<1>1. PICK S \in SUBSET File :
        LET left == [f \in File |-> IF f \in S THEN tree[t].files[f] ELSE None]
        IN tree' = [tree EXCEPT ![t] = IF S = {} THEN NoTree ELSE [@ EXCEPT !.files = left]]
  BY DEF CleanedUp
<1> DEFINE files == [f \in File |-> IF f \in S THEN tree[t].files[f] ELSE None]
           d == IF S = {} THEN NoTree ELSE [tree[t] EXCEPT !.files = files]
<1>2. tree[t].files \in Files /\ tree[t] \in Directory
  BY DEF Directory
<1>3. files \in Files
  BY <1>2, WorktreeAssumption DEF Files, None
<1>4. d \in Directory /\ \A f \in File : d.files[f] \in {None, tree[t].files[f]}
  BY <1>2, <1>3, ConstantTypes DEF Directory, NoTree, Nothing
<1>5. tree' = [tree EXCEPT ![t] = d]
  BY <1>1
<1> HIDE DEF d
<1>6. QED
  BY <1>4, <1>5

(***************************************************************************)
(* The invariant is inductive                                              *)
(***************************************************************************)

\* A step changes nothing of the tasks other than t.
OthersAsWere(t) ==
    \A u \in Task : u # t => /\ row'[u] = row[u] /\ tree'[u] = tree[u] /\ made'[u] = made[u]
                             /\ artifacts'[u] = artifacts[u] /\ recovery'[u] = recovery[u]
                             /\ missed'[u] = missed[u]

LEMMA StepKeeps ==
    ASSUME OneRunner, WorktreeInv, NEW r \in Runner, NEW t \in Task,
           TypeOK', OthersAsWere(t), TaskOK(t)', Phase(r)'
    PROVE  WorktreeInv'
<1>1. ASSUME NEW u \in Task, u # t PROVE TaskOK(u)'
  <2>1. TaskOK(u)
    BY DEF WorktreeInv
  <2>2. /\ row'[u] = row[u] /\ tree'[u] = tree[u] /\ made'[u] = made[u]
        /\ artifacts'[u] = artifacts[u] /\ recovery'[u] = recovery[u] /\ missed'[u] = missed[u]
    BY <1>1 DEF OthersAsWere
  <2>3. QED
    BY <2>1, <2>2 DEF TaskOK, AttemptsCounted, AttemptsOwn, LatestNotLost, SuccessKept, AllKept,
                      ManifestOwn, Kept
<1>2. \A q \in Runner : q = r
  BY DEF OneRunner
<1>3. QED
  BY <1>1, <1>2 DEF WorktreeInv

\* Runner r is making attempt a of task t.
Runs(r, t, a) ==
    /\ run[r] \in RunType /\ run[r].pc # "idle" /\ run[r].task = t /\ run[r].attempt = a
    /\ a \in Nat /\ a >= 1 /\ a # None
    /\ row[t] = [status |-> "RUNNING", attempts |-> a]
    /\ TaskOK(t) /\ PhaseAt(r, t, a)

LEMMA Busy ==
    ASSUME WorktreeInv, NEW r \in Runner, run[r].pc # "idle"
    PROVE  \E t \in Task, a \in Attempt : Runs(r, t, a)
<1> DEFINE t == run[r].task
           a == run[r].attempt
<1>1. run[r] \in RunType
  BY NamedTypes DEF WorktreeInv
<1>2. t \in Task
  BY <1>1 DEF RunType
<1>3. a \in Attempt /\ PhaseAt(r, t, a)
  BY DEF WorktreeInv, Phase
<1>4. Runs(r, t, a)
  BY <1>1, <1>2, <1>3, ConstantTypes DEF Runs, WorktreeInv, PhaseAt
<1>5. QED
  BY <1>2, <1>3, <1>4

\* Numbers in a directory.
LEMMA DirectoryNumbers ==
    ASSUME WorktreeInv, NEW t \in Task
    PROVE  \A f \in File : tree[t].files[f] \in Nat /\ tree[t].files[f] <= row[t].attempts
BY NamedTypes, WorktreeAssumption DEF WorktreeInv, Directory, Files, None, TaskOK, AttemptsOwn

\* What a step during attempt a of task t has to leave true of the task.
LEMMA AttemptStep ==
    ASSUME NEW t \in Task, NEW a \in Attempt, TaskOK(t), row[t].attempts = a, a \in Nat,
           row[t].status = "RUNNING",
           row'[t].attempts = a, row'[t].status # "PENDING",
           row'[t].status = "VERIFIED_SUCCESS" => AllKept(t, a)',
           \A b \in Attempt : b # a => /\ artifacts'[t][b] = artifacts[t][b] /\ made'[t][b] = made[t][b]
                                      /\ missed'[t][b] = missed[t][b],
           \A f \in File : made'[t][a][f] \in {None, a},
           \A f \in File : artifacts'[t][a].done =>
               /\ artifacts'[t][a].listed[f] \in {None, a} \/ f \in missed'[t][a].before
               /\ artifacts'[t][a].listed[f] = artifacts'[t][a].files[f],
           \A f \in File : tree'[t].files[f] <= a,
           \A f \in File : \/ made'[t][a][f] = None \/ Kept(t, a, f)' \/ tree'[t].files[f] = a
                           \/ f \in missed'[t][a].after
    PROVE  TaskOK(t)'
<1>1. AttemptsCounted(t)'
  BY DEF TaskOK, AttemptsCounted
<1>2. AttemptsOwn(t)'
  <2>1. \A b \in Attempt : b > a => b # a
    BY ConstantTypes
  <2>2. QED
    BY <2>1 DEF TaskOK, AttemptsOwn
<1>3. ManifestOwn(t)'
  BY DEF TaskOK, ManifestOwn
<1>4. LatestNotLost(t)'
  BY DEF LatestNotLost
<1>5. SuccessKept(t)'
  BY DEF SuccessKept
<1>6. QED
  BY <1>1, <1>2, <1>3, <1>4, <1>5 DEF TaskOK

\* The same when row, storage and what was made are as they were; what is missed
\* changes before the manifest is written.
LEMMA DirectoryStep ==
    ASSUME NEW t \in Task, NEW a \in Attempt, NEW r, Runs(r, t, a),
           row'[t] = row[t], made'[t] = made[t], artifacts'[t] = artifacts[t],
           recovery'[t] = recovery[t],
           \A b \in Attempt : b # a \/ artifacts[t][a].done => missed'[t][b] = missed[t][b],
           \A f \in File : tree'[t].files[f] <= a,
           \A f \in File : \/ made[t][a][f] = None \/ Kept(t, a, f) \/ tree'[t].files[f] = a
                           \/ f \in missed'[t][a].after
    PROVE  TaskOK(t)'
<1>1. \A f : Kept(t, a, f)' <=> Kept(t, a, f)
  BY DEF Kept
<1>2. \A f \in File : made[t][a][f] \in {None, a}
  BY DEF Runs, TaskOK, AttemptsOwn
<1>3. \A f \in File : artifacts[t][a].done =>
          /\ artifacts[t][a].listed[f] \in {None, a} \/ f \in missed'[t][a].before
          /\ artifacts[t][a].listed[f] = artifacts[t][a].files[f]
  BY DEF Runs, TaskOK, ManifestOwn
<1>4. TaskOK(t) /\ row[t].attempts = a /\ row[t].status = "RUNNING" /\ a \in Nat
  BY DEF Runs
<1>5. QED
  BY <1>1, <1>2, <1>3, <1>4, AttemptStep

LEMMA BeginKeeps ==
    ASSUME OneRunner, WorktreeInv, NEW r \in Runner, NEW t \in Task, Begin(r, t)
    PROVE  WorktreeInv'
<1> DEFINE a == row[t].attempts + 1
           m == [Idle(t) EXCEPT !.pc = "clean", !.attempt = a]
<1>1. /\ row' = [row EXCEPT ![t] = [status |-> "RUNNING", attempts |-> row[t].attempts + 1]]
      /\ run' = [run EXCEPT ![r] = m]
      /\ UNCHANGED <<tree, artifacts, recovery, made, missed>>
      /\ row[t].status = "PENDING"
  BY DEF Begin
<1>2. TaskOK(t) /\ row[t] \in RowType
  BY NamedTypes DEF WorktreeInv
<1>3. row[t].attempts \in Nat /\ row[t].attempts < MaxAttempts /\ a \in Attempt
  BY <1>1, <1>2, WorktreeAssumption DEF TaskOK, AttemptsCounted, RowType, Attempt
<1>4. /\ m \in RunType /\ m.task = t /\ m.attempt = a /\ m.pc = "clean"
      /\ m.copied = Nothing /\ ~m.ok
  BY <1>3, ConstantTypes DEF Idle, RunType, PC
<1> HIDE DEF m
<1>5. [status |-> "RUNNING", attempts |-> a] \in RowType
  BY <1>3, ConstantTypes DEF RowType
<1>6. TypeOK'
  BY <1>1, <1>4, <1>5, NamedTypes DEF WorktreeInv
<1>7. row'[t] = [status |-> "RUNNING", attempts |-> a] /\ run'[r] = m
  BY <1>1, NamedTypes DEF WorktreeInv
<1>8. OthersAsWere(t)
  BY <1>1, NamedTypes DEF WorktreeInv, OthersAsWere
<1>9. made[t][a] = Nothing /\ artifacts[t][a] = Blank /\ \A f \in File : made[t][a][f] = None
  BY <1>2, <1>3 DEF TaskOK, AttemptsOwn, Nothing
<1>10. \A f \in File : tree[t].files[f] \in Nat /\ tree[t].files[f] < a
  BY <1>3, DirectoryNumbers
<1>11. TaskOK(t)'
  <2>1. AttemptsCounted(t)'
    BY <1>1, <1>2, <1>3, <1>7 DEF TaskOK, AttemptsCounted
  <2>2. AttemptsOwn(t)'
    <3>1. \A b \in Attempt : b > a => b > row[t].attempts
      BY <1>3, ConstantTypes
    <3>2. \A f \in File : tree[t].files[f] <= a
      BY <1>3, <1>10
    <3>3. QED
      BY <1>1, <1>2, <1>7, <3>1, <3>2 DEF TaskOK, AttemptsOwn
  <2>3. LatestNotLost(t)' /\ SuccessKept(t)'
    BY <1>1, <1>7, <1>9 DEF LatestNotLost, SuccessKept
  <2>4. ManifestOwn(t)'
    BY <1>1, <1>2 DEF TaskOK, ManifestOwn
  <2>5. QED
    BY <2>1, <2>2, <2>3, <2>4 DEF TaskOK
<1>12. Phase(r)'
  BY <1>1, <1>3, <1>4, <1>7, <1>9, <1>10 DEF Phase, PhaseAt, Untouched
<1>13. QED
  BY <1>6, <1>8, <1>11, <1>12, StepKeeps

LEMMA ReconcileKeeps ==
    ASSUME OneRunner, WorktreeInv, NEW r \in Runner, NEW t \in Task, Reconcile(r, t)
    PROVE  WorktreeInv'
<1> DEFINE again == t \in Idempotent /\ row[t].attempts < MaxAttempts
           status == IF again THEN "PENDING" ELSE "BLOCKED"
<1>1. /\ row' = [row EXCEPT ![t] = [row[t] EXCEPT !.status = status]]
      /\ UNCHANGED <<tree, run, artifacts, recovery, made, missed>> /\ run[r].pc = "idle"
  BY DEF Reconcile
<1>2. TaskOK(t) /\ row[t] \in RowType
  BY NamedTypes DEF WorktreeInv
<1>3. [row[t] EXCEPT !.status = status] \in RowType
  BY <1>2 DEF RowType
<1>4. row'[t].status = status /\ row'[t].attempts = row[t].attempts
  BY <1>1, <1>2, NamedTypes DEF WorktreeInv, RowType
<1> HIDE DEF status
<1>5. TypeOK'
  BY <1>1, <1>3, NamedTypes DEF WorktreeInv
<1>6. OthersAsWere(t)
  BY <1>1, NamedTypes DEF WorktreeInv, OthersAsWere
<1>7. AttemptsCounted(t)' /\ AttemptsOwn(t)' /\ ManifestOwn(t)'
  BY <1>1, <1>2, <1>4 DEF TaskOK, AttemptsCounted, AttemptsOwn, ManifestOwn, status
<1>8. LatestNotLost(t)' /\ SuccessKept(t)'
  BY <1>1, <1>2, <1>4 DEF TaskOK, LatestNotLost, SuccessKept, Kept, status
<1>9. Phase(r)'
  BY <1>1 DEF Phase
<1>10. QED
  BY <1>5, <1>6, <1>7, <1>8, <1>9, StepKeeps DEF TaskOK

LEMMA CleanKeeps ==
    ASSUME OneRunner, WorktreeInv, NEW r \in Runner, Clean(r)
    PROVE  WorktreeInv'
<1>1. PICK t \in Task, a \in Attempt : Runs(r, t, a)
  BY Busy DEF Clean
<1>2. /\ run[r].pc = "clean" /\ Goto(r, "create")
      /\ UNCHANGED <<row, artifacts, recovery, made, missed>>
      /\ CleanedUp(t) \/ UNCHANGED tree
  BY <1>1 DEF Clean, Runs
<1>3. run' \in [Runner -> RunType] /\ run'[r].pc = "create" /\ SameMemory(r)
  BY <1>2, GotoType DEF WorktreeInv, PC
<1>4. /\ tree' \in [Task -> Directory]
      /\ \A u \in Task : u # t => tree'[u] = tree[u]
      /\ \A f \in File : tree'[t].files[f] \in {None, tree[t].files[f]}
  BY <1>2, CleanedUpType, NamedTypes DEF WorktreeInv
<1>5. TypeOK'
  BY <1>2, <1>3, <1>4, NamedTypes DEF WorktreeInv
<1>6. OthersAsWere(t)
  BY <1>2, <1>4 DEF OthersAsWere
<1>7. Untouched(r, t, a)
  BY <1>1, <1>2 DEF Runs, PhaseAt
<1>8. \A f \in File : tree'[t].files[f] < a /\ tree'[t].files[f] <= a
  BY <1>1, <1>4, <1>7, DirectoryNumbers DEF Untouched, None, Runs
<1>9. TaskOK(t)'
  BY <1>1, <1>2, <1>7, <1>8, DirectoryStep DEF Untouched, Nothing, Runs
<1>10. Phase(r)'
  BY <1>1, <1>2, <1>3, <1>7, <1>8 DEF Phase, PhaseAt, Untouched, Runs, SameMemory
<1>11. QED
  BY <1>5, <1>6, <1>9, <1>10, StepKeeps

LEMMA CreateKeeps ==
    ASSUME OneRunner, WorktreeInv, NEW r \in Runner, Create(r)
    PROVE  WorktreeInv'
<1>1. PICK t \in Task, a \in Attempt : Runs(r, t, a)
  BY Busy DEF Create
<1>2. PICK seen \in Listings(tree[t].files) :
        /\ run' = [run EXCEPT ![r].pc = "execute", ![r].base = seen]
        /\ missed' = [missed EXCEPT ![t][a].before = Hidden(seen, tree[t].files)]
  <2>1. run[r].task = t /\ run[r].attempt = a
    BY <1>1 DEF Runs
  <2>2. QED
    BY <2>1 DEF Create, Dir, Number
<1> DEFINE d == [tree[t] EXCEPT !.there = TRUE]
           m == [run[r] EXCEPT !.pc = "execute", !.base = seen]
<1>3. /\ run[r].pc = "create" /\ tree' = [tree EXCEPT ![t] = d] /\ run' = [run EXCEPT ![r] = m]
      /\ UNCHANGED <<row, artifacts, recovery, made>>
  BY <1>1, <1>2 DEF Create, Runs
<1>4. /\ seen \in Files /\ Hidden(seen, tree[t].files) \in SUBSET File
      /\ \A f \in File : /\ seen[f] \in {None, tree[t].files[f]}
                         /\ seen[f] = tree[t].files[f] \/ f \in Hidden(seen, tree[t].files)
  BY <1>2, ListingShows
<1>5. MissedOnly(t, a) /\ missed'[t][a].before = Hidden(seen, tree[t].files)
      /\ missed'[t][a].after = missed[t][a].after
  BY <1>2, <1>4, MissedBefore DEF WorktreeInv
<1>6. d \in Directory /\ d.files = tree[t].files /\ d.there
  BY NamedTypes DEF WorktreeInv, Directory
<1>7. /\ m \in RunType /\ m.pc = "execute" /\ m.task = t /\ m.attempt = a
      /\ m.base = seen /\ m.copied = run[r].copied /\ m.ok = run[r].ok
  BY <1>1, <1>4 DEF Runs, RunType, PC
<1> HIDE DEF d, m
<1>8. TypeOK' /\ tree'[t] = d /\ run'[r] = m
  BY <1>3, <1>5, <1>6, <1>7, NamedTypes DEF WorktreeInv, MissedOnly
<1>9. OthersAsWere(t)
  BY <1>3, <1>5, NamedTypes DEF WorktreeInv, OthersAsWere, MissedOnly
<1>10. Untouched(r, t, a)
  BY <1>1, <1>3 DEF Runs, PhaseAt
<1>11. \A f \in File : tree'[t].files[f] < a /\ tree'[t].files[f] <= a /\ seen[f] < a
  BY <1>1, <1>4, <1>6, <1>8, <1>10, DirectoryNumbers DEF Untouched, Runs, None
<1>12. TaskOK(t)'
  BY <1>1, <1>3, <1>5, <1>10, <1>11, DirectoryStep DEF Untouched, Nothing, Blank, MissedOnly
<1>13. Phase(r)'
  <2>1. Untouched(r, t, a)'
    BY <1>3, <1>7, <1>8, <1>10, <1>11 DEF Untouched
  <2>2. \A f \in File : (run[r].base[f] < a /\ Listed(r, t, a, f))'
    BY <1>4, <1>5, <1>6, <1>7, <1>8, <1>11 DEF Listed
  <2>3. QED
    BY <1>1, <1>3, <1>7, <1>8, <2>1, <2>2 DEF Phase, PhaseAt, Runs
<1>14. QED
  BY <1>8, <1>9, <1>12, <1>13, StepKeeps

LEMMA CreateRaisesKeeps ==
    ASSUME OneRunner, WorktreeInv, NEW r \in Runner, CreateRaises(r)
    PROVE  WorktreeInv'
<1>1. PICK t \in Task, a \in Attempt : Runs(r, t, a)
  BY Busy DEF CreateRaises
<1>2. run[r].pc = "create" /\ Goto(r, "record") /\ UNCHANGED <<row, tree, artifacts, recovery, made, missed>>
  BY DEF CreateRaises
<1>3. run' \in [Runner -> RunType] /\ run'[r].pc = "record" /\ SameMemory(r)
  BY <1>2, GotoType DEF WorktreeInv, PC
<1>4. TypeOK'
  BY <1>2, <1>3, NamedTypes DEF WorktreeInv
<1>5. OthersAsWere(t)
  BY <1>2 DEF OthersAsWere
<1>6. \A f \in File : made[t][a][f] = None
  BY <1>1, <1>2 DEF Runs, PhaseAt, Untouched, Nothing
<1>7. \A f \in File : tree'[t].files[f] <= a
  BY <1>1, <1>2, DirectoryNumbers DEF Runs
<1>8. TaskOK(t)'
  BY <1>1, <1>2, <1>6, <1>7, DirectoryStep
<1>9. Phase(r)'
  BY <1>1, <1>2, <1>3, <1>6 DEF Phase, PhaseAt, Runs, SameMemory, AllKept
<1>10. QED
  BY <1>4, <1>5, <1>8, <1>9, StepKeeps

\* The files S of a task's directory are written by attempt a.
Writes(t, a, S) ==
    tree' = [tree EXCEPT ![t].files = [f \in File |-> IF f \in S THEN a ELSE @[f]]]

LEMMA WriteType ==
    ASSUME TypeOK, NEW t \in Task, NEW a \in Attempt, NEW S \in SUBSET File, Writes(t, a, S)
    PROVE  /\ tree' \in [Task -> Directory]
           /\ \A u \in Task : u # t => tree'[u] = tree[u]
           /\ tree'[t].there = tree[t].there
           /\ \A f \in File : tree'[t].files[f] = IF f \in S THEN a ELSE tree[t].files[f]
<1> DEFINE files == [f \in File |-> IF f \in S THEN a ELSE tree[t].files[f]]
           d == [tree[t] EXCEPT !.files = files]
<1>1. tree[t] \in Directory /\ tree[t].files \in Files /\ tree \in [Task -> Directory]
  BY NamedTypes DEF Directory
<1>2. files \in Files
  BY <1>1 DEF Files, Attempt, None
<1>3. d \in Directory /\ d.there = tree[t].there /\ d.files = files
  BY <1>1, <1>2 DEF Directory
<1>4. tree' = [tree EXCEPT ![t] = d]
  BY DEF Writes
<1> HIDE DEF d
<1>5. QED
  BY <1>1, <1>3, <1>4

LEMMA ExecuteKeeps ==
    ASSUME OneRunner, WorktreeInv, NEW r \in Runner, Execute(r)
    PROVE  WorktreeInv'
<1>1. PICK t \in Task, a \in Attempt : Runs(r, t, a)
  BY Busy DEF Execute
<1>2. PICK S \in SUBSET File, ok \in BOOLEAN :
        /\ ok => tree[t].there
        /\ ~tree[t].there => S = {}
        /\ Writes(t, a, S)
        /\ made' = [made EXCEPT ![t][a] = [f \in File |-> IF f \in S THEN a ELSE None]]
        /\ run' = [run EXCEPT ![r].pc = "finalize", ![r].ok = ok]
  <2>1. run[r].task = t /\ run[r].attempt = a
    BY <1>1 DEF Runs
  <2>2. \E S \in IF tree[t].there THEN SUBSET File ELSE {{}}, ok \in BOOLEAN :
          /\ ok => tree[t].there
          /\ Writes(t, a, S)
          /\ made' = [made EXCEPT ![t][a] = [f \in File |-> IF f \in S THEN a ELSE None]]
          /\ run' = [run EXCEPT ![r].pc = "finalize", ![r].ok = ok]
    <3>1. \E S \in IF tree[run[r].task].there THEN SUBSET File ELSE {{}}, ok \in BOOLEAN :
            /\ ok => tree[run[r].task].there
            /\ Writes(run[r].task, run[r].attempt, S)
            /\ made' = [made EXCEPT ![run[r].task][run[r].attempt] =
                            [f \in File |-> IF f \in S THEN run[r].attempt ELSE None]]
            /\ run' = [run EXCEPT ![r].pc = "finalize", ![r].ok = ok]
      BY DEF Execute, Writes, Dir, Number
    <3>2. QED
      BY <2>1, <3>1
  <2>3. \A S : S \in (IF tree[t].there THEN SUBSET File ELSE {{}}) =>
              S \in SUBSET File /\ (~tree[t].there => S = {})
    OBVIOUS
  <2>4. QED
    BY <2>2, <2>3
<1>3. run[r].pc = "execute" /\ UNCHANGED <<row, artifacts, recovery, missed>>
  BY DEF Execute
<1> DEFINE new == [f \in File |-> IF f \in S THEN a ELSE None]
           m == [run[r] EXCEPT !.pc = "finalize", !.ok = ok]
<1>4. new \in Files
  BY ConstantTypes, WorktreeAssumption DEF Files, None
<1>5. made' \in [Task -> [Attempt -> Files]] /\ made'[t][a] = new
      /\ (\A b \in Attempt : b # a => made'[t][b] = made[t][b])
      /\ (\A u \in Task : u # t => made'[u] = made[u])
  BY <1>2, <1>4, NamedTypes DEF WorktreeInv
<1>6. /\ tree' \in [Task -> Directory]
      /\ \A u \in Task : u # t => tree'[u] = tree[u]
      /\ tree'[t].there = tree[t].there
      /\ \A f \in File : tree'[t].files[f] = IF f \in S THEN a ELSE tree[t].files[f]
  BY <1>2, WriteType DEF WorktreeInv
<1>7. run' = [run EXCEPT ![r] = m] /\ run[r] \in RunType
  BY <1>1, <1>2 DEF Runs
<1>8. /\ m \in RunType /\ m.pc = "finalize" /\ m.task = t /\ m.attempt = a
      /\ m.base = run[r].base /\ m.copied = run[r].copied /\ m.ok = ok
  BY <1>1, <1>7 DEF Runs, RunType, PC
<1> HIDE DEF m
<1>9. TypeOK' /\ run'[r] = m
  BY <1>3, <1>5, <1>6, <1>7, <1>8, NamedTypes DEF WorktreeInv
<1>10. OthersAsWere(t)
  BY <1>3, <1>5, <1>6 DEF OthersAsWere
<1>11. Untouched(r, t, a) /\ \A f \in File : run[r].base[f] < a /\ Listed(r, t, a, f)
  BY <1>1, <1>3 DEF Runs, PhaseAt
<1>12. \A f \in File : tree'[t].files[f] <= a
  BY <1>1, <1>6, <1>11, DirectoryNumbers DEF Untouched, Runs
<1>13. \A f \in File : new[f] = IF f \in S THEN a ELSE None
  OBVIOUS
<1>14. ~tree[t].there => new = Nothing
  BY <1>2 DEF Nothing
<1> HIDE DEF new
<1>15. TaskOK(t)'
  <2>1. TaskOK(t) /\ row[t].attempts = a /\ row[t].status = "RUNNING" /\ a \in Nat
    BY <1>1 DEF Runs
  <2>2. \A f \in File : made'[t][a][f] \in {None, a}
    BY <1>5, <1>13
  <2>3. ~artifacts'[t][a].done
    BY <1>3, <1>11 DEF Untouched, Blank
  <2>4. \A f \in File : made'[t][a][f] = None \/ tree'[t].files[f] = a
    BY <1>5, <1>6, <1>13
  <2>5. QED
    BY <1>3, <1>5, <1>12, <2>1, <2>2, <2>3, <2>4, AttemptStep
<1>16. Phase(r)'
  <2>1. Executed(r, t, a)'
    BY <1>1, <1>3, <1>5, <1>6, <1>8, <1>9, <1>11, <1>13 DEF Executed, Listed, Runs
  <2>2. /\ artifacts'[t][a] = Blank /\ run'[r].copied = Nothing
        /\ ~tree'[t].there => made'[t][a] = Nothing /\ ~run'[r].ok
    BY <1>2, <1>3, <1>5, <1>6, <1>8, <1>9, <1>11, <1>14 DEF Untouched
  <2>3. QED
    BY <1>1, <1>3, <1>8, <1>9, <2>1, <2>2 DEF Phase, PhaseAt, Runs
<1>17. QED
  BY <1>9, <1>10, <1>15, <1>16, StepKeeps

LEMMA FinalizeFailureKeeps ==
    ASSUME OneRunner, WorktreeInv, NEW r \in Runner, FinalizeFailure(r)
    PROVE  WorktreeInv'
<1>1. PICK t \in Task, a \in Attempt : Runs(r, t, a)
  BY Busy DEF FinalizeFailure
<1> DEFINE pc == IF tree[t].there THEN "copytree" ELSE "record"
<1>2. /\ run[r].pc = "finalize" /\ Goto(r, pc)
      /\ UNCHANGED <<row, tree, artifacts, recovery, made, missed>>
  BY <1>1 DEF FinalizeFailure, Runs, Dir
<1>3. run' \in [Runner -> RunType] /\ run'[r].pc = pc /\ SameMemory(r)
  BY <1>2, GotoType DEF WorktreeInv, PC
<1>4. TypeOK'
  BY <1>2, <1>3, NamedTypes DEF WorktreeInv
<1>5. OthersAsWere(t)
  BY <1>2 DEF OthersAsWere
<1>6. /\ Executed(r, t, a) /\ artifacts[t][a] = Blank
      /\ ~tree[t].there => made[t][a] = Nothing /\ ~run[r].ok
  BY <1>1, <1>2 DEF Runs, PhaseAt
<1>7. InDirectory(t, a)
  BY <1>6 DEF Executed, InDirectory
<1>8. TaskOK(t)'
  <2>1. \A f \in File : tree'[t].files[f] <= a
    BY <1>1, <1>2, DirectoryNumbers DEF Runs
  <2>2. QED
    BY <1>1, <1>2, <1>7, <2>1, DirectoryStep DEF InDirectory
<1>9. Phase(r)'
  <2>1. pc = "record" => AllKept(t, a)'
    BY <1>2, <1>6 DEF AllKept, Nothing
  <2>2. InDirectory(t, a)' /\ ~artifacts'[t][a].done
    BY <1>2, <1>6, <1>7 DEF InDirectory, Blank
  <2>3. QED
    BY <1>1, <1>2, <1>3, <2>1, <2>2 DEF Phase, PhaseAt, Runs, SameMemory
<1>10. QED
  BY <1>4, <1>5, <1>8, <1>9, StepKeeps

LEMMA FinalizeSuccessKeeps ==
    ASSUME OneRunner, WorktreeInv, NEW r \in Runner, FinalizeSuccess(r)
    PROVE  WorktreeInv'
<1>1. PICK t \in Task, a \in Attempt : Runs(r, t, a)
  BY Busy DEF FinalizeSuccess
<1>2. run[r].pc = "finalize" /\ tree[t].there /\ UNCHANGED <<row, tree, artifacts, recovery, made>>
  BY <1>1 DEF FinalizeSuccess, Runs, Dir
<1>3. PICK seen \in Listings(tree[t].files) :
        \/ Goto(r, "list") /\ UNCHANGED missed
        \/ /\ seen = run[r].base /\ Goto(r, "remove")
           /\ missed' = [missed EXCEPT ![t][a].after = Hidden(seen, tree[t].files)]
  <2>1. run[r].task = t /\ run[r].attempt = a
    BY <1>1 DEF Runs
  <2>2. QED
    BY <2>1 DEF FinalizeSuccess, Dir, Number
<1>4. /\ seen \in Files /\ Hidden(seen, tree[t].files) \in SUBSET File
      /\ \A f \in File : /\ seen[f] \in {None, tree[t].files[f]}
                         /\ seen[f] = tree[t].files[f] \/ f \in Hidden(seen, tree[t].files)
  BY <1>3, ListingShows
<1>5. /\ Executed(r, t, a) /\ artifacts[t][a] = Blank /\ run[r].copied = Nothing
  BY <1>1, <1>2 DEF Runs, PhaseAt
<1>6. InDirectory(t, a) /\ ~artifacts[t][a].done
  BY <1>5 DEF Executed, InDirectory, Blank
<1>7. \A f \in File : made[t][a][f] \in {None, a}
  BY <1>1 DEF Runs, TaskOK, AttemptsOwn
<1>8. \A f \in File : tree'[t].files[f] <= a
  BY <1>1, <1>2, DirectoryNumbers DEF Runs
<1>9. CASE Goto(r, "list") /\ UNCHANGED missed
  <2>1. run' \in [Runner -> RunType] /\ run'[r].pc = "list" /\ SameMemory(r)
    BY <1>9, GotoType DEF WorktreeInv, PC
  <2>2. TypeOK'
    BY <1>2, <1>9, <2>1, NamedTypes DEF WorktreeInv
  <2>3. OthersAsWere(t)
    BY <1>2, <1>9 DEF OthersAsWere
  <2>4. TaskOK(t)'
    BY <1>1, <1>2, <1>6, <1>8, <1>9, DirectoryStep DEF InDirectory
  <2>5. Phase(r)'
    <3>1. Executed(r, t, a)'
      BY <1>2, <1>5, <1>9, <2>1 DEF Executed, Listed, SameMemory
    <3>2. QED
      BY <1>1, <1>2, <1>5, <1>9, <2>1, <3>1 DEF Phase, PhaseAt, Runs, SameMemory
  <2>6. QED
    BY <2>2, <2>3, <2>4, <2>5, StepKeeps
<1>10. CASE /\ seen = run[r].base /\ Goto(r, "remove")
            /\ missed' = [missed EXCEPT ![t][a].after = Hidden(seen, tree[t].files)]
  <2>1. run' \in [Runner -> RunType] /\ run'[r].pc = "remove" /\ SameMemory(r)
    BY <1>10, GotoType DEF WorktreeInv, PC
  <2>2. MissedOnly(t, a) /\ missed'[t][a].after = Hidden(seen, tree[t].files)
        /\ missed'[t][a].before = missed[t][a].before
    BY <1>4, <1>10, MissedAfter DEF WorktreeInv
  <2>3. TypeOK'
    BY <1>2, <2>1, <2>2, NamedTypes DEF WorktreeInv, MissedOnly
  <2>4. OthersAsWere(t)
    BY <1>2, <2>2 DEF OthersAsWere, MissedOnly
  <2>5. TaskOK(t)'
    BY <1>1, <1>2, <1>6, <1>8, <2>2, DirectoryStep DEF InDirectory, MissedOnly
  <2>6. AllKept(t, a)'
    <3>1. ASSUME NEW f \in File, made[t][a][f] # None PROVE f \in Hidden(seen, tree[t].files)
      <4>1. tree[t].files[f] = a /\ run[r].base[f] < a /\ a \in Nat
        BY <1>1, <1>5, <3>1 DEF Executed, Runs
      <4>2. QED
        BY <1>4, <1>10, <4>1
    <3>2. QED
      BY <1>2, <2>2, <3>1 DEF AllKept
  <2>7. Phase(r)'
    BY <1>1, <1>2, <2>1, <2>6 DEF Phase, PhaseAt, Runs, SameMemory
  <2>8. QED
    BY <2>3, <2>4, <2>5, <2>7, StepKeeps
<1>11. QED
  BY <1>3, <1>9, <1>10

LEMMA HarvestListKeeps ==
    ASSUME OneRunner, WorktreeInv, NEW r \in Runner, HarvestList(r)
    PROVE  WorktreeInv'
<1>1. PICK t \in Task, a \in Attempt : Runs(r, t, a)
  BY Busy DEF HarvestList
<1>2. run[r].pc = "list" /\ tree[t].there /\ UNCHANGED <<row, tree, artifacts, recovery, made>>
  BY <1>1 DEF HarvestList, Runs, Dir
<1>3. PICK seen \in Listings(tree[t].files) :
        /\ run' = [run EXCEPT ![r].pc = "harvest",
                              ![r].todo = {f \in File : seen[f] \notin {None, run[r].base[f]}}]
        /\ missed' = [missed EXCEPT ![t][a].after = Hidden(seen, tree[t].files)]
  <2>1. run[r].task = t /\ run[r].attempt = a
    BY <1>1 DEF Runs
  <2>2. QED
    BY <2>1 DEF HarvestList, Dir, Number
<1>4. /\ seen \in Files /\ Hidden(seen, tree[t].files) \in SUBSET File
      /\ \A f \in File : /\ seen[f] \in {None, tree[t].files[f]}
                         /\ seen[f] = tree[t].files[f] \/ f \in Hidden(seen, tree[t].files)
  BY <1>3, ListingShows
<1> DEFINE todo == {f \in File : seen[f] \notin {None, run[r].base[f]}}
           m == [run[r] EXCEPT !.pc = "harvest", !.todo = todo]
<1>5. run' = [run EXCEPT ![r] = m]
  BY <1>3
<1>6. /\ m \in RunType /\ m.pc = "harvest" /\ m.task = t /\ m.attempt = a
      /\ m.todo = todo /\ m.copied = run[r].copied
  BY <1>1 DEF Runs, RunType, PC
<1> HIDE DEF m
<1>7. MissedOnly(t, a) /\ missed'[t][a].after = Hidden(seen, tree[t].files)
      /\ missed'[t][a].before = missed[t][a].before
  BY <1>3, <1>4, MissedAfter DEF WorktreeInv
<1>8. TypeOK' /\ run'[r] = m
  BY <1>2, <1>5, <1>6, <1>7, NamedTypes DEF WorktreeInv, MissedOnly
<1>9. OthersAsWere(t)
  BY <1>2, <1>7 DEF OthersAsWere, MissedOnly
<1>10. /\ Executed(r, t, a) /\ artifacts[t][a] = Blank /\ run[r].copied = Nothing
  BY <1>1, <1>2 DEF Runs, PhaseAt
<1>11. InDirectory(t, a) /\ ~artifacts[t][a].done /\ artifacts[t][a].files = Nothing
  BY <1>10 DEF Executed, InDirectory, Blank
<1>12. TaskOK(t)'
  <2>1. \A f \in File : tree'[t].files[f] <= a
    BY <1>1, <1>2, DirectoryNumbers DEF Runs
  <2>2. QED
    BY <1>1, <1>2, <1>7, <1>11, <2>1, DirectoryStep DEF InDirectory, MissedOnly
<1>13. ASSUME NEW f \in File
       PROVE  /\ made[t][a][f] = None \/ f \in todo \/ f \in Hidden(seen, tree[t].files)
              /\ f \in todo => made[t][a][f] = a \/ f \in missed[t][a].before
  <2>1. made[t][a][f] \in {None, a} /\ a \in Nat /\ a # None
    BY <1>1 DEF Runs, TaskOK, AttemptsOwn
  <2>2. CASE made[t][a][f] = None
    BY <1>4, <1>10, <2>2 DEF Executed, Listed
  <2>3. CASE made[t][a][f] = a
    <3>1. tree[t].files[f] = a /\ run[r].base[f] < a
      BY <1>10, <2>1, <2>3 DEF Executed
    <3>2. QED
      BY <1>4, <2>1, <2>3, <3>1
  <2>4. QED
    BY <2>1, <2>2, <2>3
<1> HIDE DEF todo
<1>14. Phase(r)'
  <2>1. InDirectory(t, a)'
    BY <1>2, <1>11 DEF InDirectory
  <2>2. Harvesting(r, t, a)'
    BY <1>2, <1>6, <1>7, <1>8, <1>10, <1>11, <1>13 DEF Harvesting, Nothing
  <2>3. QED
    BY <1>1, <1>2, <1>6, <1>8, <2>1, <2>2 DEF Phase, PhaseAt, Runs
<1>15. QED
  BY <1>8, <1>9, <1>12, <1>14, StepKeeps

LEMMA HarvestFileKeeps ==
    ASSUME OneRunner, WorktreeInv, NEW r \in Runner, HarvestFile(r)
    PROVE  WorktreeInv'
<1>1. PICK t \in Task, a \in Attempt : Runs(r, t, a)
  BY Busy DEF HarvestFile
<1>2. run[r].pc = "harvest" /\ UNCHANGED <<row, tree, recovery, made, missed>>
  BY DEF HarvestFile
<1>3. InDirectory(t, a) /\ Harvesting(r, t, a)
  BY <1>1, <1>2 DEF Runs, PhaseAt
<1>4. PICK f \in run[r].todo :
        /\ artifacts' = [artifacts EXCEPT ![t][a].files[f] = tree[t].files[f]]
        /\ run' = [run EXCEPT ![r].todo = @ \ {f}, ![r].copied[f] = tree[t].files[f]]
  BY <1>1, <1>3 DEF HarvestFile, Runs, Dir, Number, Harvesting
<1> DEFINE art == artifacts[t][a]
           copied == [run[r].copied EXCEPT ![f] = tree[t].files[f]]
           new == [art EXCEPT !.files = [art.files EXCEPT ![f] = tree[t].files[f]]]
           m == [run[r] EXCEPT !.todo = run[r].todo \ {f}, !.copied = copied]
<1>5. /\ art \in ArtifactType /\ art.files \in Files /\ run[r].copied \in Files
      /\ run[r].todo \subseteq File /\ f \in File /\ tree[t].files \in Files
  BY <1>1, NamedTypes DEF WorktreeInv, ArtifactType, Runs, RunType, Directory
<1>6. /\ tree[t].files[f] = a \/ f \in missed[t][a].before
      /\ made[t][a][f] # None => tree[t].files[f] = a
      /\ \A g \in File : made[t][a][g] \in {None, a}
  BY <1>1, <1>3, <1>4, <1>5, ConstantTypes
     DEF Harvesting, InDirectory, Runs, TaskOK, AttemptsOwn, None
<1>7. copied \in Files /\ \A g \in File : copied[g] = IF g = f THEN tree[t].files[f] ELSE run[r].copied[g]
  BY <1>5 DEF Files
<1>8. new \in ArtifactType /\ new.files = copied /\ ~new.done
  <2>1. art.files = run[r].copied /\ ~art.done
    BY <1>3 DEF Harvesting
  <2>2. QED
    BY <1>5, <1>7, <2>1 DEF ArtifactType
<1>9. /\ m \in RunType /\ m.pc = "harvest" /\ m.task = t /\ m.attempt = a
      /\ m.todo = run[r].todo \ {f} /\ m.copied = copied
  BY <1>1, <1>2, <1>5, <1>7 DEF Runs, RunType
<1>10. artifacts' = [artifacts EXCEPT ![t] = [artifacts[t] EXCEPT ![a] = new]]
  BY <1>4
<1>11. run' = [run EXCEPT ![r] = m]
  BY <1>4
<1> HIDE DEF new, copied, m
<1>12. /\ artifacts' \in [Task -> [Attempt -> ArtifactType]] /\ artifacts'[t][a] = new
       /\ (\A b \in Attempt : b # a => artifacts'[t][b] = artifacts[t][b])
       /\ (\A u \in Task : u # t => artifacts'[u] = artifacts[u])
  BY <1>8, <1>10, NamedTypes DEF WorktreeInv
<1>13. TypeOK' /\ run'[r] = m
  BY <1>2, <1>9, <1>11, <1>12, NamedTypes DEF WorktreeInv
<1>14. OthersAsWere(t)
  BY <1>2, <1>12 DEF OthersAsWere
<1>15. TaskOK(t)'
  <2>1. TaskOK(t) /\ row[t].attempts = a /\ row[t].status = "RUNNING" /\ a \in Nat
    BY <1>1 DEF Runs
  <2>2. \A g \in File : tree'[t].files[g] <= a
    BY <1>1, <1>2, DirectoryNumbers DEF Runs
  <2>3. \A g \in File : made'[t][a][g] = None \/ tree'[t].files[g] = a
    BY <1>2, <1>3 DEF InDirectory
  <2>4. QED
    BY <1>2, <1>6, <1>8, <1>12, <2>1, <2>2, <2>3, AttemptStep
<1>16. Phase(r)'
  <2>1. InDirectory(t, a)'
    BY <1>2, <1>3 DEF InDirectory
  <2>2. Harvesting(r, t, a)'
    BY <1>2, <1>3, <1>6, <1>7, <1>8, <1>9, <1>12, <1>13 DEF Harvesting
  <2>3. QED
    BY <1>1, <1>2, <1>9, <1>13, <2>1, <2>2 DEF Phase, PhaseAt, Runs
<1>17. QED
  BY <1>13, <1>14, <1>15, <1>16, StepKeeps

LEMMA HarvestManifestKeeps ==
    ASSUME OneRunner, WorktreeInv, NEW r \in Runner, HarvestManifest(r)
    PROVE  WorktreeInv'
<1>1. PICK t \in Task, a \in Attempt : Runs(r, t, a)
  BY Busy DEF HarvestManifest
<1> DEFINE art == artifacts[t][a]
           new == [art EXCEPT !.listed = run[r].copied, !.done = TRUE]
<1>2. /\ run[r].pc = "harvest" /\ run[r].todo = {} /\ Goto(r, "remove")
      /\ artifacts' = [artifacts EXCEPT ![t] = [artifacts[t] EXCEPT ![a] = new]]
      /\ UNCHANGED <<row, tree, recovery, made, missed>>
  BY <1>1 DEF HarvestManifest, Runs, Number
<1>3. InDirectory(t, a) /\ Harvesting(r, t, a)
  BY <1>1, <1>2 DEF Runs, PhaseAt
<1>4. art \in ArtifactType /\ run[r].copied \in Files
  BY <1>1, NamedTypes DEF WorktreeInv, Runs, RunType
<1>5. new \in ArtifactType /\ new.listed = run[r].copied /\ new.done /\ new.files = art.files
  BY <1>4 DEF ArtifactType
<1>6. run' \in [Runner -> RunType] /\ run'[r].pc = "remove" /\ SameMemory(r)
  BY <1>2, GotoType DEF WorktreeInv, PC
<1> HIDE DEF new
<1>7. /\ artifacts' \in [Task -> [Attempt -> ArtifactType]] /\ artifacts'[t][a] = new
      /\ (\A b \in Attempt : b # a => artifacts'[t][b] = artifacts[t][b])
      /\ (\A u \in Task : u # t => artifacts'[u] = artifacts[u])
  BY <1>2, <1>5, NamedTypes DEF WorktreeInv
<1>8. TypeOK'
  BY <1>2, <1>6, <1>7, NamedTypes DEF WorktreeInv
<1>9. OthersAsWere(t)
  BY <1>2, <1>7 DEF OthersAsWere
<1>10. \A f \in File :
          /\ new.listed[f] = new.files[f]
          /\ new.listed[f] \in {None, a} \/ f \in missed'[t][a].before
          /\ made'[t][a][f] \in {None, a}
          /\ \/ made'[t][a][f] = None \/ f \in missed'[t][a].after
             \/ new.listed[f] = made'[t][a][f]
  BY <1>1, <1>2, <1>3, <1>5 DEF Harvesting, Runs, TaskOK, AttemptsOwn
<1>11. AllKept(t, a)'
  BY <1>5, <1>7, <1>10 DEF AllKept, Kept
<1>12. TaskOK(t)'
  <2>1. TaskOK(t) /\ row[t].attempts = a /\ row[t].status = "RUNNING" /\ a \in Nat
    BY <1>1 DEF Runs
  <2>2. \A f \in File : tree'[t].files[f] <= a
    BY <1>1, <1>2, DirectoryNumbers DEF Runs
  <2>3. \A f \in File : made'[t][a][f] = None \/ tree'[t].files[f] = a
    BY <1>2, <1>3 DEF InDirectory
  <2>4. QED
    BY <1>2, <1>7, <1>10, <2>1, <2>2, <2>3, AttemptStep
<1>13. Phase(r)'
  BY <1>1, <1>2, <1>6, <1>11 DEF Phase, PhaseAt, Runs, SameMemory
<1>14. QED
  BY <1>8, <1>9, <1>12, <1>13, StepKeeps

LEMMA HarvestRaisesKeeps ==
    ASSUME OneRunner, WorktreeInv, NEW r \in Runner, HarvestRaises(r)
    PROVE  WorktreeInv'
<1>1. PICK t \in Task, a \in Attempt : Runs(r, t, a)
  BY Busy DEF HarvestRaises
<1>2. /\ run[r].pc \in {"list", "harvest"} /\ Goto(r, "copytree")
      /\ missed' = [missed EXCEPT ![t][a].after = {}]
      /\ UNCHANGED <<row, tree, artifacts, recovery, made>>
  BY <1>1 DEF HarvestRaises, Runs, Number
<1>3. run' \in [Runner -> RunType] /\ run'[r].pc = "copytree" /\ SameMemory(r)
  BY <1>2, GotoType DEF WorktreeInv, PC
<1>4. MissedOnly(t, a)
  <2>1. TypeOK /\ {} \in SUBSET File
    BY DEF WorktreeInv
  <2>2. QED
    BY <1>2, <2>1, MissedAfter
<1>5. TypeOK' /\ OthersAsWere(t)
  BY <1>2, <1>3, <1>4, NamedTypes DEF WorktreeInv, OthersAsWere, MissedOnly
<1>6. InDirectory(t, a) /\ ~artifacts[t][a].done
  BY <1>1, <1>2 DEF Runs, PhaseAt, Harvesting, Executed, InDirectory, Blank
<1>7. \A f \in File : tree'[t].files[f] <= a
  BY <1>1, <1>2, DirectoryNumbers DEF Runs
<1>8. TaskOK(t)'
  BY <1>1, <1>2, <1>4, <1>6, <1>7, DirectoryStep DEF InDirectory, MissedOnly
<1>9. Phase(r)'
  BY <1>1, <1>2, <1>3, <1>6 DEF Phase, PhaseAt, Runs, SameMemory, InDirectory
<1>10. QED
  BY <1>5, <1>8, <1>9, StepKeeps

\* An exception that leaves finalize_worktree leaves the files where they are.
LEMMA EscapesKeeps ==
    ASSUME OneRunner, WorktreeInv, NEW r \in Runner, NEW t \in Task, NEW a \in Attempt,
           Runs(r, t, a), run[r].pc \in {"copytree", "manifest"}, Escapes(r),
           UNCHANGED <<tree, artifacts, made, missed>>,
           recovery' \in [Task -> Seq(CopyType)],
           \A u \in Task : u # t => recovery'[u] = recovery[u]
    PROVE  WorktreeInv'
<1> DEFINE failed == [status |-> "FAILED", attempts |-> a]
<1>1. run' = [run EXCEPT ![r] = Idle(t)] /\ (row' = row \/ row' = [row EXCEPT ![t] = failed])
  BY DEF Escapes, Number, Runs
<1>2. Idle(t) \in RunType /\ Idle(t).pc = "idle"
  BY ConstantTypes DEF Idle
<1>3. failed \in RowType
  BY ConstantTypes DEF RowType
<1>4. TypeOK'
  BY <1>1, <1>2, <1>3, NamedTypes DEF WorktreeInv
<1>5. OthersAsWere(t)
  BY <1>1, NamedTypes DEF WorktreeInv, OthersAsWere
<1>6. row'[t].attempts = a /\ row'[t].status \in {"RUNNING", "FAILED"}
  BY <1>1, NamedTypes DEF WorktreeInv, Runs
<1>7. InDirectory(t, a) /\ ~artifacts[t][a].done
  BY DEF Runs, PhaseAt
<1>8. TaskOK(t)'
  <2>1. TaskOK(t) /\ row[t].attempts = a /\ row[t].status = "RUNNING" /\ a \in Nat
    BY DEF Runs
  <2>2. \A f \in File : tree'[t].files[f] <= a
    BY DirectoryNumbers DEF Runs
  <2>3. \A f \in File : made'[t][a][f] \in {None, a}
    BY DEF Runs, TaskOK, AttemptsOwn
  <2>4. QED
    BY <1>6, <1>7, <2>1, <2>2, <2>3, AttemptStep DEF InDirectory
<1>9. Phase(r)'
  BY <1>1, <1>2, NamedTypes DEF Phase, WorktreeInv
<1>10. QED
  BY <1>4, <1>5, <1>8, <1>9, StepKeeps

\* A copy is added to those of a task.
LEMMA AddCopyType ==
    ASSUME TypeOK, NEW t \in Task, NEW e \in CopyType,
           recovery' = [recovery EXCEPT ![t] = Append(@, e)]
    PROVE  /\ recovery' \in [Task -> Seq(CopyType)]
           /\ \A u \in Task : u # t => recovery'[u] = recovery[u]
           /\ Len(recovery'[t]) = Len(recovery[t]) + 1 /\ Len(recovery[t]) \in Nat
           /\ recovery'[t][Len(recovery[t]) + 1] = e
<1>1. recovery[t] \in Seq(CopyType) /\ recovery \in [Task -> Seq(CopyType)]
  BY NamedTypes
<1>2. Append(recovery[t], e) \in Seq(CopyType)
  BY <1>1
<1>3. recovery'[t] = Append(recovery[t], e)
  BY <1>1
<1>4. QED
  BY <1>1, <1>2, <1>3

LEMMA PreserveCopyKeeps ==
    ASSUME OneRunner, WorktreeInv, NEW r \in Runner, PreserveCopy(r)
    PROVE  WorktreeInv'
<1>1. PICK t \in Task, a \in Attempt : Runs(r, t, a)
  BY Busy DEF PreserveCopy
<1> DEFINE e == [attempt |-> a, files |-> tree[t].files, done |-> FALSE]
<1>2. /\ run[r].pc = "copytree" /\ Goto(r, "manifest")
      /\ recovery' = [recovery EXCEPT ![t] = Append(@, e)]
      /\ UNCHANGED <<row, tree, artifacts, made, missed>>
  BY <1>1 DEF PreserveCopy, Runs, Number, Dir, Goto
<1>3. e \in CopyType
  BY <1>1, NamedTypes DEF WorktreeInv, CopyType, Directory
<1>4. /\ recovery' \in [Task -> Seq(CopyType)]
      /\ \A u \in Task : u # t => recovery'[u] = recovery[u]
      /\ Len(recovery'[t]) = Len(recovery[t]) + 1 /\ Len(recovery[t]) \in Nat
      /\ recovery'[t][Len(recovery[t]) + 1] = e
  <2> HIDE DEF e
  <2>1. QED
    BY <1>2, <1>3, AddCopyType DEF WorktreeInv
<1>5. run' \in [Runner -> RunType] /\ run'[r].pc = "manifest" /\ SameMemory(r)
  BY <1>2, GotoType DEF WorktreeInv, PC
<1>6. TypeOK'
  BY <1>2, <1>4, <1>5, NamedTypes DEF WorktreeInv
<1>7. OthersAsWere(t)
  BY <1>2, <1>4 DEF OthersAsWere
<1>8. InDirectory(t, a) /\ ~artifacts[t][a].done
  BY <1>1, <1>2 DEF Runs, PhaseAt
<1>9. TaskOK(t)'
  <2>1. TaskOK(t) /\ row[t].attempts = a /\ row[t].status = "RUNNING" /\ a \in Nat
    BY <1>1 DEF Runs
  <2>2. \A f \in File : tree'[t].files[f] <= a
    BY <1>1, <1>2, DirectoryNumbers DEF Runs
  <2>3. \A f \in File : made'[t][a][f] \in {None, a}
    BY <1>1, <1>2 DEF Runs, TaskOK, AttemptsOwn
  <2>4. QED
    BY <1>2, <1>8, <2>1, <2>2, <2>3, AttemptStep DEF InDirectory
<1>10. Phase(r)'
  <2>1. JustCopied(t, a)'
    BY <1>2, <1>4 DEF JustCopied
  <2>2. InDirectory(t, a)' /\ ~artifacts'[t][a].done
    BY <1>2, <1>8 DEF InDirectory
  <2>3. QED
    BY <1>1, <1>2, <1>5, <2>1, <2>2 DEF Phase, PhaseAt, Runs, SameMemory
<1>11. QED
  BY <1>6, <1>7, <1>9, <1>10, StepKeeps

LEMMA PreserveRaisesKeeps ==
    ASSUME OneRunner, WorktreeInv, NEW r \in Runner, PreserveRaises(r)
    PROVE  WorktreeInv'
<1>1. PICK t \in Task, a \in Attempt : Runs(r, t, a)
  BY Busy DEF PreserveRaises
<1>2. run[r].pc = "copytree" /\ Escapes(r) /\ UNCHANGED <<tree, artifacts, made, missed>>
  BY DEF PreserveRaises
<1>3. recovery' = recovery \/ \E e \in CopyType : recovery' = [recovery EXCEPT ![t] = Append(@, e)]
  <2>1. tree[t].files \in Files
    BY NamedTypes DEF WorktreeInv, Directory
  <2>2. run[r].task = t /\ run[r].attempt = a
    BY <1>1 DEF Runs
  <2>3. PICK S \in SUBSET File :
          recovery' = IF ~tree[run[r].task].there THEN recovery
                      ELSE [recovery EXCEPT ![run[r].task] = Append(@,
                               [attempt |-> run[r].attempt, done |-> FALSE,
                                files |-> [f \in File |-> IF f \in S THEN tree[run[r].task].files[f]
                                                          ELSE None]])]
    BY DEF PreserveRaises, Dir, Number
  <2> DEFINE files == [f \in File |-> IF f \in S THEN tree[t].files[f] ELSE None]
             e == [attempt |-> a, done |-> FALSE, files |-> files]
  <2>4. files \in Files
    BY <2>1, WorktreeAssumption DEF Files, None
  <2>5. e \in CopyType
    BY <2>4 DEF CopyType
  <2>6. recovery' = recovery \/ recovery' = [recovery EXCEPT ![t] = Append(@, e)]
    BY <2>2, <2>3
  <2>7. QED
    BY <2>5, <2>6
<1>4. /\ recovery' \in [Task -> Seq(CopyType)]
      /\ \A u \in Task : u # t => recovery'[u] = recovery[u]
  BY <1>3, AddCopyType, NamedTypes DEF WorktreeInv
<1>5. QED
  BY <1>1, <1>2, <1>4, EscapesKeeps

LEMMA PreserveManifestKeeps ==
    ASSUME OneRunner, WorktreeInv, NEW r \in Runner, PreserveManifest(r)
    PROVE  WorktreeInv'
<1>1. PICK t \in Task, a \in Attempt : Runs(r, t, a)
  BY Busy DEF PreserveManifest
<1>2. run[r].pc = "manifest" /\ UNCHANGED <<tree, artifacts, made, missed>>
  BY DEF PreserveManifest
<1>3. InDirectory(t, a) /\ ~artifacts[t][a].done /\ JustCopied(t, a)
  BY <1>1, <1>2 DEF Runs, PhaseAt
<1>4. recovery[t] \in Seq(CopyType) /\ recovery \in [Task -> Seq(CopyType)]
  BY NamedTypes DEF WorktreeInv
<1> DEFINE n == Len(recovery[t])
<1>5. CASE Escapes(r) /\ UNCHANGED recovery
  BY <1>1, <1>2, <1>4, <1>5, EscapesKeeps
<1>6. ASSUME Goto(r, "remove"), UNCHANGED row,
             \E i \in DOMAIN recovery[t] :
                 /\ \A j \in DOMAIN recovery[t] : recovery[t][j].attempt = a => j <= i
                 /\ recovery' = [recovery EXCEPT ![t][i].done = TRUE]
      PROVE  WorktreeInv'
  <2>1. n \in Nat /\ DOMAIN recovery[t] = 1..n /\ n \in 1..n /\ recovery[t][n] \in CopyType
    BY <1>3, <1>4 DEF JustCopied
  <2>2. PICK i \in DOMAIN recovery[t] :
            /\ \A j \in DOMAIN recovery[t] : recovery[t][j].attempt = a => j <= i
            /\ recovery' = [recovery EXCEPT ![t][i].done = TRUE]
    BY <1>6
  <2>3. i = n
    BY <1>3, <2>1, <2>2 DEF JustCopied
  <2> DEFINE e == [recovery[t][n] EXCEPT !.done = TRUE]
             copies == [recovery[t] EXCEPT ![n] = e]
  <2>4. e \in CopyType /\ e.done /\ e.files = tree[t].files
    BY <1>3, <2>1 DEF CopyType, JustCopied
  <2>5. recovery' = [recovery EXCEPT ![t] = copies]
    BY <2>2, <2>3
  <2> HIDE DEF e
  <2>6. copies \in Seq(CopyType) /\ DOMAIN copies = 1..n /\ copies[n] = e
    BY <1>4, <2>1, <2>4, ExceptSeq
  <2> HIDE DEF copies
  <2>7. /\ recovery' \in [Task -> Seq(CopyType)] /\ recovery'[t] = copies
        /\ \A u \in Task : u # t => recovery'[u] = recovery[u]
    BY <1>4, <2>5, <2>6
  <2>8. run' \in [Runner -> RunType] /\ run'[r].pc = "remove" /\ SameMemory(r)
    BY <1>6, GotoType DEF WorktreeInv, PC
  <2>9. TypeOK'
    BY <1>2, <1>6, <2>7, <2>8, NamedTypes DEF WorktreeInv
  <2>10. OthersAsWere(t)
    BY <1>2, <1>6, <2>7 DEF OthersAsWere
  <2>11. \A f \in File : made[t][a][f] \in {None, a}
    BY <1>1 DEF Runs, TaskOK, AttemptsOwn
  <2>12. AllKept(t, a)'
    <3>1. ASSUME NEW f \in File, made[t][a][f] # None PROVE Kept(t, a, f)'
      <4>1. n \in DOMAIN recovery'[t] /\ recovery'[t][n].done
        BY <2>1, <2>4, <2>6, <2>7
      <4>2. recovery'[t][n].files[f] = made'[t][a][f]
        BY <1>2, <1>3, <2>4, <2>6, <2>7, <2>11, <3>1 DEF InDirectory
      <4>3. QED
        BY <4>1, <4>2 DEF Kept
    <3>2. QED
      BY <1>2, <3>1 DEF AllKept
  <2>13. TaskOK(t)'
    <3>1. TaskOK(t) /\ row[t].attempts = a /\ row[t].status = "RUNNING" /\ a \in Nat
      BY <1>1 DEF Runs
    <3>2. \A f \in File : tree'[t].files[f] <= a
      BY <1>1, <1>2, DirectoryNumbers DEF Runs
    <3>3. QED
      BY <1>2, <1>3, <1>6, <2>11, <3>1, <3>2, AttemptStep DEF InDirectory
  <2>14. Phase(r)'
    BY <1>1, <1>6, <2>8, <2>12 DEF Phase, PhaseAt, Runs, SameMemory
  <2>15. QED
    BY <2>9, <2>10, <2>13, <2>14, StepKeeps
<1>7. QED
  BY <1>1, <1>5, <1>6 DEF PreserveManifest, Runs, Number

LEMMA RemoveKeeps ==
    ASSUME OneRunner, WorktreeInv, NEW r \in Runner, Remove(r)
    PROVE  WorktreeInv'
<1>1. PICK t \in Task, a \in Attempt : Runs(r, t, a)
  BY Busy DEF Remove
<1>2. /\ run[r].pc = "remove" /\ Goto(r, "record") /\ CleanedUp(t)
      /\ UNCHANGED <<row, artifacts, recovery, made, missed>>
  BY <1>1 DEF Remove, Runs
<1>3. run' \in [Runner -> RunType] /\ run'[r].pc = "record" /\ SameMemory(r)
  BY <1>2, GotoType DEF WorktreeInv, PC
<1>4. /\ tree' \in [Task -> Directory]
      /\ \A u \in Task : u # t => tree'[u] = tree[u]
      /\ \A f \in File : tree'[t].files[f] \in {None, tree[t].files[f]}
  BY <1>2, CleanedUpType, NamedTypes DEF WorktreeInv
<1>5. TypeOK'
  BY <1>2, <1>3, <1>4, NamedTypes DEF WorktreeInv
<1>6. OthersAsWere(t)
  BY <1>2, <1>4 DEF OthersAsWere
<1>7. AllKept(t, a)
  BY <1>1, <1>2 DEF Runs, PhaseAt
<1>8. \A f \in File : tree'[t].files[f] <= a
  BY <1>1, <1>4, DirectoryNumbers DEF None, Runs
<1>9. TaskOK(t)'
  BY <1>1, <1>2, <1>7, <1>8, DirectoryStep DEF AllKept
<1>10. Phase(r)'
  BY <1>1, <1>2, <1>3, <1>7 DEF Phase, PhaseAt, Runs, SameMemory, AllKept, Kept
<1>11. QED
  BY <1>5, <1>6, <1>9, <1>10, StepKeeps

LEMMA RecordKeeps ==
    ASSUME OneRunner, WorktreeInv, NEW r \in Runner, Record(r)
    PROVE  WorktreeInv'
<1>1. PICK t \in Task, a \in Attempt : Runs(r, t, a)
  BY Busy DEF Record
<1> DEFINE new == [status |-> IF run[r].ok THEN "VERIFIED_SUCCESS" ELSE "FAILED", attempts |-> a]
<1>2. /\ run[r].pc = "record" /\ run' = [run EXCEPT ![r] = Idle(t)]
      /\ row' = [row EXCEPT ![t] = new] /\ UNCHANGED <<tree, artifacts, recovery, made, missed>>
  BY <1>1 DEF Record, Runs, Number
<1>3. new \in RowType /\ new.attempts = a /\ new.status \in {"VERIFIED_SUCCESS", "FAILED"}
  BY ConstantTypes DEF RowType
<1> HIDE DEF new
<1>4. Idle(t) \in RunType /\ Idle(t).pc = "idle"
  BY ConstantTypes DEF Idle
<1>5. TypeOK'
  BY <1>2, <1>3, <1>4, NamedTypes DEF WorktreeInv
<1>6. OthersAsWere(t)
  BY <1>2, NamedTypes DEF WorktreeInv, OthersAsWere
<1>7. row'[t] = new
  BY <1>2, NamedTypes DEF WorktreeInv
<1>8. AllKept(t, a) /\ (AllKept(t, a)' <=> AllKept(t, a))
  BY <1>1, <1>2 DEF Runs, PhaseAt, AllKept, Kept
<1>9. TaskOK(t)'
  <2>1. TaskOK(t) /\ row[t].attempts = a /\ row[t].status = "RUNNING" /\ a \in Nat
    BY <1>1 DEF Runs
  <2>2. \A f \in File : tree'[t].files[f] <= a
    BY <1>1, <1>2, DirectoryNumbers DEF Runs
  <2>3. \A f \in File : made'[t][a][f] = None \/ Kept(t, a, f)' \/ f \in missed'[t][a].after
    BY <1>2, <1>8 DEF AllKept
  <2>4. /\ \A f \in File : made'[t][a][f] \in {None, a}
        /\ \A f \in File : artifacts'[t][a].done =>
               /\ artifacts'[t][a].listed[f] \in {None, a} \/ f \in missed'[t][a].before
               /\ artifacts'[t][a].listed[f] = artifacts'[t][a].files[f]
    BY <1>1, <1>2 DEF Runs, TaskOK, AttemptsOwn, ManifestOwn
  <2>5. QED
    BY <1>2, <1>3, <1>7, <1>8, <2>1, <2>2, <2>3, <2>4, AttemptStep
<1>10. Phase(r)'
  BY <1>2, <1>4, NamedTypes DEF Phase, WorktreeInv
<1>11. QED
  BY <1>5, <1>6, <1>9, <1>10, StepKeeps

LEMMA CrashKeeps ==
    ASSUME OneRunner, WorktreeInv, NEW r \in Runner, Crash(r)
    PROVE  WorktreeInv'
<1>1. PICK t \in Task, a \in Attempt : Runs(r, t, a)
  BY Busy DEF Crash
<1>2. run' = [run EXCEPT ![r] = Idle(t)] /\ UNCHANGED <<row, artifacts, recovery, missed>>
  BY <1>1 DEF Crash, Runs
<1>3. PICK S \in SUBSET File :
        /\ run[r].pc # "execute" => S = {}
        /\ Writes(t, a, S)
        /\ made' = [made EXCEPT ![t][a] = [f \in File |-> IF f \in S THEN a ELSE made[t][a][f]]]
  <2>1. run[r].task = t /\ run[r].attempt = a
    BY <1>1 DEF Runs
  <2>2. \E S \in IF run[r].pc = "execute" /\ tree[run[r].task].there THEN SUBSET File ELSE {{}} :
          /\ Writes(run[r].task, run[r].attempt, S)
          /\ made' = [made EXCEPT ![run[r].task][run[r].attempt] =
                [f \in File |-> IF f \in S THEN run[r].attempt
                                ELSE made[run[r].task][run[r].attempt][f]]]
    BY DEF Crash, Writes, Dir, Number
  <2>3. \A S : S \in (IF run[r].pc = "execute" /\ tree[run[r].task].there THEN SUBSET File ELSE {{}})
               => S \in SUBSET File /\ (run[r].pc # "execute" => S = {})
    OBVIOUS
  <2>4. QED
    BY <2>1, <2>2, <2>3
<1> DEFINE new == [f \in File |-> IF f \in S THEN a ELSE made[t][a][f]]
<1>4. made[t][a] \in Files
  BY NamedTypes DEF WorktreeInv
<1>5. new \in Files
  BY <1>4, ConstantTypes, WorktreeAssumption DEF Files, None
<1>6. made' \in [Task -> [Attempt -> Files]] /\ made'[t][a] = new
      /\ (\A b \in Attempt : b # a => made'[t][b] = made[t][b])
      /\ (\A u \in Task : u # t => made'[u] = made[u])
  BY <1>3, <1>5, NamedTypes DEF WorktreeInv
<1>7. /\ tree' \in [Task -> Directory]
      /\ \A u \in Task : u # t => tree'[u] = tree[u]
      /\ tree'[t].there = tree[t].there
      /\ \A f \in File : tree'[t].files[f] = IF f \in S THEN a ELSE tree[t].files[f]
  BY <1>3, WriteType DEF WorktreeInv
<1>8. \A f \in File : new[f] = IF f \in S THEN a ELSE made[t][a][f]
  OBVIOUS
<1> HIDE DEF new
<1>9. Idle(t) \in RunType /\ Idle(t).pc = "idle"
  BY ConstantTypes DEF Idle
<1>10. TypeOK'
  BY <1>2, <1>6, <1>7, <1>9, NamedTypes DEF WorktreeInv
<1>11. OthersAsWere(t)
  BY <1>2, <1>6, <1>7 DEF OthersAsWere
<1>12. \A f \in File : f \notin S =>
          \/ made'[t][a][f] = None \/ Kept(t, a, f)' \/ tree'[t].files[f] = a
          \/ f \in missed'[t][a].after
  <2>1. ASSUME NEW f \in File, f \notin S
        PROVE  \/ made'[t][a][f] = None \/ Kept(t, a, f)' \/ tree'[t].files[f] = a
               \/ f \in missed'[t][a].after
    <3>1. made'[t][a][f] = made[t][a][f] /\ tree'[t].files[f] = tree[t].files[f]
      BY <1>6, <1>7, <1>8, <2>1
    <3>2. \/ made[t][a][f] = None \/ Kept(t, a, f) \/ tree[t].files[f] = a
          \/ f \in missed[t][a].after
      BY <1>1 DEF Runs, TaskOK, LatestNotLost
    <3>3. Kept(t, a, f) => Kept(t, a, f)'
      BY <1>2, <3>1 DEF Kept
    <3>4. QED
      BY <1>2, <3>1, <3>2, <3>3
  <2>2. QED
    BY <2>1
<1>13. TaskOK(t)'
  <2>1. TaskOK(t) /\ row[t].attempts = a /\ row[t].status = "RUNNING" /\ a \in Nat
    BY <1>1 DEF Runs
  <2>2. \A f \in File : tree'[t].files[f] <= a
    BY <1>1, <1>7, DirectoryNumbers DEF Runs
  <2>3. /\ \A f \in File : made'[t][a][f] \in {None, a}
        /\ \A f \in File : artifacts'[t][a].done =>
               /\ artifacts'[t][a].listed[f] \in {None, a} \/ f \in missed'[t][a].before
               /\ artifacts'[t][a].listed[f] = artifacts'[t][a].files[f]
    BY <1>1, <1>2, <1>6, <1>8 DEF Runs, TaskOK, AttemptsOwn, ManifestOwn
  <2>4. \A f \in File : \/ made'[t][a][f] = None \/ Kept(t, a, f)' \/ tree'[t].files[f] = a
                        \/ f \in missed'[t][a].after
    BY <1>7, <1>12
  <2>5. QED
    BY <1>2, <1>6, <2>1, <2>2, <2>3, <2>4, AttemptStep
<1>14. Phase(r)'
  BY <1>2, <1>9, NamedTypes DEF Phase, WorktreeInv
<1>15. QED
  BY <1>10, <1>11, <1>13, <1>14, StepKeeps

LEMMA WorktreeInvStep ==
    ASSUME OneRunner, WorktreeInv, [Next]_vars
    PROVE  WorktreeInv'
<1>1. CASE UNCHANGED vars
  <2>1. UNCHANGED <<row, tree, run, artifacts, recovery, made, missed>>
    BY <1>1 DEF vars
  <2>2. TypeOK'
    BY <2>1, NamedTypes DEF WorktreeInv
  <2>3. ASSUME NEW t \in Task PROVE TaskOK(t)'
    BY <2>1 DEF WorktreeInv, TaskOK, AttemptsCounted, AttemptsOwn, LatestNotLost, SuccessKept,
                AllKept, ManifestOwn, Kept
  <2>4. ASSUME NEW r \in Runner PROVE Phase(r)'
    <3>1. CASE run[r].pc = "idle"
      BY <2>1, <3>1 DEF Phase
    <3>2. CASE run[r].pc # "idle"
      <4>1. PICK t \in Task, a \in Attempt : Runs(r, t, a)
        BY <3>2, Busy
      <4>2. /\ Untouched(r, t, a)' <=> Untouched(r, t, a)
            /\ Executed(r, t, a)' <=> Executed(r, t, a)
            /\ (\A f \in File : run[r].base[f] < a /\ Listed(r, t, a, f))'
               <=> \A f \in File : run[r].base[f] < a /\ Listed(r, t, a, f)
            /\ InDirectory(t, a)' <=> InDirectory(t, a)
            /\ Harvesting(r, t, a)' <=> Harvesting(r, t, a)
            /\ JustCopied(t, a)' <=> JustCopied(t, a)
        BY <2>1 DEF Untouched, Executed, Listed, InDirectory, Harvesting, JustCopied
      <4>3. AllKept(t, a)' <=> AllKept(t, a)
        BY <2>1 DEF AllKept, Kept
      <4>4. PhaseAt(r, t, a)'
        BY <2>1, <4>1, <4>2, <4>3 DEF Runs, PhaseAt
      <4>5. QED
        BY <2>1, <4>1, <4>4 DEF Phase, Runs
    <3>3. QED
      BY <3>1, <3>2
  <2>5. QED
    BY <2>2, <2>3, <2>4 DEF WorktreeInv
<1>2. QED
  BY <1>1, BeginKeeps, ReconcileKeeps, CleanKeeps, CreateKeeps, CreateRaisesKeeps, ExecuteKeeps,
     FinalizeFailureKeeps, FinalizeSuccessKeeps, HarvestListKeeps, HarvestFileKeeps,
     HarvestManifestKeeps, HarvestRaisesKeeps, PreserveCopyKeeps, PreserveManifestKeeps, PreserveRaisesKeeps, RemoveKeeps, RecordKeeps, CrashKeeps DEF Next

\* The tasks of S are ready and nothing has been done.
LEMMA WorktreeInvInit ==
    ASSUME NEW S, InitFrom(S)
    PROVE  WorktreeInv
<1>1. TypeOK
  <2>1. row \in [Task -> RowType]
    BY WorktreeAssumption DEF InitFrom, RowType
  <2>2. run \in [Runner -> RunType] /\ tree \in [Task -> Directory]
    BY ConstantTypes DEF InitFrom
  <2>3. artifacts \in [Task -> [Attempt -> ArtifactType]] /\ made \in [Task -> [Attempt -> Files]]
    BY ConstantTypes DEF InitFrom, ArtifactType
  <2>4. recovery \in [Task -> Seq(CopyType)] /\ missed \in [Task -> [Attempt -> MissedType]]
    BY DEF InitFrom, AllShown, MissedType
  <2>5. QED
    BY <2>1, <2>2, <2>3, <2>4, NamedTypes
<1>2. ASSUME NEW t \in Task PROVE TaskOK(t)
  <2>1. row[t].attempts = 0 /\ row[t].status \in {"PENDING", "BLOCKED"}
        /\ tree[t] = NoTree
        /\ \A a \in Attempt : artifacts[t][a] = Blank /\ made[t][a] = Nothing
    BY DEF InitFrom, Blank
  <2>2. AttemptsCounted(t)
    BY <2>1, WorktreeAssumption DEF AttemptsCounted
  <2>3. AttemptsOwn(t)
    BY <2>1 DEF AttemptsOwn, NoTree, Nothing, None
  <2>4. LatestNotLost(t) /\ SuccessKept(t) /\ ManifestOwn(t)
    BY <2>1 DEF LatestNotLost, SuccessKept, ManifestOwn, Nothing, Blank
  <2>5. QED
    BY <2>2, <2>3, <2>4 DEF TaskOK
<1>3. \A r \in Runner : Phase(r)
  BY DEF InitFrom, Phase, Idle
<1>4. QED
  BY <1>1, <1>2, <1>3 DEF WorktreeInv

\* What is made is where the runner believes it is, from any ready tasks.
THEOREM WorktreeInvCorrect ==
    ASSUME OneRunner, NEW S
    PROVE  InitFrom(S) /\ [][Next]_vars => []WorktreeInv
<1>1. WorktreeInv /\ [Next]_vars => WorktreeInv'
  BY WorktreeInvStep
<1>2. InitFrom(S) => WorktreeInv
  BY WorktreeInvInit
<1>3. QED
  BY <1>1, <1>2, PTL

LEMMA SpecWorktreeInv ==
    ASSUME OneRunner
    PROVE  Spec => []WorktreeInv
<1>1. InitFrom(Task) /\ [][Next]_vars => []WorktreeInv
  BY WorktreeInvCorrect
<1>2. QED
  BY <1>1 DEF Spec, Init

\* With one runner, no file an attempt has written is lost, wherever the
\* process dies and whatever copy fails, but by the retry that makes it again
\* or because the last listing of a success passed over it.
THEOREM NothingLostHolds ==
    ASSUME OneRunner
    PROVE  Spec => []NothingLost
<1>1. WorktreeInv => NothingLost
  <2> SUFFICES ASSUME WorktreeInv, NEW t \in Task, NEW a \in Attempt, NEW f \in File
               PROVE  \/ made[t][a][f] = None \/ Kept(t, a, f) \/ tree[t].files[f] = a
                      \/ t \in Idempotent /\ a < row[t].attempts
                      \/ f \in missed[t][a].after
    BY DEF NothingLost
  <2>1. TaskOK(t) /\ row[t].attempts \in Nat /\ a \in Nat /\ a >= 1
    BY NamedTypes, ConstantTypes, WorktreeAssumption DEF WorktreeInv, RowType
  <2>2. CASE a = row[t].attempts
    BY <2>1, <2>2 DEF TaskOK, LatestNotLost
  <2>3. CASE a > row[t].attempts
    BY <2>1, <2>3 DEF TaskOK, AttemptsOwn, Nothing
  <2>4. CASE a < row[t].attempts
    BY <2>1, <2>4 DEF TaskOK, AttemptsCounted
  <2>5. QED
    BY <2>1, <2>2, <2>3, <2>4
<1>2. QED
  BY <1>1, SpecWorktreeInv, PTL

\* With one runner, the files of a task recorded as a success are in a
\* manifest or in a recovery copy, but for those the last listing passed over.
THEOREM SuccessHandedOverHolds ==
    ASSUME OneRunner
    PROVE  Spec => []SuccessHandedOver
<1>1. WorktreeInv => SuccessHandedOver
  BY DEF WorktreeInv, TaskOK, SuccessKept, AllKept, SuccessHandedOver
<1>2. QED
  BY <1>1, SpecWorktreeInv, PTL

\* With one runner, a manifest lists what its own attempt made, or what the
\* listing before it passed over, as stored.
THEOREM ManifestIsOwnWorkHolds ==
    ASSUME OneRunner
    PROVE  Spec => []ManifestIsOwnWork
<1>1. WorktreeInv => ManifestIsOwnWork
  BY DEF WorktreeInv, TaskOK, ManifestOwn, ManifestIsOwnWork
<1>2. QED
  BY <1>1, SpecWorktreeInv, PTL
================================================================================
