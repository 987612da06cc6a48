----------------------------- MODULE Checkpoint -----------------------------
(***************************************************************************)
(* The checkpoint service at the level of its Git commands: one reviewed   *)
(* change set becomes one commit, in a checkout whose working tree, index  *)
(* and branch also belong to a human and to the engineers of other steps.  *)
(*                                                                         *)
(* The repository lock lets one phase at a time into the tree (OneInTree   *)
(* of StepWorkflow), so there is one program counter.  An attempt that is  *)
(* refused sends its step back to engineering; engineering, review and     *)
(* verification, which StepWorkflow models, are the one action Engineer.   *)
(* The branch does not change and is not protected; nothing is pushed; a   *)
(* status entry has one path (no rename).                                  *)
(***************************************************************************)
EXTENDS Naturals, Sequences, FiniteSets

CONSTANTS
  Steps,            \* the steps carried out in this tree
  Human,            \* the author of everything else
  Files,            \* paths
  Revisions,        \* contents an author can give a file
  MaxHumanCommits,  \* bound: commits of the human
  MaxFaults,        \* bound: crashes, and commands that run into their timeout
  StagesMeanwhile   \* does the human stage while a checkpoint is going on?

ASSUME CheckpointAssumption ==
  /\ Human \notin Steps
  /\ Revisions \subseteq Nat \ {0}
  /\ MaxHumanCommits \in Nat /\ MaxFaults \in Nat
  /\ StagesMeanwhile \in BOOLEAN

VARIABLES
  tree, index,       \* content of every file in the checkout and the index
  history,           \* commits of the branch, oldest first: marker and files
  indexLock,         \* .git/index.lock is there
  status,            \* of each step
  start, baseline,   \* its session: starting commit, pre-existing changes
  approved,          \* steps.approved_files
  recorded,          \* steps.resulting_commit; 0 is NULL
  pc, task,          \* where the service is, and for which step
  planned, sha,      \* staged_paths, and the commit it will report
  reviewed,          \* history: content of the approved files when approved
  attempt,           \* history: what the present attempt found
  faults             \* crashes and timeouts so far

gitVars     == <<tree, index, history, indexLock>>
stepVars    == <<status, start, baseline, approved, recorded, reviewed>>
serviceVars == <<pc, task, planned, sha, attempt, faults>>
vars        == <<gitVars, stepVars, serviceVars>>

-----------------------------------------------------------------------------
(* Types *)

Authors  == Steps \cup {Human}
Original == <<Human, 0>>
Contents == {Original} \cup (Authors \X Revisions)
Snapshot == [Files -> Contents]
Commits  == [marker : Authors, files : Snapshot]

ReadingPcs == {"finding", "checking_head", "checking_index", "reading_status",
               "checking_staged", "confirming"}
WritingPcs == {"adding", "committing", "unstaging"}
Pcs == {"idle", "scanning", "succeeded", "refused"}
       \cup ReadingPcs \cup WritingPcs

\* Every commit is a snapshot of the files, every session knows a commit that
\* exists, and the service is at a point of its program.
TypeOK ==
  /\ tree \in Snapshot /\ index \in Snapshot
  /\ history \in Seq(Commits) /\ history # <<>>
  /\ indexLock \in BOOLEAN
  /\ status \in [Steps -> {"engineering", "checkpoint", "complete"}]
  /\ start \in [Steps -> 0..Len(history)]
  /\ recorded \in [Steps -> 0..Len(history)]
  /\ baseline \in [Steps -> SUBSET Files]
  /\ approved \in [Steps -> SUBSET Files]
  /\ reviewed \in [Steps -> Snapshot]
  /\ pc \in Pcs /\ task \in Authors
  /\ planned \in SUBSET Files /\ sha \in 0..Len(history)
  /\ attempt \in [index : Snapshot, committed : BOOLEAN, failed : BOOLEAN]
  /\ faults \in 0..MaxFaults

Untouched == [f \in Files |-> Original]
NoAttempt == [index |-> Untouched, committed |-> FALSE, failed |-> FALSE]

Init ==
  /\ tree = Untouched /\ index = Untouched
  /\ history = <<[marker |-> Human, files |-> Untouched]>>
  /\ indexLock = FALSE
  /\ status = [s \in Steps |-> "engineering"]
  /\ start = [s \in Steps |-> 0] /\ recorded = [s \in Steps |-> 0]
  /\ baseline = [s \in Steps |-> {}] /\ approved = [s \in Steps |-> {}]
  /\ reviewed = [s \in Steps |-> Untouched]
  /\ pc = "idle" /\ task = Human /\ planned = {} /\ sha = 0
  /\ attempt = NoAttempt /\ faults = 0

-----------------------------------------------------------------------------
(* Git *)

HEAD == Len(history)
Tip  == history[HEAD].files

Differing(a, b) == {f \in Files : a[f] # b[f]}
\* git diff --cached --name-only
Staged == Differing(index, Tip)
\* The paths of git status, for a working tree t and an index i.
Changed(t, i) == Differing(t, Tip) \cup Differing(i, Tip)

\* The files F of a taken from b.
Taking(a, F, b) == [f \in Files |-> IF f \in F THEN b[f] ELSE a[f]]

CommitsOf(author) == {i \in 1..HEAD : history[i].marker = author}

-----------------------------------------------------------------------------
(* The human, and the engineers with their reviewers and verifiers.        *)

Idle == pc = "idle"

\* A change that is not part of a candidate waiting for its checkpoint.
HumanEdits(f) ==
  /\ \A s \in Steps : status[s] = "checkpoint" => f \notin approved[s]
  /\ \E r \in Revisions : tree' = [tree EXCEPT ![f] = <<Human, r>>]
  /\ UNCHANGED <<index, history, indexLock, stepVars, serviceVars>>

\* What somebody else does to a file of the index is not the attempt's doing.
Elsewhere(f) == IF Idle THEN attempt ELSE [attempt EXCEPT !.index[f] = index'[f]]

\* git add and git restore --staged by hand.  No check of the service follows
\* the last look at the index, so StagesMeanwhile is a constant of its own.
HumanStages(f) ==
  /\ Idle \/ StagesMeanwhile
  /\ ~indexLock
  /\ index' \in {[index EXCEPT ![f] = tree[f]], [index EXCEPT ![f] = Tip[f]]}
  /\ attempt' = Elsewhere(f)
  /\ UNCHANGED <<tree, history, indexLock, stepVars, pc, task, planned, sha, faults>>

\* git commit <path>, at any moment.
HumanCommits(f) ==
  /\ ~indexLock
  /\ Cardinality(CommitsOf(Human)) <= MaxHumanCommits
  /\ tree[f] # Tip[f] /\ tree[f][1] = Human
  /\ history' = Append(history, [marker |-> Human, files |-> [Tip EXCEPT ![f] = tree[f]]])
  /\ index' = [index EXCEPT ![f] = tree[f]]
  /\ attempt' = Elsewhere(f)
  /\ UNCHANGED <<tree, indexLock, stepVars, pc, task, planned, sha, faults>>

HumanUnlocks ==
  /\ Idle /\ indexLock
  /\ indexLock' = FALSE
  /\ UNCHANGED <<tree, index, history, stepVars, serviceVars>>

\* A session keeps the starting commit and the pre-existing changes of its
\* first attempt.  The engineer writes or reverts files that had no change then,
\* and may stage by git mv, rm or restore; what differs in the end is the
\* candidate that is reviewed and verified.
Engineer(s) ==
  LET resumed == start[s] # 0
      before  == IF resumed THEN baseline[s] ELSE Changed(tree, index) IN
  /\ Idle
  /\ status[s] = "engineering"
  /\ \E edited \in SUBSET (Files \ before) :
       /\ \/ tree' = Taking(tree, edited, Tip)
          \/ \E r \in Revisions : tree' = Taking(tree, edited, [f \in Files |-> <<s, r>>])
       /\ \/ index' = index
          \/ ~indexLock /\ index' \in {Taking(index, edited, tree'), Tip}
  /\ start' = [start EXCEPT ![s] = IF resumed THEN @ ELSE HEAD]
  /\ baseline' = [baseline EXCEPT ![s] = before]
  /\ approved' = [approved EXCEPT ![s] = Changed(tree', index') \ before]
  /\ approved'[s] # {}
  /\ reviewed' = [reviewed EXCEPT ![s] = tree']
  /\ status' = [status EXCEPT ![s] = "checkpoint"]
  /\ UNCHANGED <<history, indexLock, recorded, serviceVars>>

-----------------------------------------------------------------------------
(* The service                                                              *)

Goto(label) == pc' = label /\ UNCHANGED <<task, planned, sha, attempt, faults>>
Refuse      == pc' = "refused" /\ planned' = {} /\ UNCHANGED <<task, sha, attempt, faults>>
Return      == pc' = "idle" /\ task' = Human /\ planned' = {} /\ sha' = 0 /\ attempt' = NoAttempt
KeepGit     == UNCHANGED gitVars /\ UNCHANGED stepVars

ClaimCheckpoint(s) ==
  /\ Idle
  /\ status[s] = "checkpoint"
  /\ pc' = "finding" /\ task' = s /\ planned' = {} /\ sha' = 0
  /\ attempt' = [index |-> index, committed |-> CommitsOf(s) # {}, failed |-> FALSE]
  /\ UNCHANGED faults /\ KeepGit

\* Mutant: the marker is looked for in the last commit only.
FindInTip(s) == {HEAD} \cap CommitsOf(s)

\* git log --all --grep=<marker>
FindCheckpoint(s) == CommitsOf(s)

RecoverCheckpoint ==
  /\ pc = "finding"
  /\ \E i \in FindCheckpoint(task) : FindCheckpoint(task) = {i} /\ sha' = i
  /\ pc' = "succeeded"
  /\ UNCHANGED <<task, planned, attempt, faults>> /\ KeepGit

StartCheckpoint ==
  /\ pc = "finding"
  /\ ~\E i \in FindCheckpoint(task) : FindCheckpoint(task) = {i}
  /\ IF FindCheckpoint(task) = {} THEN Goto("checking_head") ELSE Refuse
  /\ KeepGit

CheckHead ==
  /\ pc = "checking_head"
  /\ IF HEAD = start[task] THEN Goto("checking_index") ELSE Refuse
  /\ KeepGit

\* Mutant: what others have staged is not looked for.
CheckNoIndex ==
  /\ pc = "checking_index"
  /\ Goto("reading_status")
  /\ KeepGit

CheckIndex ==
  /\ pc = "checking_index"
  /\ IF Staged = {} THEN Goto("reading_status") ELSE Refuse
  /\ KeepGit

\* Mutant: everything that changed is taken, as by git add of the whole tree.
AllPaths(s) == Changed(tree, index)

\* Pre-existing changes are passed over.
ReviewedPaths(s) == Changed(tree, index) \cap approved[s]

\* Every changed path is approved or pre-existing, and nothing approved has
\* stopped being a change.
ReadStatus ==
  LET changed == Changed(tree, index) IN
  /\ pc = "reading_status"
  /\ IF /\ changed \subseteq approved[task] \cup baseline[task]
        /\ approved[task] \subseteq changed
        /\ approved[task] \cap baseline[task] = {}
     THEN /\ pc' = "scanning" /\ planned' = ReviewedPaths(task)
          /\ UNCHANGED <<task, sha, attempt, faults>>
     ELSE Refuse
  /\ KeepGit

\* git diff --check and the secret scan find something, or not.
Scan ==
  /\ pc = "scanning"
  /\ Goto("adding") \/ Refuse
  /\ KeepGit

\* git add -A -- <planned>, git commit, git restore --staged -- <planned>.
AddDone    == index' = Taking(index, planned, tree) /\ UNCHANGED <<tree, history>>
CommitDone == /\ Staged # {}
              /\ history' = Append(history, [marker |-> task, files |-> index])
              /\ UNCHANGED <<tree, index>>
NothingDone == UNCHANGED <<tree, index, history>>

\* git add may fail, on the lock or for its own reasons, and stages nothing.
Add ==
  /\ pc = "adding"
  /\ \/ ~indexLock /\ AddDone /\ Goto("checking_staged")
     \/ NothingDone /\ Refuse
  /\ UNCHANGED <<indexLock, stepVars>>

CheckStaged ==
  /\ pc = "checking_staged"
  /\ Goto(IF Staged # {} /\ Staged \subseteq planned THEN "committing" ELSE "unstaging")
  /\ KeepGit

\* git commit may fail for its own reasons: an identity, a full disk.
Commit ==
  /\ pc = "committing"
  /\ \/ ~indexLock /\ CommitDone /\ Goto("confirming")
     \/ NothingDone /\ Goto("unstaging")
  /\ UNCHANGED <<indexLock, stepVars>>

Unstage ==
  /\ pc = "unstaging"
  /\ index' = IF indexLock THEN index ELSE Taking(index, planned, Tip)
  /\ Refuse
  /\ UNCHANGED <<tree, history, indexLock, stepVars>>

\* Mutant: whatever HEAD is now is reported.
ConfirmHead ==
  /\ pc = "confirming"
  /\ pc' = "succeeded" /\ sha' = HEAD
  /\ UNCHANGED <<task, planned, attempt, faults>> /\ KeepGit

\* git rev-parse HEAD and the marker in its message.
Confirm ==
  /\ pc = "confirming"
  /\ \/ /\ history[HEAD].marker = task
        /\ pc' = "succeeded" /\ sha' = HEAD /\ UNCHANGED <<task, planned, attempt, faults>>
     \/ history[HEAD].marker # task /\ Refuse
  /\ KeepGit

\* Exit code 124: the command is killed (or, when it only reads, fails); its
\* effect may be there, and its lock may be left.  Unstage follows a commit, as after any other failure.
TimedOut ==
  /\ faults < MaxFaults /\ faults' = faults + 1
  /\ attempt' = [attempt EXCEPT !.failed = TRUE]
  /\ \/ pc \in ReadingPcs /\ NothingDone /\ UNCHANGED indexLock /\ pc' = "refused"
     \/ /\ pc = "adding" /\ (NothingDone \/ (~indexLock /\ AddDone))
        /\ indexLock' \in {indexLock, TRUE} /\ pc' = "refused"
     \/ /\ pc = "committing" /\ (NothingDone \/ (~indexLock /\ CommitDone))
        /\ indexLock' \in {indexLock, TRUE} /\ pc' = "unstaging"
     \/ /\ pc = "unstaging" /\ NothingDone
        /\ indexLock' \in {indexLock, TRUE} /\ pc' = "refused"
  /\ UNCHANGED <<task, planned, sha, stepVars>>

\* Mutant: a refused candidate is only reviewed again.
RecordForReview ==
  /\ pc \in {"succeeded", "refused"}
  /\ status' = [status EXCEPT ![task] = IF pc = "refused" THEN "review" ELSE "complete"]
  /\ recorded' = [recorded EXCEPT ![task] = IF pc = "refused" THEN @ ELSE sha]
  /\ Return
  /\ UNCHANGED <<gitVars, start, baseline, approved, reviewed, faults>>

RecordCheckpoint ==
  /\ \/ /\ pc = "succeeded"
        /\ status' = [status EXCEPT ![task] = "complete"]
        /\ recorded' = [recorded EXCEPT ![task] = sha]
     \/ /\ pc = "refused"
        /\ status' = [status EXCEPT ![task] = "engineering"]
        /\ UNCHANGED recorded
  /\ Return
  /\ UNCHANGED <<gitVars, start, baseline, approved, reviewed, faults>>

\* The coordinator dies, and the command it runs with it.
Crash ==
  /\ ~Idle
  /\ faults < MaxFaults /\ faults' = faults + 1
  /\ indexLock' \in IF pc \in WritingPcs THEN {indexLock, TRUE} ELSE {indexLock}
  /\ Return
  /\ UNCHANGED <<tree, index, history, stepVars>>

Service ==
  \/ \E s \in Steps : ClaimCheckpoint(s)
  \/ RecoverCheckpoint \/ StartCheckpoint \/ CheckHead \/ CheckIndex
  \/ ReadStatus \/ Scan \/ Add \/ CheckStaged \/ Commit \/ Unstage
  \/ Confirm \/ RecordCheckpoint

Environment ==
  \/ \E f \in Files : HumanEdits(f) \/ HumanStages(f) \/ HumanCommits(f)
  \/ HumanUnlocks
  \/ \E s \in Steps : Engineer(s)

Next == Service \/ TimedOut \/ Crash \/ Environment

Spec == Init /\ [][Next]_vars

-----------------------------------------------------------------------------
(* Properties                                                               *)

\* The commit recorded for a step carries the step's own marker, although
\* HEAD may have moved since and crashed attempts may have left a commit.
RecordIsOwn ==
  \A s \in Steps : status[s] = "complete" => recorded[s] \in CommitsOf(s)

\* A checkpoint that is refused gives the index back as it found it, with the
\* work a human has staged in it, unless one of its commands was killed.
IndexIsGivenBack ==
  pc = "refused" /\ ~attempt.failed /\ CommitsOf(task) = {} => index = attempt.index

\* A commit that a crashed attempt left is recovered by the next one, even if
\* HEAD, the index or the tree have changed since.
CommitIsRecovered ==
  pc = "refused" /\ attempt.committed => attempt.failed

\* A step has at most one commit, however often its checkpoint is tried.
OneCommitPerStep ==
  \A s \in Steps : \A i, k \in CommitsOf(s) : i = k

\* What a complete step's commit holds is the last candidate that was
\* reviewed, not an earlier one.
CompleteIsReviewed ==
  \A s \in Steps : status[s] = "complete" =>
    \A f \in approved[s] : history[recorded[s]].files[f] = reviewed[s][f]

\* A checkpoint commits the approved files as they are in the tree, and no
\* other file, on top of whatever the branch holds by then.
CommitIsExact ==
  [][\A s \in Steps :
       (HEAD' = HEAD + 1 /\ history'[HEAD'].marker = s) =>
         history'[HEAD'].files = Taking(Tip, approved[s], tree)]_vars
=============================================================================
