------------------------- MODULE Checkpoint_proofs -------------------------
(***************************************************************************)
(* Proofs about Checkpoint.  The inductive invariant says what each point  *)
(* of the service knows: which commits of the step exist, that the index   *)
(* is the one it found or holds the planned files and nothing else, and    *)
(* that nothing of this can be disturbed by a human who edits and commits. *)
(* What it says of the index needs a human who does not stage meanwhile.   *)
(***************************************************************************)
EXTENDS Checkpoint, TLAPS

\* The points at which nothing has been staged, at which the index is known to
\* be that of HEAD, and at which the planned files are staged.
BeforeAdd   == {"finding", "checking_head", "checking_index", "reading_status", "scanning", "adding"}
CleanPcs    == {"reading_status", "scanning", "adding", "checking_staged", "committing"}
StagedPcs   == {"checking_staged", "committing"}
UnfoundPcs  == {"checking_head", "checking_index"} \cup CleanPcs

TaskIsCandidate == pc # "idle" => task \in Steps /\ status[task] = "checkpoint"
FoundIsOwn      == pc = "succeeded" => sha \in CommitsOf(task)
NoneIsFound     == pc \in UnfoundPcs => CommitsOf(task) = {}
OneIsMade       == pc = "confirming" => CommitsOf(task) # {}
FaultEnds       == attempt.failed => pc \in {"unstaging", "refused"}
CommitIsKnown   == attempt.committed =>
                     /\ pc \in {"finding", "succeeded", "refused"}
                     /\ CommitsOf(task) # {}

Unstaging == pc = "unstaging" /\ ~attempt.failed
IndexIsAsFound  == pc \in BeforeAdd => index = attempt.index
IndexWasClean   == pc \in CleanPcs \/ Unstaging => attempt.index = Tip
PlanIsApproved  == pc \in {"scanning", "adding"} \cup StagedPcs \/ Unstaging =>
                     planned = approved[task]
IndexIsPlan     == pc \in StagedPcs \/ Unstaging => index = Taking(Tip, planned, tree)
LockIsOurs      == pc \in StagedPcs \/ Unstaging => ~indexLock

HistoryInv == TaskIsCandidate /\ FoundIsOwn /\ NoneIsFound /\ OneIsMade /\ FaultEnds
              /\ CommitIsKnown /\ OneCommitPerStep /\ RecordIsOwn /\ CommitIsRecovered
IndexInv   == IndexIsAsFound /\ IndexWasClean /\ PlanIsApproved /\ IndexIsPlan
              /\ LockIsOurs /\ IndexIsGivenBack
IInv == TypeOK /\ HistoryInv /\ IndexInv

-----------------------------------------------------------------------------
(* Lemmas about the history                                                 *)

\* Appending a commit adds it to the commits of its author and to no other's.
LEMMA CommitsAfterAppend ==
  ASSUME TypeOK, NEW c \in Commits, history' = Append(history, c)
  PROVE  /\ HEAD' = HEAD + 1
         /\ history'[HEAD'] = c
         /\ \A s : CommitsOf(s)' = CommitsOf(s) \cup (IF c.marker = s THEN {HEAD + 1} ELSE {})
<1> USE DEF TypeOK, HEAD
<1>1. /\ Len(history) \in Nat /\ Len(history') = Len(history) + 1
      /\ \A i \in 1..Len(history) : history'[i] = history[i]
      /\ history'[Len(history) + 1] = c
  OBVIOUS
<1> QED BY <1>1 DEF CommitsOf

\* While nothing is appended everybody keeps their commits.
LEMMA CommitsKept ==
  ASSUME UNCHANGED history
  PROVE  HEAD' = HEAD /\ Tip' = Tip /\ \A s : CommitsOf(s)' = CommitsOf(s)
BY DEF HEAD, Tip, CommitsOf

\* What is taken from one snapshot into another is a snapshot.
LEMMA TakingIsSnapshot ==
  ASSUME NEW a \in Snapshot, NEW b \in Snapshot, NEW F
  PROVE  Taking(a, F, b) \in Snapshot
BY DEF Taking, Snapshot

\* The last commit holds a snapshot.
LEMMA TipIsSnapshot ==
  ASSUME TypeOK
  PROVE  Tip \in Snapshot /\ HEAD \in Nat /\ HEAD > 0 /\ history[HEAD] \in Commits
<1>1. Len(history) \in Nat /\ Len(history) > 0 BY DEF TypeOK
<1>2. history[Len(history)] \in Commits BY <1>1 DEF TypeOK
<1> QED BY <1>1, <1>2 DEF Tip, HEAD, Commits

-----------------------------------------------------------------------------
(* Types                                                                    *)

LEMMA TypeInit == Init => TypeOK
<1> SUFFICES ASSUME Init PROVE TypeOK
  OBVIOUS
<1> USE CheckpointAssumption DEF Init
<1>1. Human \in Authors /\ Untouched \in Snapshot
  BY DEF Authors, Untouched, Snapshot, Contents
<1>2. history \in Seq(Commits) /\ history # <<>> /\ Len(history) = 1
  BY <1>1 DEF Commits
<1>3. NoAttempt \in [index : Snapshot, committed : BOOLEAN, failed : BOOLEAN]
  BY <1>1 DEF NoAttempt
<1>4. pc \in Pcs /\ attempt \in [index : Snapshot, committed : BOOLEAN, failed : BOOLEAN]
  BY <1>3 DEF Pcs
<1>5. /\ tree \in Snapshot /\ index \in Snapshot /\ task \in Authors
      /\ reviewed \in [Steps -> Snapshot]
  BY <1>1
<1>6. /\ indexLock \in BOOLEAN /\ planned \in SUBSET Files
      /\ status \in [Steps -> {"engineering", "checkpoint", "complete"}]
      /\ baseline \in [Steps -> SUBSET Files] /\ approved \in [Steps -> SUBSET Files]
  OBVIOUS
<1>7. /\ start \in [Steps -> 0..Len(history)] /\ recorded \in [Steps -> 0..Len(history)]
      /\ sha \in 0..Len(history) /\ faults \in 0..MaxFaults
  <2>1. 0 \in 0..Len(history) /\ 0 \in 0..MaxFaults
    BY <1>2
  <2> QED BY <2>1
<1> HIDE DEF Init
<1> QED BY <1>2, <1>4, <1>5, <1>6, <1>7 DEF TypeOK

LEMMA TypeStep == TypeOK /\ [Next]_vars => TypeOK'
<1> SUFFICES ASSUME TypeOK, [Next]_vars PROVE TypeOK'
  OBVIOUS
<1> USE CheckpointAssumption
<1>t. /\ Tip \in Snapshot /\ HEAD \in Nat /\ HEAD > 0 /\ HEAD = Len(history)
      /\ \A f \in Files : Tip[f] \in Contents /\ tree[f] \in Contents /\ index[f] \in Contents
  BY TipIsSnapshot DEF TypeOK, Snapshot, HEAD
<1>a. NoAttempt \in [index : Snapshot, committed : BOOLEAN, failed : BOOLEAN] /\ Human \in Authors
  BY DEF NoAttempt, Untouched, Snapshot, Contents, Authors
<1>e. ASSUME NEW f \in Files, index' \in Snapshot
      PROVE  Elsewhere(f) \in [index : Snapshot, committed : BOOLEAN, failed : BOOLEAN]
  BY <1>e DEF Elsewhere, TypeOK, Snapshot
<1>1. CASE UNCHANGED vars
  BY <1>1 DEF TypeOK, vars, gitVars, stepVars, serviceVars
<1>2. ASSUME NEW f \in Files, HumanEdits(f) PROVE TypeOK'
  <2>1. tree' \in Snapshot
    BY <1>2 DEF HumanEdits, TypeOK, Snapshot, Contents, Authors
  <2> QED BY <1>2, <2>1 DEF HumanEdits, TypeOK, stepVars, serviceVars
<1>3. ASSUME NEW f \in Files, HumanStages(f) PROVE TypeOK'
  <2>1. index' \in Snapshot
    BY <1>3, <1>t DEF HumanStages, TypeOK, Snapshot
  <2> QED BY <1>3, <1>e, <2>1 DEF HumanStages, TypeOK, stepVars, serviceVars
<1>4. ASSUME NEW f \in Files, HumanCommits(f) PROVE TypeOK'
  <2>1. [Tip EXCEPT ![f] = tree[f]] \in Snapshot /\ index' \in Snapshot
    BY <1>4, <1>t DEF HumanCommits, TypeOK, Snapshot
  <2> DEFINE c == [marker |-> Human, files |-> [Tip EXCEPT ![f] = tree[f]]]
  <2>2. c \in Commits
    BY <2>1, <1>a DEF Commits
  <2>3. history' \in Seq(Commits) /\ history' # <<>> /\ Len(history') = Len(history) + 1
    <3>1. history' = Append(history, c) /\ history \in Seq(Commits)
      BY <1>4 DEF HumanCommits, TypeOK
    <3> HIDE DEF c
    <3> QED BY <2>2, <3>1
  <2>4. attempt' \in [index : Snapshot, committed : BOOLEAN, failed : BOOLEAN]
    BY <1>4, <1>e, <2>1 DEF HumanCommits
  <2> QED BY <1>4, <1>t, <2>1, <2>3, <2>4 DEF HumanCommits, TypeOK, stepVars
<1>5. CASE HumanUnlocks
  BY <1>5 DEF HumanUnlocks, TypeOK, stepVars, serviceVars
<1>6. ASSUME NEW s \in Steps, Engineer(s) PROVE TypeOK'
  <2>1. s \in Authors
    BY DEF Authors
  <2>2. \A r \in Revisions : [f \in Files |-> <<s, r>>] \in Snapshot
    BY <2>1 DEF Snapshot, Contents
  <2>3. tree' \in Snapshot
    <3>1. PICK edited : \/ tree' = Taking(tree, edited, Tip)
                        \/ \E r \in Revisions : tree' = Taking(tree, edited, [f \in Files |-> <<s, r>>])
      BY <1>6 DEF Engineer
    <3>2. CASE tree' = Taking(tree, edited, Tip)
      BY <1>t, <3>2, TakingIsSnapshot DEF TypeOK
    <3>3. ASSUME NEW r \in Revisions, tree' = Taking(tree, edited, [f \in Files |-> <<s, r>>])
          PROVE  tree' \in Snapshot
      <4> DEFINE mine == [f \in Files |-> <<s, r>>]
      <4>1. mine \in Snapshot /\ tree' = Taking(tree, edited, mine)
        BY <2>2, <3>3
      <4> HIDE DEF mine
      <4> QED BY <4>1, TakingIsSnapshot DEF TypeOK
    <3> QED BY <3>1, <3>2, <3>3
  <2>4. index' \in Snapshot
    BY <1>6, <1>t, <2>3, TakingIsSnapshot DEF Engineer, TypeOK
  <2>5. start' \in [Steps -> 0..Len(history)] /\ reviewed' \in [Steps -> Snapshot]
    BY <1>6, <1>t, <2>3 DEF Engineer, TypeOK
  <2>6. baseline' \in [Steps -> SUBSET Files] /\ approved' \in [Steps -> SUBSET Files]
    BY <1>6 DEF Engineer, TypeOK, Changed, Differing
  <2>7. status' \in [Steps -> {"engineering", "checkpoint", "complete"}]
    BY <1>6 DEF Engineer, TypeOK
  <2> QED BY <1>6, <2>3, <2>4, <2>5, <2>6, <2>7 DEF Engineer, TypeOK, serviceVars
<1>r. ASSUME Return
      PROVE  /\ pc' \in Pcs /\ task' \in Authors /\ planned' \in SUBSET Files
             /\ sha' \in 0..Len(history)
             /\ attempt' \in [index : Snapshot, committed : BOOLEAN, failed : BOOLEAN]
  <2>1. pc' \in Pcs /\ task' \in Authors /\ planned' \in SUBSET Files
    BY <1>r, <1>a DEF Return, Pcs
  <2>2. sha' \in 0..Len(history)
    BY <1>r, <1>t DEF Return
  <2> QED BY <1>r, <1>a, <2>1, <2>2 DEF Return
<1> USE DEF KeepGit, Goto, Refuse, gitVars, stepVars
<1>7. ASSUME NEW s \in Steps, ClaimCheckpoint(s) PROVE TypeOK'
  BY <1>7, <1>t DEF ClaimCheckpoint, TypeOK, Pcs, ReadingPcs, Authors
<1>8. CASE RecoverCheckpoint
  <2>1. sha' \in 0..Len(history)
    BY <1>8, <1>t DEF RecoverCheckpoint, FindCheckpoint, CommitsOf
  <2> QED BY <1>8, <2>1 DEF RecoverCheckpoint, TypeOK, Pcs
<1>9. CASE StartCheckpoint
  BY <1>9 DEF StartCheckpoint, TypeOK, Pcs, ReadingPcs
<1>10. CASE CheckHead
  BY <1>10 DEF CheckHead, TypeOK, Pcs, ReadingPcs
<1>11. CASE CheckIndex
  BY <1>11 DEF CheckIndex, TypeOK, Pcs, ReadingPcs
<1>12. CASE ReadStatus
  <2>1. planned' \in SUBSET Files
    BY <1>12 DEF ReadStatus, ReviewedPaths, Changed, Differing
  <2> QED BY <1>12, <2>1 DEF ReadStatus, TypeOK, Pcs
<1>13. CASE Scan
  BY <1>13 DEF Scan, TypeOK, Pcs, WritingPcs
<1>14. CASE Add
  BY <1>14, TakingIsSnapshot DEF Add, AddDone, NothingDone, TypeOK, Pcs, ReadingPcs
<1>15. CASE CheckStaged
  BY <1>15 DEF CheckStaged, TypeOK, Pcs, WritingPcs
<1>c. ASSUME CommitDone
      PROVE  /\ history' \in Seq(Commits) /\ history' # <<>>
             /\ Len(history') = Len(history) + 1
  <2> DEFINE c == [marker |-> task, files |-> index]
  <2>1. c \in Commits /\ history' = Append(history, c) /\ history \in Seq(Commits)
    BY <1>c DEF CommitDone, TypeOK, Commits
  <2> HIDE DEF c
  <2> QED BY <2>1
<1>16. CASE Commit
  <2>1. \/ CommitDone /\ pc' = "confirming"
        \/ NothingDone /\ pc' = "unstaging"
    BY <1>16 DEF Commit
  <2>2. CASE CommitDone
    BY <1>16, <1>c, <2>1, <2>2, <1>t DEF Commit, CommitDone, TypeOK, Pcs, ReadingPcs, WritingPcs
  <2>3. CASE NothingDone
    BY <1>16, <2>1, <2>3 DEF Commit, NothingDone, TypeOK, Pcs, ReadingPcs, WritingPcs
  <2> QED BY <2>1, <2>2, <2>3
<1>17. CASE Unstage
  BY <1>17, <1>t, TakingIsSnapshot DEF Unstage, TypeOK, Pcs
<1>18. CASE Confirm
  BY <1>18, <1>t DEF Confirm, TypeOK, Pcs
<1>19. CASE RecordCheckpoint
  <2>1. status' \in [Steps -> {"engineering", "checkpoint", "complete"}]
    BY <1>19 DEF RecordCheckpoint, TypeOK
  <2>2. recorded' \in [Steps -> 0..Len(history)]
    BY <1>19 DEF RecordCheckpoint, TypeOK
  <2> QED BY <1>19, <1>r, <2>1, <2>2 DEF RecordCheckpoint, TypeOK
<1>20. CASE TimedOut
  <2>1. /\ attempt' \in [index : Snapshot, committed : BOOLEAN, failed : BOOLEAN]
        /\ faults' \in 0..MaxFaults /\ pc' \in Pcs /\ indexLock' \in BOOLEAN
    <3>1. attempt' \in [index : Snapshot, committed : BOOLEAN, failed : BOOLEAN]
      BY <1>20 DEF TimedOut, TypeOK
    <3>2. faults' \in 0..MaxFaults
      BY <1>20 DEF TimedOut, TypeOK
    <3>3. pc' \in Pcs
      BY <1>20 DEF TimedOut, Pcs, WritingPcs
    <3>4. indexLock' \in BOOLEAN
      BY <1>20 DEF TimedOut, TypeOK
    <3> QED BY <3>1, <3>2, <3>3, <3>4
  <2>2. \/ NothingDone \/ AddDone \/ CommitDone
    BY <1>20 DEF TimedOut
  <2>3. CASE NothingDone
    BY <1>20, <2>1, <2>3 DEF TimedOut, NothingDone, TypeOK
  <2>4. CASE AddDone
    BY <1>20, <2>1, <2>4, TakingIsSnapshot DEF TimedOut, AddDone, TypeOK
  <2>5. CASE CommitDone
    BY <1>20, <1>c, <1>t, <2>1, <2>5 DEF TimedOut, CommitDone, TypeOK
  <2> QED BY <2>2, <2>3, <2>4, <2>5
<1>21. CASE Crash
  <2>1. indexLock' \in {indexLock, TRUE} /\ faults' = faults + 1 /\ faults < MaxFaults
    BY <1>21 DEF Crash
  <2>2. indexLock' \in BOOLEAN
    BY <2>1, Zenon DEF TypeOK
  <2>3. faults' \in 0..MaxFaults
    BY <2>1 DEF TypeOK
  <2> QED BY <1>21, <1>r, <2>2, <2>3 DEF Crash, TypeOK
<1> QED
  BY <1>1, <1>2, <1>3, <1>4, <1>5, <1>6, <1>7, <1>8, <1>9, <1>10, <1>11, <1>12, <1>13, <1>14,
     <1>15, <1>16, <1>17, <1>18, <1>19, <1>20, <1>21
  DEF Next, Service, Environment

-----------------------------------------------------------------------------
(* What the service knows of the history                                    *)

LEMMA HistoryInit == Init => HistoryInv
<1> SUFFICES ASSUME Init PROVE HistoryInv
  OBVIOUS
<1>1. \A s \in Steps : CommitsOf(s) = {}
  BY CheckpointAssumption DEF Init, CommitsOf, HEAD
<1>2. OneCommitPerStep /\ RecordIsOwn
  BY <1>1 DEF Init, OneCommitPerStep, RecordIsOwn
<1> QED
  BY <1>2 DEF Init, NoAttempt, HistoryInv, TaskIsCandidate, FoundIsOwn, NoneIsFound, OneIsMade,
     FaultEnds, CommitIsKnown, CommitIsRecovered, UnfoundPcs, CleanPcs

LEMMA HistoryStep == TypeOK /\ HistoryInv /\ [Next]_vars => HistoryInv'
<1> SUFFICES ASSUME TypeOK, HistoryInv, [Next]_vars PROVE HistoryInv'
  OBVIOUS
<1> USE DEF HistoryInv, TaskIsCandidate, FoundIsOwn, NoneIsFound, OneIsMade, FaultEnds,
        CommitIsKnown, CommitIsRecovered, OneCommitPerStep, RecordIsOwn, Idle, stepVars, gitVars
<1>t. HEAD \in Nat /\ HEAD > 0 /\ HEAD = Len(history)
  BY TipIsSnapshot DEF HEAD
<1>u. UnfoundPcs = {"checking_head", "checking_index", "reading_status", "scanning", "adding",
                    "checking_staged", "committing"}
  BY DEF UnfoundPcs, CleanPcs
\* Nothing that the invariant is about changes.
<1>0. ASSUME UNCHANGED <<history, status, recorded, pc, task, sha>>,
             attempt'.committed = attempt.committed, attempt'.failed = attempt.failed
      PROVE  HistoryInv'
  BY <1>0 DEF CommitsOf, HEAD
<1>1. CASE UNCHANGED vars
  BY <1>0, <1>1 DEF vars, serviceVars
<1>e. ASSUME NEW f \in Files
      PROVE  Elsewhere(f).committed = attempt.committed /\ Elsewhere(f).failed = attempt.failed
  BY DEF Elsewhere, TypeOK
<1>2. ASSUME NEW f \in Files, HumanEdits(f) \/ HumanStages(f) PROVE HistoryInv'
  BY <1>0, <1>2, <1>e DEF HumanEdits, HumanStages, serviceVars
<1>3. CASE HumanUnlocks
  BY <1>0, <1>3 DEF HumanUnlocks, serviceVars
<1>4. ASSUME NEW f \in Files, HumanCommits(f) PROVE HistoryInv'
  <2> DEFINE c == [marker |-> Human, files |-> [Tip EXCEPT ![f] = tree[f]]]
  <2>1. /\ c.marker = Human /\ history' = Append(history, c)
        /\ UNCHANGED <<status, recorded, pc, task, sha>>
        /\ attempt'.committed = attempt.committed /\ attempt'.failed = attempt.failed
    BY <1>4, <1>e DEF HumanCommits
  <2>2. c \in Commits
    BY <1>4, TipIsSnapshot DEF HumanCommits, TypeOK, Snapshot, Commits, Authors
  <2> HIDE DEF c
  <2>3. /\ HEAD' = HEAD + 1
        /\ \A s : CommitsOf(s)' = CommitsOf(s) \cup (IF c.marker = s THEN {HEAD + 1} ELSE {})
    BY <2>1, <2>2, CommitsAfterAppend
  <2>4. \A s \in Steps : CommitsOf(s)' = CommitsOf(s)
    BY <2>1, <2>3, CheckpointAssumption
  <2>5. \A s \in Steps : {i \in 1..HEAD' : history'[i].marker = s} = {i \in 1..HEAD : history[i].marker = s}
    BY <2>4 DEF CommitsOf
  <2>6. pc # "idle" => CommitsOf(task)' = CommitsOf(task)
    <3>1. pc # "idle" => task \in Steps /\ task' = task
      BY <2>1
    <3>2. pc # "idle" => {i \in 1..HEAD' : history'[i].marker = task} = {i \in 1..HEAD : history[i].marker = task}
      BY <2>5, <3>1
    <3> QED BY <3>1, <3>2 DEF CommitsOf
  <2>7. TaskIsCandidate' /\ FoundIsOwn' /\ OneIsMade' /\ FaultEnds' /\ CommitIsKnown' /\ CommitIsRecovered'
    BY <2>1, <2>6
  <2>8. NoneIsFound'
    BY <1>u, <2>1, <2>6
  <2>9. OneCommitPerStep'
    <3> SUFFICES ASSUME NEW s \in Steps PROVE (\A i, k \in CommitsOf(s) : i = k)'
      BY DEF OneCommitPerStep
    <3> QED BY <2>4
  <2>10. RecordIsOwn'
    <3> SUFFICES ASSUME NEW s \in Steps, status'[s] = "complete" PROVE (recorded[s] \in CommitsOf(s))'
      BY DEF RecordIsOwn
    <3> QED BY <2>1, <2>4
  <2> QED BY <2>7, <2>8, <2>9, <2>10
<1>5. ASSUME NEW s \in Steps, Engineer(s) PROVE HistoryInv'
  BY <1>5 DEF Engineer, serviceVars, CommitsOf, HEAD, TypeOK
<1> USE DEF KeepGit, Goto, Refuse
<1>6. ASSUME NEW s \in Steps, ClaimCheckpoint(s) PROVE HistoryInv'
  <2>1. CommitIsKnown'
    <3>1. pc' = "finding" /\ (attempt'.committed => CommitsOf(s) # {})
      BY <1>6, Zenon DEF ClaimCheckpoint
    <3>2. CommitsOf(task)' = CommitsOf(s)
      BY <1>6 DEF ClaimCheckpoint, CommitsOf, HEAD
    <3> QED BY <3>1, <3>2
  <2>2. TaskIsCandidate' /\ FoundIsOwn' /\ NoneIsFound' /\ OneIsMade' /\ FaultEnds' /\ CommitIsRecovered'
    BY <1>6, <1>u DEF ClaimCheckpoint
  <2>3. OneCommitPerStep' /\ RecordIsOwn'
    BY <1>6 DEF ClaimCheckpoint, CommitsOf, HEAD
  <2> QED BY <2>1, <2>2, <2>3
<1>7. CASE RecoverCheckpoint
  BY <1>7, <1>u DEF RecoverCheckpoint, FindCheckpoint, CommitsOf, HEAD
<1>8. CASE StartCheckpoint
  BY <1>8, <1>u DEF StartCheckpoint, FindCheckpoint, CommitsOf, HEAD
<1>9. CASE CheckHead \/ CheckIndex
  BY <1>9, <1>u DEF CheckHead, CheckIndex, CommitsOf, HEAD
<1>10. CASE ReadStatus
  BY <1>10, <1>u DEF ReadStatus, CommitsOf, HEAD
<1>11. CASE Scan
  BY <1>11, <1>u DEF Scan, CommitsOf, HEAD
<1>12. CASE Add
  BY <1>12, <1>u DEF Add, AddDone, NothingDone, CommitsOf, HEAD
<1>13. CASE CheckStaged
  BY <1>13, <1>u DEF CheckStaged, CommitsOf, HEAD
\* The one commit of a step is made when it has none.
<1>c. ASSUME CommitDone, pc = "committing"
      PROVE  /\ HEAD' = HEAD + 1
             /\ \A s \in Steps \ {task} :
                   {i \in 1..HEAD' : history'[i].marker = s} = {i \in 1..HEAD : history[i].marker = s}
             /\ {i \in 1..HEAD' : history'[i].marker = task} = {HEAD + 1}
  <2> DEFINE c == [marker |-> task, files |-> index]
  <2>1. c \in Commits /\ history' = Append(history, c) /\ c.marker = task
    BY <1>c DEF CommitDone, TypeOK, Commits
  <2> HIDE DEF c
  <2>2. {i \in 1..HEAD : history[i].marker = task} = {}
    BY <1>c, <1>u DEF CommitsOf
  <2>3. /\ HEAD' = HEAD + 1
        /\ \A s : CommitsOf(s)' = CommitsOf(s) \cup (IF task = s THEN {HEAD + 1} ELSE {})
    BY <2>1, CommitsAfterAppend
  <2>4. /\ \A s \in Steps \ {task} : CommitsOf(s)' = CommitsOf(s)
    BY <2>3
  <2>5. \A s \in Steps \ {task} :
          {i \in 1..HEAD' : history'[i].marker = s} = {i \in 1..HEAD : history[i].marker = s}
    BY <2>4 DEF CommitsOf
  <2>6. {i \in 1..HEAD' : history'[i].marker = task}
        = {i \in 1..HEAD : history[i].marker = task} \cup {HEAD + 1}
    BY <2>3, Zenon DEF CommitsOf
  <2> QED BY <2>2, <2>3, <2>5, <2>6
<1>14. CASE Commit
  <2>1. CASE CommitDone /\ Goto("confirming")
    <3>1. TaskIsCandidate' /\ FoundIsOwn' /\ NoneIsFound' /\ FaultEnds' /\ CommitIsKnown' /\ CommitIsRecovered'
      BY <1>14, <1>u, <2>1 DEF Commit
    <3>2. OneIsMade'
      BY <1>14, <1>c, <1>t, <2>1 DEF Commit, CommitsOf
    <3>3. OneCommitPerStep'
      BY <1>14, <1>c, <1>t, <2>1 DEF Commit, CommitsOf
    <3>4. RecordIsOwn'
      BY <1>14, <1>c, <1>t, <2>1 DEF Commit, CommitsOf
    <3> QED BY <3>1, <3>2, <3>3, <3>4
  <2>2. CASE NothingDone /\ Goto("unstaging")
    BY <1>14, <1>u, <2>2 DEF Commit, NothingDone, CommitsOf, HEAD
  <2> QED BY <1>14, <2>1, <2>2 DEF Commit
<1>15. CASE Unstage
  BY <1>15, <1>u DEF Unstage, CommitsOf, HEAD
<1>16. CASE Confirm
  BY <1>16, <1>t, <1>u DEF Confirm, CommitsOf, HEAD
<1>17. CASE RecordCheckpoint
  BY <1>17, <1>u DEF RecordCheckpoint, Return, NoAttempt, CommitsOf, HEAD, TypeOK
<1>18. CASE TimedOut
  <2>1. /\ pc' \in {"refused", "unstaging"} /\ attempt'.failed
        /\ pc \notin {"idle", "succeeded"}
        /\ attempt'.committed = attempt.committed
        /\ UNCHANGED <<task, sha, status, recorded>>
    BY <1>18 DEF TimedOut, ReadingPcs, TypeOK
  <2>2. UNCHANGED history \/ (CommitDone /\ pc = "committing")
    BY <1>18 DEF TimedOut, NothingDone, AddDone
  <2>3. pc' = "unstaging" => pc = "committing"
    BY <1>18 DEF TimedOut
  <2>4. CASE UNCHANGED history
    BY <1>u, <2>1, <2>3, <2>4 DEF CommitsOf, HEAD
  <2>5. CASE CommitDone /\ pc = "committing"
    BY <1>c, <1>t, <1>u, <2>1, <2>5 DEF CommitsOf
  <2> QED BY <2>2, <2>4, <2>5
<1>19. CASE Crash
  BY <1>19, <1>u DEF Crash, Return, NoAttempt, CommitsOf, HEAD
<1> QED
  BY <1>1, <1>2, <1>3, <1>4, <1>5, <1>6, <1>7, <1>8, <1>9, <1>10, <1>11, <1>12, <1>13, <1>14,
     <1>15, <1>16, <1>17, <1>18, <1>19
  DEF Next, Service, Environment

-----------------------------------------------------------------------------
(* What the service knows of the index                                      *)

LEMMA IndexInit == Init => IndexInv
BY DEF Init, IndexInv, IndexIsAsFound, IndexWasClean, PlanIsApproved, IndexIsPlan, LockIsOurs,
       IndexIsGivenBack, BeforeAdd, CleanPcs, StagedPcs, Unstaging

\* A snapshot taken from another and given back is what it was.
LEMMA TakingBack ==
  ASSUME NEW a \in Snapshot, NEW b, NEW F
  PROVE  Taking(Taking(a, F, b), F, a) = a
BY DEF Taking, Snapshot

LEMMA IndexStep ==
  ~StagesMeanwhile => (TypeOK /\ HistoryInv /\ IndexInv /\ [Next]_vars => IndexInv')
<1> SUFFICES ASSUME ~StagesMeanwhile, TypeOK, HistoryInv, IndexInv, [Next]_vars PROVE IndexInv'
  OBVIOUS
<1> USE DEF IndexInv, IndexIsAsFound, IndexWasClean, PlanIsApproved, IndexIsPlan, LockIsOurs,
        IndexIsGivenBack, Idle, stepVars, gitVars, BeforeAdd, CleanPcs, StagedPcs, Unstaging
<1>t. pc # "idle" => task \in Steps /\ status[task] = "checkpoint"
  BY DEF HistoryInv, TaskIsCandidate
<1>f. attempt.failed => pc \in {"unstaging", "refused"}
  BY DEF HistoryInv, FaultEnds
<1>i. ASSUME pc' = "idle" PROVE IndexInv'
  BY <1>i
<1>0. ASSUME UNCHANGED <<tree, index, history, indexLock, approved, pc, task, planned, attempt>>
      PROVE IndexInv'
  BY <1>0 DEF CommitsOf, HEAD, Tip
<1>1. CASE UNCHANGED vars
  BY <1>0, <1>1 DEF vars, serviceVars
<1>2. ASSUME NEW f \in Files, HumanEdits(f) PROVE IndexInv'
  <2>1. UNCHANGED <<index, history, indexLock, approved, pc, task, planned, attempt>>
    BY <1>2 DEF HumanEdits, serviceVars
  <2>2. Tip' = Tip /\ CommitsOf(task)' = CommitsOf(task)
    BY <2>1 DEF Tip, HEAD, CommitsOf
  <2>3. pc \in StagedPcs \/ Unstaging => Taking(Tip, planned, tree') = Taking(Tip, planned, tree)
    BY <1>2, <1>t DEF HumanEdits, Taking, TypeOK, Snapshot
  <2> QED BY <2>1, <2>2, <2>3
<1>3. ASSUME NEW f \in Files, HumanStages(f) PROVE IndexInv'
  BY <1>3, <1>i DEF HumanStages, serviceVars
<1>4. CASE HumanUnlocks
  BY <1>4, <1>i DEF HumanUnlocks, serviceVars
\* What the human commits goes into the index, the commit and the tree alike.
<1>5. ASSUME NEW f \in Files, HumanCommits(f) PROVE IndexInv'
  <2>1. CASE Idle
    BY <1>5, <1>i, <2>1 DEF HumanCommits
  <2>2. CASE ~Idle
    <3> DEFINE c == [marker |-> Human, files |-> [Tip EXCEPT ![f] = tree[f]]]
    <3>1. /\ index' = [index EXCEPT ![f] = tree[f]]
          /\ attempt'.index = [attempt.index EXCEPT ![f] = tree[f]]
          /\ attempt'.failed = attempt.failed
          /\ history' = Append(history, c)
          /\ UNCHANGED <<tree, indexLock, approved, pc, task, planned>>
      BY <1>5, <2>2 DEF HumanCommits, Elsewhere, TypeOK, Snapshot
    <3>2. c \in Commits
      BY <1>5, TipIsSnapshot DEF HumanCommits, TypeOK, Snapshot, Commits, Authors
    <3>3. Tip' = [Tip EXCEPT ![f] = tree[f]]
      <4>1. history'[HEAD'] = c
        <5> HIDE DEF c
        <5> QED BY <3>1, <3>2, CommitsAfterAppend
      <4> QED BY <4>1 DEF Tip
    <3>4. CommitsOf(task) \subseteq CommitsOf(task)'
      <4>1. \A s : CommitsOf(s)' = CommitsOf(s) \cup (IF c.marker = s THEN {HEAD + 1} ELSE {})
        BY <3>1, <3>2, CommitsAfterAppend
      <4>2. {i \in 1..HEAD' : history'[i].marker = task} = CommitsOf(task) \cup (IF c.marker = task THEN {HEAD + 1} ELSE {})
        BY <4>1 DEF CommitsOf
      <4> QED BY <3>1, <4>2 DEF CommitsOf
    <3>5. index = Taking(Tip, planned, tree) => index' = Taking(Tip', planned, tree)
      <4> SUFFICES ASSUME index = Taking(Tip, planned, tree) PROVE index' = Taking(Tip', planned, tree)
        OBVIOUS
      <4>1. Tip \in [Files -> Contents] /\ index \in [Files -> Contents]
        BY TipIsSnapshot DEF TypeOK, Snapshot
      <4>2. \A g \in Files : index'[g] = IF g \in planned THEN tree[g] ELSE Tip'[g]
        BY <3>1, <3>3, <4>1 DEF Taking
      <4> QED BY <3>1, <4>1, <4>2 DEF Taking
    <3>6. IndexIsAsFound' /\ IndexWasClean' /\ PlanIsApproved' /\ LockIsOurs'
      BY <3>1, <3>3
    <3>7. IndexIsPlan'
      BY <3>1, <3>5
    <3>8. IndexIsGivenBack'
      BY <3>1, <3>4
    <3> QED BY <3>6, <3>7, <3>8
  <2> QED BY <2>1, <2>2
<1>6. ASSUME NEW s \in Steps, Engineer(s) PROVE IndexInv'
  BY <1>6, <1>i DEF Engineer, serviceVars
<1> USE DEF KeepGit, Goto, Refuse
<1>7. ASSUME NEW s \in Steps, ClaimCheckpoint(s) PROVE IndexInv'
  BY <1>7 DEF ClaimCheckpoint
<1>8. CASE RecoverCheckpoint
  BY <1>8 DEF RecoverCheckpoint
<1>9. CASE StartCheckpoint
  BY <1>9 DEF StartCheckpoint
<1>10. CASE CheckHead
  BY <1>10 DEF CheckHead
<1>11. CASE CheckIndex
  <2>1. CASE Staged = {}
    <3>1. index = Tip
      BY <2>1, TipIsSnapshot DEF Staged, Differing, TypeOK, Snapshot
    <3> QED BY <1>11, <2>1, <3>1 DEF CheckIndex, Tip, HEAD
  <2>2. CASE Staged # {}
    BY <1>11, <2>2 DEF CheckIndex
  <2> QED BY <2>1, <2>2
<1>12. CASE ReadStatus
  <2>1. pc' = "scanning" => planned' = approved[task]
    BY <1>12 DEF ReadStatus, ReviewedPaths
  <2> QED BY <1>12, <2>1 DEF ReadStatus, Tip, HEAD
<1>13. CASE Scan
  BY <1>13 DEF Scan, Tip, HEAD
<1>14. CASE Add
  BY <1>14, <1>f DEF Add, AddDone, NothingDone, Tip, HEAD
<1>15. CASE CheckStaged
  BY <1>15, <1>f DEF CheckStaged, Tip, HEAD
<1>16. CASE Commit
  BY <1>16, <1>f DEF Commit, NothingDone, Tip, HEAD
<1>17. CASE Unstage
  <2>1. CASE attempt.failed
    BY <1>17, <2>1 DEF Unstage
  <2>2. CASE ~attempt.failed
    <3>1. index' = Taking(index, planned, Tip) /\ index = Taking(Tip, planned, tree) /\ attempt.index = Tip
      BY <1>17, <2>2 DEF Unstage
    <3>2. index' = Tip
      BY <3>1, TakingBack, TipIsSnapshot
    <3> QED BY <1>17, <3>1, <3>2 DEF Unstage
  <2> QED BY <2>1, <2>2
<1>18. CASE Confirm
  <2>1. CommitsOf(task) # {} /\ CommitsOf(task)' = CommitsOf(task)
    BY <1>18 DEF Confirm, HistoryInv, OneIsMade, CommitsOf, HEAD
  <2> QED BY <1>18, <2>1 DEF Confirm
<1>19. CASE RecordCheckpoint \/ Crash
  BY <1>19, <1>i DEF RecordCheckpoint, Crash, Return
<1>20. CASE TimedOut
  <2>1. attempt'.failed /\ pc' \in {"refused", "unstaging"}
    BY <1>20 DEF TimedOut, TypeOK
  <2> QED BY <2>1
<1> QED
  BY <1>1, <1>2, <1>3, <1>4, <1>5, <1>6, <1>7, <1>8, <1>9, <1>10, <1>11, <1>12, <1>13, <1>14,
     <1>15, <1>16, <1>17, <1>18, <1>19, <1>20
  DEF Next, Service, Environment

-----------------------------------------------------------------------------
(* The theorems                                                             *)

\* What holds whatever the human stages.
LEMMA HistoryHolds == Spec => [](TypeOK /\ HistoryInv)
<1>1. Init => TypeOK /\ HistoryInv
  BY TypeInit, HistoryInit
<1>2. TypeOK /\ HistoryInv /\ [Next]_vars => (TypeOK /\ HistoryInv)'
  BY TypeStep, HistoryStep
<1> QED BY <1>1, <1>2, PTL DEF Spec

\* What holds when nobody else stages during a checkpoint.
LEMMA InvariantHolds == ~StagesMeanwhile => (Spec => []IInv)
<1> SUFFICES ASSUME ~StagesMeanwhile PROVE Spec => []IInv
  OBVIOUS
<1>1. Init => IInv
  BY TypeInit, HistoryInit, IndexInit DEF IInv
<1>2. IInv /\ [Next]_vars => IInv'
  BY TypeStep, HistoryStep, IndexStep DEF IInv
<1> QED BY <1>1, <1>2, PTL DEF Spec

\* Every reachable state of the service and its repository is well typed.
THEOREM TypesAreKept == Spec => []TypeOK
BY HistoryHolds, PTL

\* The commit recorded for a step is its own, wherever HEAD was when the
\* service asked for it (checkpoint.py: rev-parse and the marker check).
THEOREM RecordsAreOwn == Spec => []RecordIsOwn
<1>1. HistoryInv => RecordIsOwn
  BY DEF HistoryInv
<1> QED BY <1>1, HistoryHolds, PTL

\* A refused checkpoint leaves the index as it found it (checkpoint.py:
\* the clean-index check and _unstage).
THEOREM IndexesAreGivenBack == ~StagesMeanwhile => (Spec => []IndexIsGivenBack)
<1> SUFFICES ASSUME ~StagesMeanwhile PROVE Spec => []IndexIsGivenBack
  OBVIOUS
<1>1. IInv => IndexIsGivenBack
  BY DEF IInv, IndexInv
<1> QED BY <1>1, InvariantHolds, PTL

\* A commit that exists when its checkpoint is tried again is never refused
\* (checkpoint.py: find_existing_checkpoint before every other check).
THEOREM CommitsAreRecovered == Spec => []CommitIsRecovered
<1>1. HistoryInv => CommitIsRecovered
  BY DEF HistoryInv
<1> QED BY <1>1, HistoryHolds, PTL

\* Crashes, timeouts and repeated attempts never commit a step twice.
THEOREM StepsCommitOnce == Spec => []OneCommitPerStep
<1>1. HistoryInv => OneCommitPerStep
  BY DEF HistoryInv
<1> QED BY <1>1, HistoryHolds, PTL

ExactStep ==
  \A s \in Steps :
    (HEAD' = HEAD + 1 /\ history'[HEAD'].marker = s) =>
      history'[HEAD'].files = Taking(Tip, approved[s], tree)

LEMMA ExactIsKept == IInv /\ [Next]_vars => ExactStep
<1> SUFFICES ASSUME IInv, [Next]_vars, NEW s \in Steps,
                    HEAD' = HEAD + 1, history'[HEAD'].marker = s
             PROVE  history'[HEAD'].files = Taking(Tip, approved[s], tree)
  BY DEF ExactStep
<1>t. TypeOK
  BY DEF IInv
<1>1. ~ UNCHANGED history
  BY <1>t, TipIsSnapshot DEF HEAD
<1>2. ASSUME NEW f \in Files, HumanCommits(f) PROVE FALSE
  <2> DEFINE c == [marker |-> Human, files |-> [Tip EXCEPT ![f] = tree[f]]]
  <2>1. c \in Commits /\ history' = Append(history, c) /\ c.marker = Human
    BY <1>2, <1>t, TipIsSnapshot DEF HumanCommits, TypeOK, Snapshot, Commits, Authors
  <2> HIDE DEF c
  <2>2. history'[HEAD'] = c
    BY <1>t, <2>1, CommitsAfterAppend
  <2> QED BY <2>1, <2>2, CheckpointAssumption
<1>3. ASSUME CommitDone, pc = "committing"
      PROVE  history'[HEAD'].files = Taking(Tip, approved[s], tree)
  <2> DEFINE c == [marker |-> task, files |-> index]
  <2>1. c \in Commits /\ history' = Append(history, c) /\ c.marker = task /\ c.files = index
    BY <1>3, <1>t DEF CommitDone, TypeOK, Commits
  <2> HIDE DEF c
  <2>2. history'[HEAD'] = c
    BY <1>t, <2>1, CommitsAfterAppend
  <2>3. index = Taking(Tip, planned, tree) /\ planned = approved[task]
    BY <1>3 DEF IInv, IndexInv, IndexIsPlan, PlanIsApproved, StagedPcs
  <2> QED BY <2>1, <2>2, <2>3
<1>4. UNCHANGED history \/ (\E f \in Files : HumanCommits(f)) \/ (CommitDone /\ pc = "committing")
  <2>1. CASE UNCHANGED vars
    BY <2>1 DEF vars, gitVars
  <2>2. CASE Environment
    BY <2>2 DEF Environment, HumanEdits, HumanStages, HumanUnlocks, Engineer
  <2>3. CASE Service
    BY <2>3 DEF Service, ClaimCheckpoint, RecoverCheckpoint, StartCheckpoint, CheckHead, CheckIndex,
                ReadStatus, Scan, Add, AddDone, NothingDone, CheckStaged, Commit, Unstage, Confirm,
                RecordCheckpoint, KeepGit, gitVars
  <2>4. CASE TimedOut \/ Crash
    BY <2>4 DEF TimedOut, Crash, AddDone, NothingDone
  <2> QED BY <2>1, <2>2, <2>3, <2>4 DEF Next
<1> QED BY <1>1, <1>2, <1>3, <1>4

\* A checkpoint commits the approved files and nothing else, whatever a human
\* edits and commits meanwhile, and stages at other times (checkpoint.py: explicit paths, the
\* clean-index check and the comparison of status with the approved files).
THEOREM CommitsAreExact == ~StagesMeanwhile => (Spec => CommitIsExact)
<1> SUFFICES ASSUME ~StagesMeanwhile PROVE Spec => CommitIsExact
  OBVIOUS
<1>1. IInv /\ [Next]_vars => [\A s \in Steps :
         (HEAD' = HEAD + 1 /\ history'[HEAD'].marker = s) =>
           history'[HEAD'].files = Taking(Tip, approved[s], tree)]_vars
  BY ExactIsKept DEF ExactStep
<1> QED BY <1>1, InvariantHolds, PTL DEF Spec, CommitIsExact
=============================================================================
