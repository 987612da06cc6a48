---------------------------- MODULE Integration ----------------------------
(***************************************************************************)
(* IntegrationManager.integrate: merging the commit of a finished work     *)
(* package into the branch of its mission, in a detached worktree, and     *)
(* moving the branch with "git update-ref <branch> <merged> <base>".       *)
(*                                                                         *)
(* Any number of processes integrate at the same time: every coordinator   *)
(* after a checkpoint, and "integrate-package" on the command line.  One   *)
(* action is one Git command or one database transaction; a process may    *)
(* die, or its command may fail, between any two of them.  The mission     *)
(* branch is the sequence of the packages merged into it: it only grows,   *)
(* so two equal sequences are the same commit.  The evidence that a        *)
(* package is ready and the status of the mission are kept by other parts, *)
(* which Environment stands for.                                           *)
(***************************************************************************)
EXTENDS Naturals, Sequences, FiniteSets

CONSTANTS
  Packages,      \* ids of work_packages rows
  Integrators,   \* processes that may integrate a package
  NoPackage      \* the task of an idle process

ASSUME IntegrationAssumption == NoPackage \notin Packages

VARIABLES
  pkg,           \* work_packages.status
  evidence,      \* what the review, verification and checkpoint rows prove
  missionStatus, \* missions.status
  branch,        \* Git: packages merged into the mission branch, in order
  integration,   \* mission_integrations.status, "none" without a row
  at, merging,   \* what an integrating process does, and for which package
  base, tip      \* the branch it read first, and HEAD of its worktree

repoVars  == <<branch, integration>>
localVars == <<at, merging, base, tip>>
integrationVars == <<repoVars, localVars>>
vars == <<pkg, evidence, missionStatus, integrationVars>>

-----------------------------------------------------------------------------

PackageStates == {"absent", "ready", "engineering", "verifying", "complete",
                  "blocked", "cancelled"}
MissionStates == {"active", "paused", "blocked", "complete", "cancelled"}
IntegrationStates == {"none", "integrating", "complete", "conflict", "failed"}
Evidence == {"approved", "verified", "committed"}
Stages == {"idle", "begun", "based", "checked_out", "merged", "updated",
           "conflicted"}

Merged == {branch[k] : k \in DOMAIN branch}
Earned == {p \in Packages : evidence[p] = Evidence}
Recorded == {p \in Packages : integration[p] = "complete"}

IntegrationTypeOK ==
  /\ pkg \in [Packages -> PackageStates]
  /\ evidence \in [Packages -> SUBSET Evidence]
  /\ missionStatus \in MissionStates
  /\ branch \in Seq(Packages)
  /\ integration \in [Packages -> IntegrationStates]
  /\ at \in [Integrators -> Stages]
  /\ merging \in [Integrators -> Packages \cup {NoPackage}]
  /\ base \in [Integrators -> Seq(Packages)]
  /\ tip \in [Integrators -> Seq(Packages)]

IntegrationInit ==
  /\ branch = <<>>
  /\ integration = [p \in Packages |-> "none"]
  /\ at = [i \in Integrators |-> "idle"]
  /\ merging = [i \in Integrators |-> NoPackage]
  /\ base = [i \in Integrators |-> <<>>]
  /\ tip = [i \in Integrators |-> <<>>]

-----------------------------------------------------------------------------

Working(i, stage) == at[i] = stage /\ merging[i] \in Packages

\* The worktree is removed and the process is done with the package.
Finish(i) ==
  /\ at' = [at EXCEPT ![i] = "idle"]
  /\ merging' = [merging EXCEPT ![i] = NoPackage]
  /\ base' = [base EXCEPT ![i] = <<>>]
  /\ tip' = [tip EXCEPT ![i] = <<>>]

Proceed(i, stage) == at' = [at EXCEPT ![i] = stage] /\ UNCHANGED merging

Upsert(p, status) == integration' = [integration EXCEPT ![p] = status]

\* Mutant: a complete package is merged without a look at its evidence.
ReadyWhenComplete(p) == pkg[p] = "complete"

\* package_completion_evidence()["ready_for_integration"].
ReadyForIntegration(p) == pkg[p] = "complete" /\ p \in Earned

BeginIntegration(i, p) ==
  /\ at[i] = "idle"
  /\ ReadyForIntegration(p)
  /\ Upsert(p, "integrating")
  /\ at' = [at EXCEPT ![i] = "begun"]
  /\ merging' = [merging EXCEPT ![i] = p]
  /\ UNCHANGED <<branch, base, tip>>

\* git rev-parse <target>
ReadBase(i) ==
  /\ Working(i, "begun")
  /\ base' = [base EXCEPT ![i] = branch]
  /\ Proceed(i, "based")
  /\ UNCHANGED <<repoVars, tip>>

\* git worktree add --detach <target>: the branch as it is by now.
AddWorktree(i) ==
  /\ Working(i, "based")
  /\ tip' = [tip EXCEPT ![i] = branch]
  /\ Proceed(i, "checked_out")
  /\ UNCHANGED <<repoVars, base>>

\* git merge --no-ff and the commit that checks the roadmap item.  A commit
\* that HEAD contains already is "up to date".
MergeInto(commits, p) ==
  IF \E k \in DOMAIN commits : commits[k] = p THEN commits ELSE Append(commits, p)

MergePackage(i) ==
  /\ Working(i, "checked_out")
  /\ tip' = [tip EXCEPT ![i] = MergeInto(@, merging[i])]
  /\ Proceed(i, "merged")
  /\ UNCHANGED <<repoVars, base>>

MergeConflicts(i) ==
  /\ Working(i, "checked_out")
  /\ MergeInto(tip[i], merging[i]) # tip[i]
  /\ Upsert(merging[i], "conflict")
  /\ Proceed(i, "conflicted")
  /\ UNCHANGED <<branch, base, tip>>

\* enqueue_human_request(kind="integration-conflict"), whose row nothing here
\* reads, and update_mission_status(mission_id, "blocked"), whatever the status is.
BlockMission(i) ==
  /\ Working(i, "conflicted")
  /\ missionStatus' = "blocked"
  /\ Finish(i)
  /\ UNCHANGED repoVars

\* Mutant: the branch is moved whatever it is by now.
UpdateRefAnyway(i) ==
  /\ Working(i, "merged")
  /\ branch' = tip[i]
  /\ Proceed(i, "updated")
  /\ UNCHANGED <<integration, base, tip>>

\* git update-ref refs/heads/<target> <merged> <base>
UpdateRef(i) ==
  /\ Working(i, "merged")
  /\ branch = base[i]
  /\ branch' = tip[i]
  /\ Proceed(i, "updated")
  /\ UNCHANGED <<integration, base, tip>>

RecordIntegration(i) ==
  /\ Working(i, "updated")
  /\ Upsert(merging[i], "complete")
  /\ Finish(i)
  /\ UNCHANGED branch

\* Any exception: a Git command, the refused update-ref, a database error.
\* The row says "failed" even where the branch has been moved.
IntegrationFails(i) ==
  /\ at[i] # "idle" /\ merging[i] \in Packages
  /\ Upsert(merging[i], "failed")
  /\ Finish(i)
  /\ UNCHANGED branch

\* The process dies; its row stays "integrating" and its worktree on disk.
IntegratorDies(i) ==
  /\ at[i] # "idle"
  /\ Finish(i)
  /\ UNCHANGED repoVars

GitStep(i) == ReadBase(i) \/ AddWorktree(i) \/ MergePackage(i) \/ UpdateRef(i)

Integrate(i) ==
  \/ /\ \/ GitStep(i) \/ MergeConflicts(i) \/ RecordIntegration(i)
        \/ IntegrationFails(i) \/ IntegratorDies(i)
     /\ UNCHANGED <<pkg, evidence, missionStatus>>
  \/ BlockMission(i) /\ UNCHANGED <<pkg, evidence>>
  \/ /\ \E p \in Packages : BeginIntegration(i, p)
     /\ UNCHANGED <<pkg, evidence, missionStatus>>

\* The rest of the system: statuses change as they may, the evidence of one
\* package at a time, and complete evidence is never withdrawn.
Environment ==
  /\ pkg' \in [Packages -> PackageStates]
  /\ missionStatus' \in MissionStates
  /\ \/ UNCHANGED evidence
     \/ \E p \in Packages \ Earned, new \in SUBSET Evidence :
          evidence' = [evidence EXCEPT ![p] = new]
  /\ UNCHANGED integrationVars

Init ==
  /\ pkg = [p \in Packages |-> "absent"]
  /\ evidence = [p \in Packages |-> {}]
  /\ missionStatus = "active"
  /\ IntegrationInit

IntegrationSpec ==
  Init /\ [][Environment \/ \E i \in Integrators : Integrate(i)]_vars

-----------------------------------------------------------------------------
(* Properties                                                              *)

\* A package whose integration is recorded as complete is in the mission
\* branch: no later integration, which may have started on an older branch,
\* loses its merge (update-ref with the base it merged onto).
IntegratedIsInBranch == Recorded \subseteq Merged

\* Everything in the mission branch was approved by a review, passed
\* verification and was committed by a checkpoint, and is there once.
BranchIsEarned ==
  /\ Merged \subseteq Earned
  /\ \A k, l \in DOMAIN branch : branch[k] = branch[l] => k = l

\* The mission branch is only ever extended, by one merge at a time.
BranchOnlyGrows ==
  [][\/ branch' = branch
     \/ \E p \in Packages \ Merged : branch' = Append(branch, p)]_vars

BranchOf == INSTANCE MissionBranch
              WITH earned <- Earned, merged <- Merged, recorded <- Recorded

\* Integration implements its abstract specification: packages are merged
\* atomically and recorded afterwards.
MergesAreAtomic == BranchOf!Spec
=============================================================================
