-------------------------- MODULE MissionWorkflow --------------------------
(***************************************************************************)
(* A mission: its work packages, the job and the step of each package, the *)
(* coordinators that carry them out and integrate them (Integration), and  *)
(* the operator that pauses, resumes and cancels the mission or the job of *)
(* one package.                                                            *)
(*                                                                         *)
(* StepWorkflow has the phases of one step transaction by transaction,     *)
(* with their leases and fences.  Here a phase is a claim and an end, so   *)
(* that what happens between the step, the job, the package and the        *)
(* mission can be followed for several packages at a time; the steps that  *)
(* follow a phase in other transactions (the package that mirrors the step *)
(* and the integration) are kept apart, for another coordinator, the       *)
(* operator or a crash may come in between.                                *)
(*                                                                         *)
(* A phase has an owner, in a column of the step, and a thread that renews *)
(* its lease and its repository lock until a heartbeat is refused.  For    *)
(* Engineering a paused or cancelled job is enough to refuse it.  No clock *)
(* is kept: a lease that nobody renews may have expired or not, whichever  *)
(* an action asks for; one that is renewed has not.                        *)
(***************************************************************************)
EXTENDS Integration

CONSTANTS
  Coordinators,   \* orchestrator processes
  Commands,       \* "integrate-package" processes of the command line
  Items,          \* unchecked items of the roadmap
  Handmade,       \* packages that were not made from the roadmap
  DependsOn,      \* work_packages.dependencies, an argument of create_work_package
  NoItem,         \* the roadmap reference of such a package
  NoOne,          \* a NULL worker
  MaxPackages,    \* MissionManager.max_packages
  MaxConcurrent,  \* max_concurrent_jobs_per_repository; 0 is "no limit"
  AutoIntegrate,  \* AUTO_INTEGRATE
  AgentTakesPackages, \* whether _code can hand a package to the EngineeringAgent
  Operations,     \* the operator operations on the job of a package
  Addressed,      \* bound: the packages whose jobs they are asked for
  MaxIncidents    \* bound: disturbing requests, crashes, failures, rejections

ASSUME MissionAssumption ==
  /\ Packages \subseteq Nat /\ Handmade \subseteq Packages
  /\ DependsOn \in [Packages -> SUBSET Packages]
  /\ \A p \in Packages : \A d \in DependsOn[p] : p \in Handmade /\ d < p
  /\ Integrators = Coordinators \cup Commands
  /\ Coordinators \cap Commands = {}
  /\ NoOne \notin Coordinators /\ NoItem \notin Items
  /\ MaxPackages \in Nat \ {0} /\ MaxConcurrent \in Nat
  /\ IsFiniteSet(Items) /\ Cardinality(Items) <= MaxPackages
  /\ AutoIntegrate \in BOOLEAN /\ AgentTakesPackages \in BOOLEAN
  /\ Operations \subseteq {"pause", "resume", "cancel", "remove", "planner_cli",
                          "retry", "recover", "rerun_verification",
                          "refresh_planning", "answer"}
  /\ Addressed \subseteq Packages
  /\ MaxIncidents \in Nat

VARIABLES
  item,               \* work_packages.roadmap_reference
  worker,             \* work_packages.worker_id
  tree,               \* packages whose step has a worktree of its own
  job, step,          \* jobs.status, steps.status
  owner,              \* who has the lease of the phase the step is in
  pc, task, site,     \* what a coordinator does, for which package, where
  beating,            \* coordinators whose heartbeat renews lease and lock
  seen, found,        \* what it read of the roadmap, of the mission
  incidents           \* how many of these there were

packageVars == <<item, worker, tree>>
stepVars    == <<job, step, owner>>
readVars    == <<seen, found>>
agentVars   == <<pc, task, site, beating>>
missionVars == <<packageVars, stepVars, agentVars, readVars, incidents>>
allVars     == <<vars, missionVars>>

-----------------------------------------------------------------------------

JobStates == {"pending", "running", "reviewing", "verifying", "checkpointing",
              "paused", "blocked", "needs_human", "cancelled"}
StepStates == {"absent", "queued", "running", "review", "changes_requested",
               "verification", "checkpoint", "complete", "blocked", "failed",
               "needs_human", "cancelled"}

PhasePcs == {"coding", "reviewing", "verifying", "checkpointing"}
TreePcs == PhasePcs \ {"reviewing"}
SyncPcs == {"sync_ready", "sync_verifying", "sync_blocked", "sync_complete"}
PackagePcs == PhasePcs \cup SyncPcs
              \cup {"admitting", "admitted", "refused", "salvaging",
                    "integrating", "merging"}
Pcs == PackagePcs \cup {"idle", "populating", "refreshing", "writing"}

\* Statuses are of the shared enumerations, owners are coordinators, and a
\* coordinator at work has a package.
TypeOK ==
  /\ IntegrationTypeOK
  /\ item \in [Packages -> Items \cup {NoItem}]
  /\ worker \in [Packages -> Coordinators \cup {NoOne}]
  /\ tree \in SUBSET Packages
  /\ job \in [Packages -> JobStates]
  /\ step \in [Packages -> StepStates]
  /\ owner \in [Packages -> Coordinators \cup {NoOne}]
  /\ pc \in [Integrators -> Pcs]
  /\ task \in [Integrators -> Packages \cup {NoPackage}]
  /\ site \in [Integrators -> Packages \cup {NoPackage}]
  /\ \A c \in Integrators : pc[c] \in PackagePcs => task[c] \in Packages
  /\ beating \in SUBSET Coordinators
  /\ \A c \in beating : pc[c] \in PhasePcs
  /\ seen \in [Coordinators -> SUBSET Items]
  /\ found \in [Integrators -> MissionStates]
  /\ incidents \in 0..MaxIncidents

MissionInit ==
  /\ Init
  /\ item = [p \in Packages |-> NoItem]
  /\ worker = [p \in Packages |-> NoOne]
  /\ tree = {}
  /\ job = [p \in Packages |-> "pending"]
  /\ step = [p \in Packages |-> "absent"]
  /\ owner = [p \in Packages |-> NoOne]
  /\ pc = [i \in Integrators |-> "idle"]
  /\ task = [i \in Integrators |-> NoPackage]
  /\ site = [i \in Integrators |-> NoPackage]
  /\ beating = {}
  /\ seen = [c \in Coordinators |-> {}]
  /\ found = [i \in Integrators |-> "active"]
  /\ incidents = 0

Incident ==
  /\ incidents < MaxIncidents
  /\ incidents' = incidents + 1

NoIncident == UNCHANGED incidents

Existing == {p \in Packages : pkg[p] # "absent"}

\* The working tree that the rows of p name: its worktree or, as long as it
\* has none, the repository of the mission.
TreeOf(p) == IF p \in tree THEN p ELSE NoPackage

\* A coordinator keeps to the tree it locked when the phase began; its heartbeat
\* begins and ends with the phase.
Goto(c, label, p) ==
  /\ pc' = [pc EXCEPT ![c] = label]
  /\ task' = [task EXCEPT ![c] = p]
  /\ beating' = IF label \in PhasePcs THEN beating \cup {c} ELSE beating \ {c}
  /\ site' = [site EXCEPT ![c] = IF label \in TreePcs THEN TreeOf(p) ELSE NoPackage]
Idle(c) == Goto(c, "idle", NoPackage)
At(c, label, p) == pc[c] = label /\ task[c] = p

Controlled(p) == job[p] \in {"paused", "cancelled"}
SetJob(p, status) == job' = [job EXCEPT ![p] = status]
HandOff(p, status) == IF Controlled(p) THEN UNCHANGED job ELSE SetJob(p, status)
SetStep(p, status) == step' = [step EXCEPT ![p] = status]
SetPackage(p, status) == pkg' = [pkg EXCEPT ![p] = status]

SetOwner(p, c) == owner' = [owner EXCEPT ![p] = c]

\* The lease of p's phase is kept alive by its owner.
Renewed(p) ==
  \E c \in beating : pc[c] \in PhasePcs /\ task[c] = p /\ owner[p] = c

\* _acquire_repository_lock, which knows repositories by their paths; a lock
\* that nobody renews may have expired.
TreeIsFree(p) ==
  \A c \in beating : pc[c] \in TreePcs => site[c] # TreeOf(p)

-----------------------------------------------------------------------------
(* The roadmap becomes packages, and packages become the mission's status. *)

\* create_work_package: a job, its only step and the package, in one
\* transaction; nothing makes a roadmap reference unique.
CreateWorkPackage(p, i) ==
  /\ pkg[p] = "absent"
  /\ \A q \in Packages : q < p => pkg[q] # "absent"
  /\ SetPackage(p, "ready")
  /\ item' = [item EXCEPT ![p] = i]
  /\ SetStep(p, "queued")
  /\ SetJob(p, "pending")
  /\ UNCHANGED <<evidence, missionStatus, integrationVars, worker, tree, owner,
                 incidents>>

\* create_work_package on somebody's behalf: "create-package" on the command line,
\* which names no dependencies, or a user of the store, who may.
OperatorCreatesPackage ==
  /\ \E p \in Handmade : CreateWorkPackage(p, NoItem)
  /\ UNCHANGED <<agentVars, readVars, incidents>>

Unfinished == {"ready", "engineering", "review", "verifying"}

\* ensure_packages is called for active missions with room for a package.
MayPopulate(c) ==
  /\ c \in Coordinators /\ pc[c] = "idle"
  /\ missionStatus = "active"
  /\ Cardinality({p \in Packages : pkg[p] \in Unfinished}) < MaxPackages

\* mission_detail: the roadmap references that packages have by now.
References == {item[p] : p \in Existing} \ {NoItem}

StartPopulating(c) ==
  /\ MayPopulate(c)
  /\ ~(Items \subseteq References)
  /\ seen' = [seen EXCEPT ![c] = References]
  /\ Goto(c, "populating", NoPackage)
  /\ UNCHANGED <<vars, packageVars, stepVars, found, incidents>>

CreateFromRoadmap(c) ==
  /\ pc[c] = "populating"
  /\ \E p \in Packages \ Handmade, i \in Items \ seen[c] :
       /\ CreateWorkPackage(p, i)
       /\ seen' = [seen EXCEPT ![c] = @ \cup {i}]
  /\ UNCHANGED <<agentVars, found>>

EndPopulating(c) ==
  /\ pc[c] = "populating"
  /\ Items \subseteq seen[c] \/ Packages \ Handmade \subseteq Existing
  /\ Goto(c, "refreshing", NoPackage)
  /\ seen' = [seen EXCEPT ![c] = {}]
  /\ UNCHANGED <<vars, packageVars, stepVars, found, incidents>>

\* Mutant: a complete package is taken for an integrated one.
EligibleUnmerged(p) == ReadyForIntegration(p)

\* package_completion_evidence()["eligible"] of a complete package.
Eligible(p) == ReadyForIntegration(p) /\ integration[p] = "complete"

\* The status that refresh_status computes from what it reads.
RefreshedStatus ==
  IF Existing # {} /\ \A p \in Existing : Eligible(p)
  THEN IF Items \subseteq {item[p] : p \in Existing} THEN "complete" ELSE "active"
  ELSE IF \E p \in Existing : pkg[p] = "blocked" THEN "blocked"
  ELSE IF missionStatus \in {"paused", "cancelled"} THEN missionStatus ELSE "active"

\* refresh_status, after packages were created or a package was integrated,
\* or when ensure_packages finds every item in a package.
ReadStatus(i) ==
  /\ \/ pc[i] = "refreshing"
     \/ MayPopulate(i) /\ Items \subseteq References /\ RefreshedStatus # missionStatus
  /\ IF RefreshedStatus = missionStatus
     THEN Idle(i) /\ UNCHANGED found
     ELSE /\ found' = [found EXCEPT ![i] = RefreshedStatus]
          /\ Goto(i, "writing", NoPackage)
  /\ UNCHANGED <<vars, packageVars, stepVars, seen, incidents>>

\* update_mission_status: the write is unconditional.
WriteStatus(i) ==
  /\ pc[i] = "writing"
  /\ missionStatus' = found[i]
  /\ found' = [found EXCEPT ![i] = "active"]
  /\ Idle(i)
  /\ UNCHANGED <<pkg, evidence, integrationVars, packageVars, stepVars, seen, incidents>>

Populate(c) == StartPopulating(c) \/ CreateFromRoadmap(c) \/ EndPopulating(c)

Refresh(i) == ReadStatus(i) \/ WriteStatus(i)

-----------------------------------------------------------------------------
(* Admission of a package.  The transaction of claim_work_package creates  *)
(* the package's worktree and so lasts; it holds the row of the package    *)
(* all the time, which other writers wait for, and has read the others'    *)
(* before.                                                                 *)

RowLocked(p) == \E c \in Coordinators : At(c, "admitting", p)

\* Mutant: the dependencies of a package are not looked at.
AnyOrder(p) == TRUE

DependenciesComplete(p) == \A d \in DependsOn[p] : pkg[d] = "complete"

StartAdmission(c, p) ==
  /\ pc[c] = "idle"
  /\ pkg[p] = "ready" /\ ~RowLocked(p)
  /\ missionStatus = "active"
  /\ \/ MaxConcurrent = 0
     \/ Cardinality({q \in Packages : pkg[q] \in Unfinished \ {"ready"}}) < MaxConcurrent
  /\ DependenciesComplete(p)
  /\ Goto(c, "admitting", p)
  /\ UNCHANGED <<vars, packageVars, stepVars, readVars, incidents>>

CommitAdmission(c, p) ==
  /\ At(c, "admitting", p)
  /\ SetPackage(p, "engineering")
  /\ worker' = [worker EXCEPT ![p] = c]
  /\ tree' = tree \cup {p}
  /\ IF job[p] = "pending" THEN SetJob(p, "running") ELSE UNCHANGED job
  /\ Goto(c, "admitted", p)
  /\ UNCHANGED <<evidence, missionStatus, integrationVars, item, step, owner,
                 readVars, incidents>>

\* The worktree cannot be created: the transaction is rolled back.
AdmissionFails(c, p) ==
  /\ At(c, "admitting", p)
  /\ Incident
  /\ Idle(c)
  /\ UNCHANGED <<vars, packageVars, stepVars, readVars>>

Runnable(p) ==
  /\ job[p] = "running"
  /\ step[p] \in {"queued", "changes_requested"}
  /\ ~Renewed(p)
  /\ TreeIsFree(p)

BeginPhase(c, p, label) == SetOwner(p, c) /\ Goto(c, label, p)

MayClaimAdmitted(c, p) == Runnable(p) /\ pkg[p] = "engineering" /\ worker[p] = c

\* claim_engineering_for_step, the second transaction of the claim.  It also
\* skips rows that somebody has locked, and the lock of a tree may be left by
\* a dead coordinator.
ClaimAdmittedStep(c, p) ==
  /\ At(c, "admitted", p)
  /\ \/ /\ MayClaimAdmitted(c, p)
        /\ SetStep(p, "running")
        /\ BeginPhase(c, p, "coding")
        /\ NoIncident
     \/ /\ Goto(c, "refused", p) /\ UNCHANGED <<step, owner>>
        /\ IF MayClaimAdmitted(c, p) THEN Incident ELSE NoIncident
  /\ UNCHANGED <<vars, packageVars, job, readVars>>

\* Mutant: the admission is returned without a look at its owner.
ReturnAnyAdmission(c, p) ==
  /\ At(c, "refused", p)
  /\ SetPackage(p, "ready")
  /\ worker' = [worker EXCEPT ![p] = NoOne]
  /\ Idle(c)
  /\ UNCHANGED <<evidence, missionStatus, integrationVars, item, tree, stepVars,
                 readVars, incidents>>

\* ... and the third one, which gives a refused admission back.
ReturnAdmission(c, p) ==
  /\ At(c, "refused", p) /\ ~RowLocked(p)
  /\ IF worker[p] = c
     THEN /\ SetPackage(p, "ready")
          /\ worker' = [worker EXCEPT ![p] = NoOne]
     ELSE UNCHANGED <<pkg, worker>>
  /\ Idle(c)
  /\ UNCHANGED <<evidence, missionStatus, integrationVars, item, tree, stepVars,
                 readVars, incidents>>

\* claim_engineering, which knows steps and jobs but no packages.
ClaimEngineering(c, p) ==
  /\ pc[c] = "idle"
  /\ Runnable(p)
  /\ SetStep(p, "running")
  /\ BeginPhase(c, p, "coding")
  /\ UNCHANGED <<vars, packageVars, job, readVars, incidents>>

Admit(c, p) ==
  \/ StartAdmission(c, p) \/ CommitAdmission(c, p) \/ AdmissionFails(c, p)
  \/ ClaimAdmittedStep(c, p) \/ ReturnAdmission(c, p) \/ ClaimEngineering(c, p)

-----------------------------------------------------------------------------
(* The phases of a package's step, and the package that mirrors it.        *)

EndPhase(c, p, label) ==
  /\ SetOwner(p, NoOne)
  /\ IF label = "idle" THEN Idle(c) ELSE Goto(c, label, p)

StepAt == [coding |-> "running", reviewing |-> "review",
           verifying |-> "verification", checkpointing |-> "checkpoint"]

\* The heartbeat of a phase finds its step with another owner or status.  In
\* Engineering the job must be running too, and the row of the package, where
\* the heartbeat was given one, must still be the engineer's.
HeartbeatRefused(c, p) ==
  \/ owner[p] # c \/ step[p] # StepAt[pc[c]]
  \/ /\ pc[c] = "coding"
     /\ \/ job[p] # "running"
        \/ worker[p] # c \/ pkg[p] \notin {"engineering", "verifying"}

\* A refused heartbeat is the last one: the thread ends and the phase goes on.
HeartbeatStops(c, p) ==
  /\ c \in beating /\ task[c] = p
  /\ HeartbeatRefused(c, p)
  /\ beating' = beating \ {c}
  /\ UNCHANGED <<vars, packageVars, stepVars, pc, task, site, readVars, incidents>>

\* update_step, fenced by the owner, and finish_engineering_handoff; the
\* package is not told.
EndEngineering(c, p) ==
  /\ AgentTakesPackages
  /\ At(c, "coding", p) /\ owner[p] = c
  /\ \/ SetStep(p, "review") /\ HandOff(p, "reviewing") /\ NoIncident
     \/ SetStep(p, "blocked") /\ HandOff(p, "blocked") /\ Incident
     \/ SetStep(p, "failed") /\ HandOff(p, "running") /\ Incident
     \/ Controlled(p) /\ SetStep(p, "queued") /\ UNCHANGED job /\ NoIncident
  /\ EndPhase(c, p, "idle")
  /\ UNCHANGED <<vars, packageVars, readVars>>

\* The agent raises: update_step does when the step has another owner by now,
\* and run_task does at once where it is handed something that is no task.
EngineeringCrashes(c, p) ==
  /\ At(c, "coding", p)
  /\ IF owner[p] = c /\ AgentTakesPackages THEN Incident ELSE NoIncident
  /\ Goto(c, "salvaging", p)
  /\ UNCHANGED <<vars, packageVars, stepVars, readVars>>

\* Then, or when recover_expired has returned the step, its tree is inspected
\* and the step requeued or blocked, whoever runs it meanwhile.
Salvage(c, p) ==
  /\ At(c, "salvaging", p)
  /\ IF step[p] = "running"
     THEN /\ \/ SetStep(p, "queued") /\ SetJob(p, "running")
             \/ SetStep(p, "blocked") /\ SetJob(p, "blocked")
          /\ SetOwner(p, NoOne)
     ELSE UNCHANGED stepVars
  /\ Idle(c)
  /\ UNCHANGED <<vars, packageVars, readVars, incidents>>

\* next_review_step and the Reviewer's claim.
ClaimReview(c, p) ==
  /\ pc[c] = "idle"
  /\ step[p] = "review" /\ job[p] \in {"running", "reviewing"} /\ ~Renewed(p)
  /\ SetJob(p, "reviewing")
  /\ BeginPhase(c, p, "reviewing")
  /\ UNCHANGED <<vars, packageVars, step, readVars, incidents>>

Accept(p, status, proof) ==
  /\ SetStep(p, status)
  /\ evidence' = [evidence EXCEPT ![p] = @ \cup {proof}]
  /\ NoIncident

Reject(p, status, proof) ==
  /\ SetStep(p, status)
  /\ evidence' = [evidence EXCEPT ![p] = @ \ {proof}]
  /\ Incident

\* The verdict, fenced by nothing, and finish_review_handoff.  Of its answers
\* _review mirrors "changes_requested" only: an approved step is in
\* "verification", which is not the word it looks for.  A review that raises
\* is abandoned.
EndReview(c, p) ==
  /\ At(c, "reviewing", p)
  /\ \/ /\ Accept(p, "verification", "approved")
        /\ HandOff(p, "verifying")
        /\ EndPhase(c, p, "idle")
     \/ /\ Reject(p, "changes_requested", "approved")
        /\ HandOff(p, "running")
        /\ EndPhase(c, p, "sync_ready")
     \/ /\ Reject(p, "needs_human", "approved")
        /\ SetJob(p, "needs_human")
        /\ EndPhase(c, p, "idle")
     \/ /\ Reject(p, "blocked", "approved")
        /\ HandOff(p, "blocked")
        /\ EndPhase(c, p, "idle")
     \/ /\ IF job[p] = "reviewing" THEN SetJob(p, "running") ELSE UNCHANGED job
        /\ EndPhase(c, p, "idle")
        /\ Incident /\ UNCHANGED <<step, evidence>>
  /\ UNCHANGED <<pkg, missionStatus, integrationVars, packageVars, readVars>>

ClaimVerification(c, p) ==
  /\ pc[c] = "idle"
  /\ step[p] = "verification" /\ job[p] \in {"verifying", "running"}
  /\ ~Renewed(p) /\ TreeIsFree(p)
  /\ SetJob(p, "verifying")
  /\ BeginPhase(c, p, "verifying")
  /\ UNCHANGED <<vars, packageVars, step, readVars, incidents>>

RecordVerification(c, p) ==
  /\ At(c, "verifying", p) /\ owner[p] = c
  /\ \/ /\ Accept(p, "checkpoint", "verified")
        /\ HandOff(p, "checkpointing")
        /\ EndPhase(c, p, "sync_verifying")
     \/ /\ Reject(p, "changes_requested", "verified")
        /\ HandOff(p, "running")
        /\ EndPhase(c, p, "sync_ready")
     \/ /\ Reject(p, "blocked", "verified")
        /\ HandOff(p, "blocked")
        /\ EndPhase(c, p, "sync_blocked")
  /\ UNCHANGED <<pkg, missionStatus, integrationVars, packageVars, readVars>>

ClaimCheckpoint(c, p) ==
  /\ pc[c] = "idle"
  /\ step[p] = "checkpoint" /\ job[p] \in {"checkpointing", "running"}
  /\ ~Renewed(p) /\ TreeIsFree(p)
  /\ SetJob(p, "checkpointing")
  /\ BeginPhase(c, p, "checkpointing")
  /\ UNCHANGED <<vars, packageVars, step, readVars, incidents>>

\* Mutant: a refused checkpoint is mirrored as a completed package.
RecordAnyCheckpoint(c, p) ==
  /\ At(c, "checkpointing", p) /\ owner[p] = c
  /\ \/ Accept(p, "complete", "committed")
     \/ Reject(p, "changes_requested", "committed")
  /\ HandOff(p, "running")
  /\ EndPhase(c, p, "sync_complete")
  /\ UNCHANGED <<pkg, missionStatus, integrationVars, packageVars, readVars>>

\* A refused checkpoint is not mirrored: the package stays as it is.
RecordCheckpoint(c, p) ==
  /\ At(c, "checkpointing", p) /\ owner[p] = c
  /\ \/ /\ Accept(p, "complete", "committed")
        /\ EndPhase(c, p, "sync_complete")
     \/ /\ Reject(p, "changes_requested", "committed")
        /\ EndPhase(c, p, "idle")
  /\ HandOff(p, "running")
  /\ UNCHANGED <<pkg, missionStatus, integrationVars, packageVars, readVars>>

\* record_verification and record_checkpoint raise for another owner.
LosePhase(c, p) ==
  /\ pc[c] \in {"verifying", "checkpointing"} /\ task[c] = p /\ owner[p] # c
  /\ Idle(c)
  /\ UNCHANGED <<vars, packageVars, stepVars, readVars, incidents>>

\* Mutant: the package is given the status word of its step.
DueOfStep == [sync_ready |-> "changes_requested", sync_verifying |-> "checkpoint",
              sync_blocked |-> "blocked", sync_complete |-> "complete"]

Due == [sync_ready |-> "ready", sync_verifying |-> "verifying",
        sync_blocked |-> "blocked", sync_complete |-> "complete"]

\* sync_package_for_step, which is fenced by nothing but a cancellation, and
\* the look at the job before an automatic integration.
SyncPackage(c, p) ==
  /\ pc[c] \in SyncPcs /\ task[c] = p /\ ~RowLocked(p)
  /\ IF pkg[p] # "cancelled"
     THEN SetPackage(p, Due[pc[c]])
     ELSE UNCHANGED pkg
  /\ IF pc[c] = "sync_complete" /\ AutoIntegrate /\ ~Controlled(p)
     THEN Goto(c, "integrating", p) ELSE Idle(c)
  /\ UNCHANGED <<evidence, missionStatus, integrationVars, item, worker, tree,
                 stepVars, readVars, incidents>>

CarryOut(c, p) ==
  \/ HeartbeatStops(c, p) \/ EndEngineering(c, p) \/ EngineeringCrashes(c, p)
  \/ Salvage(c, p) \/ ClaimReview(c, p) \/ EndReview(c, p)
  \/ ClaimVerification(c, p) \/ RecordVerification(c, p)
  \/ ClaimCheckpoint(c, p) \/ RecordCheckpoint(c, p) \/ LosePhase(c, p)
  \/ SyncPackage(c, p)

-----------------------------------------------------------------------------
(* Integration by a coordinator after a checkpoint, or by a command.       *)

MayBegin(i, p) == IF i \in Coordinators THEN At(i, "integrating", p) ELSE pc[i] = "idle"

RunIntegration(i) ==
  /\ \/ \E p \in Packages :
          /\ MayBegin(i, p) /\ BeginIntegration(i, p)
          /\ Goto(i, "merging", p) /\ UNCHANGED missionStatus /\ NoIncident
     \/ GitStep(i) /\ UNCHANGED <<agentVars, missionStatus>> /\ NoIncident
     \/ BlockMission(i) /\ Idle(i) /\ NoIncident
  /\ UNCHANGED <<pkg, evidence, packageVars, stepVars, readVars>>

\* A merge conflict, or any other error; update-ref refuses when the branch
\* has been moved.
IntegrationStops(i) ==
  /\ \/ MergeConflicts(i) /\ UNCHANGED agentVars /\ Incident
     \/ IntegrationFails(i) /\ Idle(i)
        /\ IF at[i] = "merged" /\ branch # base[i] THEN NoIncident ELSE Incident
  /\ UNCHANGED <<pkg, evidence, missionStatus, packageVars, stepVars, readVars>>

\* Mutant: a finished merge is taken for an integration.
CompleteUnmoved(i) ==
  /\ Working(i, "merged")
  /\ Upsert(merging[i], "complete")
  /\ Finish(i)
  /\ Goto(i, "refreshing", NoPackage)
  /\ UNCHANGED <<branch, pkg, evidence, missionStatus, packageVars, stepVars, readVars, incidents>>

\* A completed integration refreshes the status of the mission.
CompleteIntegration(i) ==
  /\ RecordIntegration(i)
  /\ Goto(i, "refreshing", NoPackage)
  /\ UNCHANGED <<pkg, evidence, missionStatus, packageVars, stepVars, readVars, incidents>>

\* The evidence that is required is missing.
IntegrationRefused(i) ==
  /\ pc[i] = "integrating" /\ ~ReadyForIntegration(task[i])
  /\ Idle(i)
  /\ UNCHANGED <<vars, packageVars, stepVars, readVars, incidents>>

IntegratePackage(i) ==
  RunIntegration(i) \/ IntegrationStops(i) \/ CompleteIntegration(i) \/ IntegrationRefused(i)

-----------------------------------------------------------------------------
(* The planner, recovery and reconciliation.                               *)

\* The planner retries a step that failed or gives its job up.  What it makes
\* of a job whose step is complete matters to nothing here.
PlanJob(p) ==
  /\ job[p] = "running" /\ step[p] \in {"failed", "blocked"}
  /\ \/ SetStep(p, "queued") /\ UNCHANGED job
     \/ SetJob(p, "blocked") /\ UNCHANGED step
  /\ UNCHANGED <<vars, packageVars, owner, agentVars, readVars, incidents>>

\* answer_human_request for a step that waits for a human.
AnswerHuman(p) ==
  /\ "needs_human" \in {job[p], step[p]}
  /\ IF job[p] = "needs_human" THEN SetJob(p, "running") ELSE UNCHANGED job
  /\ IF step[p] = "needs_human" THEN SetStep(p, "changes_requested") ELSE UNCHANGED step
  /\ UNCHANGED <<vars, packageVars, owner, agentVars, readVars, incidents>>

\* The package's lease was taken or is renewed by a coordinator at work.
Admitted(p) ==
  \E c \in Coordinators :
    worker[p] = c /\ task[c] = p /\ pc[c] \in {"admitted", "refused", "coding"}

ExpiredAdmission(p) ==
  /\ pkg[p] = "engineering" /\ ~Admitted(p)
  /\ step[p] \in {"queued", "changes_requested"}

ReturnPackage(p) == SetPackage(p, "ready") /\ worker' = [worker EXCEPT ![p] = NoOne]

\* recover_work_packages
RecoverPackage(p) ==
  /\ ExpiredAdmission(p)
  /\ ReturnPackage(p)
  /\ UNCHANGED <<evidence, missionStatus, integrationVars, item, tree, stepVars,
                 agentVars, readVars, incidents>>

InPhase(p) == step[p] \in {"running", "review", "verification", "checkpoint"}

\* The lease of p's phase may have run out.
ExpiredPhase(p) == InPhase(p) /\ owner[p] # NoOne /\ ~Renewed(p)

\* recover_expired, for every phase but Engineering ...
RecoverStep(p) ==
  /\ ExpiredPhase(p) /\ step[p] # "running" /\ ~Controlled(p)
  /\ SetOwner(p, NoOne)
  /\ UNCHANGED <<vars, packageVars, job, step, agentVars, readVars, incidents>>

\* ... and for an Engineering run, whose tree the coordinator inspects first.
DetectAbandoned(c, p) ==
  /\ pc[c] = "idle"
  /\ ExpiredPhase(p) /\ step[p] = "running" /\ ~Controlled(p)
  /\ Goto(c, "salvaging", p)
  /\ UNCHANGED <<vars, packageVars, stepVars, readVars, incidents>>

\* The steps whose phase holds a live lease: those renewed, and maybe some
\* whose lease nobody renews.
MayBeInFlight ==
  {live \in SUBSET {p \in Packages : owner[p] # NoOne /\ InPhase(p)} :
     \A p \in Packages : Renewed(p) => p \in live}

CancelSteps(S) ==
  /\ step' = [p \in Packages |-> IF p \in S THEN "cancelled" ELSE step[p]]
  /\ owner' = [p \in Packages |-> IF p \in S THEN NoOne ELSE owner[p]]

Cancellable(live) ==
  {p \in Existing : step[p] \notin {"complete", "cancelled"} /\ p \notin live}

\* Mutant: only steps that nobody began are finalized.
FinalizedQueued(live) ==
  {p \in Cancellable(live) : job[p] = "cancelled" /\ step[p] = "queued"}

Finalized(live) == {p \in Cancellable(live) : job[p] = "cancelled"}

\* reconcile_mission_controls
ReconcileMissionControls ==
  /\ missionStatus = "cancelled"
  /\ \E live \in MayBeInFlight : Finalized(live) # {} /\ CancelSteps(Finalized(live))
  /\ UNCHANGED <<vars, packageVars, job, agentVars, readVars, incidents>>

Recover ==
  \/ ReconcileMissionControls
  \/ \E p \in Packages :
       \/ PlanJob(p) \/ RecoverPackage(p) \/ RecoverStep(p)
       \/ \E c \in Coordinators : DetectAbandoned(c, p)

-----------------------------------------------------------------------------
(* The operator's requests: perform_mission_action.                        *)

AllowedMissionActions == [active |-> {"pause", "cancel"},
                          paused |-> {"pause", "resume", "cancel"},
                          blocked |-> {"resume", "cancel"},
                          complete |-> {}, cancelled |-> {"cancel"}]

Target == [pause |-> "paused", resume |-> "active", cancel |-> "cancelled"]

ReturnAdmissions ==
  LET returned == {p \in Packages : pkg[p] = "engineering"}
  IN /\ pkg' = [p \in Packages |-> IF p \in returned THEN "ready" ELSE pkg[p]]
     /\ worker' = [p \in Packages |-> IF p \in returned THEN NoOne ELSE worker[p]]

\* Mutant: admissions under way are left alone by a pause.
PauseJobs ==
  /\ job' = [p \in Packages |->
               IF p \in Existing /\ job[p] \notin {"paused", "blocked", "needs_human", "cancelled"}
               THEN "paused" ELSE job[p]]
  /\ UNCHANGED <<pkg, worker, step, owner>>

PauseMission ==
  /\ job' = [p \in Packages |->
               IF p \in Existing /\ job[p] \notin {"paused", "blocked", "needs_human", "cancelled"}
               THEN "paused" ELSE job[p]]
  /\ ReturnAdmissions
  /\ UNCHANGED <<step, owner>>

\* The steps that the mission's Resume puts back into the queue.
Requeued == {p \in Existing : job[p] = "blocked" /\ step[p] \in {"blocked", "failed"}}

ResumeMission ==
  LET returned == {p \in Requeued : pkg[p] = "blocked"}
  IN /\ job' = [p \in Packages |->
                  IF (p \in Existing /\ job[p] = "paused") \/ p \in Requeued
                  THEN "running" ELSE job[p]]
     /\ step' = [p \in Packages |-> IF p \in Requeued THEN "queued" ELSE step[p]]
     /\ owner' = [p \in Packages |-> IF p \in Requeued THEN NoOne ELSE owner[p]]
     /\ pkg' = [p \in Packages |-> IF p \in returned THEN "ready" ELSE pkg[p]]
     /\ worker' = [p \in Packages |-> IF p \in returned THEN NoOne ELSE worker[p]]

CancelMission ==
  LET stopped == {p \in Existing : pkg[p] \notin {"complete", "cancelled"}}
  IN /\ job' = [p \in Packages |->
                  IF p \in Existing THEN "cancelled" ELSE job[p]]
     /\ pkg' = [p \in Packages |-> IF p \in stopped THEN "cancelled" ELSE pkg[p]]
     /\ worker' = [p \in Packages |-> IF p \in stopped THEN NoOne ELSE worker[p]]
     /\ (\E live \in MayBeInFlight : CancelSteps(Cancellable(live)))

\* control_mission: one transaction, which waits for the rows it needs.  A
\* repeated pause or cancel writes everything but the mission again.
ControlMission ==
  /\ \A p \in Packages : ~RowLocked(p)
  /\ \E action \in AllowedMissionActions[missionStatus] :
       /\ missionStatus' = Target[action]
       /\ \/ action = "pause"  /\ PauseMission /\ Incident
          \/ action = "resume" /\ ResumeMission /\ NoIncident
          \/ action = "cancel" /\ CancelMission /\ NoIncident
  /\ UNCHANGED <<evidence, integrationVars, item, tree, agentVars, readVars>>

-----------------------------------------------------------------------------
(* The operator's requests for the job of one package.                     *)

LabelOnly(p, status) == SetJob(p, status) /\ UNCHANGED <<pkg, worker, step, owner>>

PauseJob(p) ==
  /\ job[p] \in {"pending", "running", "reviewing", "verifying", "checkpointing"}
  /\ LabelOnly(p, "paused")

Stopped(p) == step[p] \in {"blocked", "failed"}

RequeueStep(p) == SetStep(p, "queued") /\ SetOwner(p, NoOne)

\* The resume of a blocked job takes its step and its package along.
ResumeJob(p) ==
  \/ /\ job[p] = "paused" \/ (job[p] = "blocked" /\ ~Stopped(p))
     /\ LabelOnly(p, "running")
  \/ /\ job[p] = "blocked" /\ Stopped(p)
     /\ SetJob(p, "running") /\ RequeueStep(p)
     /\ IF pkg[p] = "blocked" THEN ReturnPackage(p) ELSE UNCHANGED <<pkg, worker>>

\* control("cancel") and remove_job stop everything that is not complete, a
\* phase at work included.
StopJob(p) ==
  /\ job[p] # "cancelled" /\ ~RowLocked(p)
  /\ SetJob(p, "cancelled")
  /\ IF step[p] # "complete"
     THEN SetStep(p, "cancelled") /\ SetOwner(p, NoOne)
     ELSE UNCHANGED <<step, owner>>
  /\ IF pkg[p] # "complete"
     THEN SetPackage(p, "cancelled") /\ worker' = [worker EXCEPT ![p] = NoOne]
     ELSE UNCHANGED <<pkg, worker>>

\* Mutant: every step that is not complete is put back into the queue.
RetryAnyStep(p) ==
  /\ SetJob(p, "running")
  /\ IF step[p] # "complete" THEN RequeueStep(p) ELSE UNCHANGED <<step, owner>>
  /\ UNCHANGED <<pkg, worker>>

\* retry_job asks for the status of the steps only.
RetryJob(p) ==
  /\ SetJob(p, "running")
  /\ IF Stopped(p) THEN RequeueStep(p) ELSE UNCHANGED <<step, owner>>
  /\ UNCHANGED <<pkg, worker>>

\* recover_job looks at the leases of the job whatever its status is.
RecoverJob(p) ==
  /\ \/ /\ ExpiredPhase(p) /\ step[p] # "running"
        /\ SetOwner(p, NoOne) /\ UNCHANGED <<pkg, worker>>
     \/ ExpiredAdmission(p) /\ ReturnPackage(p) /\ UNCHANGED owner
  /\ UNCHANGED <<job, step>>

\* rerun_verification: neither the status of the job nor of the package matters.
RerunVerification(p) ==
  /\ step[p] \in {"changes_requested", "checkpoint", "verification"} /\ ~RowLocked(p)
  /\ SetStep(p, "verification") /\ SetOwner(p, NoOne)
  /\ SetJob(p, "verifying")
  /\ SetPackage(p, "verifying") /\ worker' = [worker EXCEPT ![p] = NoOne]

RefreshPlanning(p) ==
  /\ ~InPhase(p) /\ step[p] \notin {"queued", "changes_requested"}
  /\ job[p] # "cancelled"
  /\ LabelOnly(p, "running")

Rejected(p) == step[p] = "changes_requested"

\* Requests that may disturb a package at work, and requests that put one back to
\* work which something else has stopped.
Disturb(p) ==
  \/ "pause" \in Operations /\ PauseJob(p)
  \/ Operations \cap {"cancel", "remove"} # {} /\ StopJob(p)
  \/ "retry" \in Operations /\ ~Stopped(p) /\ RetryJob(p)
  \/ "rerun_verification" \in Operations /\ ~Rejected(p) /\ RerunVerification(p)
  \/ "refresh_planning" \in Operations /\ RefreshPlanning(p)
  \/ "answer" \in Operations /\ LabelOnly(p, "running")
  \/ "planner_cli" \in Operations
     /\ \E status \in {"paused", "running", "cancelled"} : LabelOnly(p, status)

Restore(p) ==
  \/ "resume" \in Operations /\ ResumeJob(p)
  \/ "retry" \in Operations /\ Stopped(p) /\ RetryJob(p)
  \/ "rerun_verification" \in Operations /\ Rejected(p) /\ RerunVerification(p)
  \/ "recover" \in Operations /\ RecoverJob(p)

Operate(p) ==
  /\ p \in Existing \cap Addressed
  /\ \/ Disturb(p) /\ Incident
     \/ Restore(p) /\ NoIncident
  /\ UNCHANGED <<evidence, missionStatus, integrationVars, item, tree, agentVars,
                 readVars>>

-----------------------------------------------------------------------------
\* A transaction that was open is rolled back.
Crash(i) ==
  /\ pc[i] # "idle"
  /\ Incident
  /\ Idle(i)
  /\ IF at[i] = "idle" THEN UNCHANGED integrationVars ELSE IntegratorDies(i)
  /\ found' = [found EXCEPT ![i] = "active"]
  /\ seen' = [c \in Coordinators |-> IF c = i THEN {} ELSE seen[c]]
  /\ UNCHANGED <<pkg, evidence, missionStatus, packageVars, stepVars>>

-----------------------------------------------------------------------------

Coordinate(c) ==
  \/ Populate(c)
  \/ \E p \in Packages : Admit(c, p) \/ CarryOut(c, p)

MissionNext ==
  \/ OperatorCreatesPackage
  \/ \E c \in Coordinators : Coordinate(c)
  \/ \E i \in Integrators : IntegratePackage(i) \/ Refresh(i) \/ Crash(i)
  \/ Recover
  \/ \E p \in Packages : AnswerHuman(p) \/ Operate(p)
  \/ ControlMission

MissionSpec == MissionInit /\ [][MissionNext]_allVars

-----------------------------------------------------------------------------
(* Properties                                                              *)

\* A package is admitted only when every package it depends on is committed,
\* whoever completes, recovers or resumes packages at the same time.
DependenciesFirst ==
  \A p \in Packages : worker[p] # NoOne => \A d \in DependsOn[p] : step[d] = "complete"

\* The evidence that an operator cannot waive: rerun_verification takes even a
\* rejected candidate past its review.
Required ==
  IF "rerun_verification" \in Operations THEN Evidence \ {"approved"} ELSE Evidence

\* A complete package has a complete step whose commit was verified and, unless
\* an operator may run verifications again, reviewed, although the package is
\* told of its step by a coordinator that may come late, after a crash or after
\* another one.
CompletePackageIsProven ==
  \A p \in Packages :
    pkg[p] = "complete" => step[p] = "complete" /\ Required \subseteq evidence[p]

\* A paused mission has no package in Engineering: the pause also takes back
\* the admissions whose coordinator is about to claim the step.
PausedMissionAdmitsNothing ==
  missionStatus = "paused" => \A p \in Packages : pkg[p] # "engineering"

\* A mission is complete only when every item of its roadmap is in the
\* mission branch; reading the packages and writing the status are apart.
CompleteMissionIsMerged ==
  missionStatus = "complete" => \A i \in Items : \E p \in Merged : item[p] = i

\* A cancelled package stays cancelled, whatever late results, refused
\* admissions, recoveries, resumptions or requests for its job arrive
\* (store.py: "Cancellation is a durable stop, not just a job-label change").
\* The one request that takes it back is rerun_verification, which does not
\* look at the package.
CancelledPackageIsFinal ==
  [][\A p \in Packages :
       pkg[p] = "cancelled" => pkg'[p] = "cancelled" \/ RerunVerification(p)]_allVars

\* The operator cancels or removes the job of p, not the mission.
JobIsStopped(p) ==
  /\ job[p] # "cancelled" /\ job'[p] = "cancelled"
  /\ missionStatus' = missionStatus

\* A review, a verification or a checkpoint whose lease is kept alive is not
\* interrupted: not by the pause or the cancellation of its mission, nor by a
\* recovery, a planner, another coordinator or an engineer that comes late.
\* Only a request to stop this very job, or to verify its candidate again, takes
\* the step from it (control_mission: "A live bounded phase keeps its Step lease
\* long enough to persist any atomic result already underway").
BoundedPhaseIsLeftAlone ==
  [][\A c \in beating :
       LET p == task[c] IN
       /\ pc[c] \in PhasePcs \ {"coding"} /\ owner[p] = c
       /\ UNCHANGED <<pc[c], task[c]>>
       => \/ UNCHANGED <<step[p], owner[p]>>
          \/ JobIsStopped(p) \/ RerunVerification(p)]_allVars

\* Every pass of a coordinator reconciles.  Reviews, verifications and
\* checkpoints have timeouts; an Engineering phase may last, but ends at the next
\* turn boundary once its job is paused or cancelled.
Fairness ==
  /\ WF_allVars(ReconcileMissionControls)
  /\ \A c \in Coordinators :
       WF_allVars(\E p \in Packages :
         \/ Controlled(p) /\ EndEngineering(c, p)
         \/ EndReview(c, p) \/ RecordVerification(c, p) \/ RecordCheckpoint(c, p))

FairMissionSpec == MissionSpec /\ Fairness

StopIsDone ==
  \A p \in Packages :
    job[p] = "cancelled" => step[p] \in {"absent", "complete", "cancelled"}

\* The steps of a cancelled mission come to an end: what the cancellation had
\* to leave to a live phase is finalized once that phase is over or dead, and
\* at some time nothing is left of any of its packages.
CancelIsFinalized ==
  missionStatus = "cancelled" ~> (missionStatus # "cancelled" \/ StopIsDone)

\* The parts that integrate packages, together with everything around them,
\* implement Integration: what the rest of the system does is within what
\* Integration assumes of its environment.
ImplementsIntegration == IntegrationSpec
=============================================================================
