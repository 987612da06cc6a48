---------------------------- MODULE StepWorkflow ----------------------------
(***************************************************************************)
(* The job and step state machine that the coordinators of the agent team  *)
(* drive through PostgreSQL: planning, engineering, review, verification   *)
(* and checkpoint, with their leases, the repository lock, recovery and    *)
(* the operator's controls.                                                *)
(*                                                                         *)
(* One action is one database transaction, one read or write of the Git    *)
(* working tree, or one event of the environment (a lease running out, a   *)
(* crash).  A coordinator is one agent-orchestrator process: it runs one   *)
(* phase at a time, so its Engineering, Reviewer, Planner and Orchestrator *)
(* worker identities, which are stored in different columns, are all       *)
(* written as the coordinator.  The order in which once() looks for work   *)
(* and the ORDER BY ... LIMIT 1 of a statement are left open: any row that *)
(* its WHERE clause admits may be the one it takes.                        *)
(*                                                                         *)
(* A lease is "none" (NULL), "live" or "expired" (its time is before       *)
(* now()).  Retry counters and iteration wording are abstracted: an        *)
(* outcome that a counter forces is one of the outcomes a phase may have.  *)
(***************************************************************************)
EXTENDS Naturals, FiniteSets

CONSTANTS
  Jobs,            \* rows of the jobs table
  Steps,           \* identities the planner may give to new steps
  Repositories,    \* canonical repository paths
  Coordinators,    \* orchestrator processes, each with stable worker ids
  JobOf,           \* the job each step belongs to
  RepositoryOf,    \* the working tree each step is carried out in
  NoOne,           \* a NULL owner
  MaxIterations,   \* jobs.max_iterations
  MaxConcurrent,   \* max_concurrent_jobs_per_repository; 0 is "no limit"
  Operations,      \* the operator operations that may happen
  Crashes,         \* may a coordinator die between two transactions?
  Stalls           \* may a lease run out under a heartbeat that still runs?

Operators == {"pause", "resume", "cancel", "remove", "retry", "recover",
              "rerun_verification", "refresh_planning", "answer",
              "answer_request", "planner_cli"}

\* repository_locks: worker, phase and step.
Phases == {"engineering", "verify", "checkpoint"}
LockOwners == Coordinators \X Phases \X Steps

ASSUME ConstantsAssumption ==
  /\ IsFiniteSet(Steps)
  /\ JobOf \in [Steps -> Jobs]
  /\ RepositoryOf \in [Steps -> Repositories]
  /\ NoOne \notin Coordinators /\ NoOne \notin Steps /\ NoOne \notin Jobs
  /\ NoOne \notin LockOwners
  /\ MaxIterations \in Nat /\ MaxConcurrent \in Nat
  /\ Operations \subseteq Operators
  /\ Crashes \in BOOLEAN /\ Stalls \in BOOLEAN

VARIABLES
  jobStatus, planner, plannerLease, iterations,   \* jobs
  stepStatus, approval,                           \* steps: status, last verdict
  engineer, engineerLease,                        \* steps.worker_id, lease
  reviewer, reviewLease,                          \* steps.reviewer_*
  verifier, verifierLease,                        \* steps.orchestrator_*
  lockOwner, lockLease,                           \* repository_locks
  pc, task,                                       \* what a coordinator does
  beating,                                        \* its heartbeat thread runs
  dirty, commit, base,                            \* Git: tree, history, HEAD
  seals, fresh                                    \* history: what was checked

jobVars  == <<jobStatus, planner, plannerLease, iterations>>
engVars  == <<engineer, engineerLease>>
revVars  == <<reviewer, reviewLease>>
verVars  == <<verifier, verifierLease>>
ownVars  == <<engVars, revVars, verVars>>
stepVars == <<stepStatus, approval>>
lockVars == <<lockOwner, lockLease>>
gitVars  == <<dirty, commit, base>>
histVars == <<seals, fresh>>
vars == <<jobVars, stepVars, ownVars, lockVars, pc, task, beating, gitVars,
          histVars>>

-----------------------------------------------------------------------------
(* Types *)

Lease == {"none", "live", "expired"}

\* Of JobStatus and StepStatus; no statement makes a job 'failed', and a step
\* that the planner has not created yet is "absent".
JobStates == {"pending", "planning", "running", "reviewing", "verifying",
              "checkpointing", "paused", "blocked", "needs_human", "complete",
              "cancelled"}

StepStates == {"absent", "queued", "running", "review", "changes_requested",
               "verification", "checkpoint", "complete", "blocked", "failed",
               "needs_human", "cancelled"}

Seal == {"approved", "verified"}
NoCommit == {"none"}

EngineeringPcs == {"engineering", "inferring", "stopping"}
ReviewPcs      == {"collecting", "judging"}
VerifyPcs      == {"verifying", "testing"}
CheckpointPcs  == {"checkpointing", "committing", "committed", "refused"}
TreePcs        == EngineeringPcs \cup VerifyPcs \cup CheckpointPcs
PlanningPcs    == {"planning", "deciding", "deciding_complete"}
StepPcs == EngineeringPcs \cup ReviewPcs \cup VerifyPcs \cup CheckpointPcs
           \cup {"engineered", "crashed", "crash_requeueing",
                 "crash_blocking", "release_engineering", "recovering",
                 "requeueing", "blocking", "review_selected", "reviewed",
                 "release_verify", "completing", "release_checkpoint"}

\* Every row holds a status of the shared enumerations, an owner that exists
\* and a lease; every coordinator is at a point of its program.
TypeOK ==
  /\ jobStatus \in [Jobs -> JobStates]
  /\ planner \in [Jobs -> Coordinators \cup {NoOne}]
  /\ plannerLease \in [Jobs -> Lease]
  /\ iterations \in [Jobs -> Nat]
  /\ stepStatus \in [Steps -> StepStates]
  /\ approval \in [Steps -> BOOLEAN]
  /\ engineer \in [Steps -> Coordinators \cup {NoOne}]
  /\ reviewer \in [Steps -> Coordinators \cup {NoOne}]
  /\ verifier \in [Steps -> Coordinators \cup {NoOne}]
  /\ engineerLease \in [Steps -> Lease]
  /\ reviewLease \in [Steps -> Lease]
  /\ verifierLease \in [Steps -> Lease]
  /\ lockOwner \in [Repositories -> LockOwners \cup {NoOne}]
  /\ lockLease \in [Repositories -> Lease]
  /\ pc \in [Coordinators -> StepPcs \cup PlanningPcs \cup {"idle"}]
  /\ task \in [Coordinators -> Steps \cup Jobs \cup {NoOne}]
  /\ beating \in SUBSET Coordinators
  /\ dirty \in SUBSET Steps
  /\ commit \in [Steps -> (SUBSET Seal) \cup {NoCommit}]
  /\ base \in [Steps -> {"none", "head", "behind"}]
  /\ seals \in [Steps -> SUBSET Seal]
  /\ fresh \in SUBSET Coordinators

Init ==
  /\ jobStatus = [j \in Jobs |-> "pending"]
  /\ planner = [j \in Jobs |-> NoOne]
  /\ plannerLease = [j \in Jobs |-> "none"]
  /\ iterations = [j \in Jobs |-> 0]
  /\ stepStatus = [s \in Steps |-> "absent"]
  /\ approval = [s \in Steps |-> FALSE]
  /\ engineer = [s \in Steps |-> NoOne]
  /\ engineerLease = [s \in Steps |-> "none"]
  /\ reviewer = [s \in Steps |-> NoOne]
  /\ reviewLease = [s \in Steps |-> "none"]
  /\ verifier = [s \in Steps |-> NoOne]
  /\ verifierLease = [s \in Steps |-> "none"]
  /\ lockOwner = [r \in Repositories |-> NoOne]
  /\ lockLease = [r \in Repositories |-> "none"]
  /\ pc = [w \in Coordinators |-> "idle"]
  /\ task = [w \in Coordinators |-> NoOne]
  /\ beating = {}
  /\ dirty = {}
  /\ commit = [s \in Steps |-> NoCommit]
  /\ base = [s \in Steps |-> "none"]
  /\ seals = [s \in Steps |-> {}]
  /\ fresh = {}

-----------------------------------------------------------------------------
(* Vocabulary *)

StepsOf(j) == {s \in Steps : JobOf[s] = j /\ stepStatus[s] # "absent"}
SharingTree(s) == {t \in Steps : RepositoryOf[t] = RepositoryOf[s]}

\* "IS NULL OR < now()"
Lapsed(lease) == lease # "live"

\* Mutant: the planner does not see a step under revision.
ActiveButRevised == {"queued", "running", "review", "verification"}

\* The planner's idea of an active step leaves "checkpoint" out; the recovery
\* and refresh queries include it.
Active == {"queued", "running", "review", "changes_requested", "verification"}
HasActive(j, states) == \E s \in StepsOf(j) : stepStatus[s] \in states

Controlled(j) == jobStatus[j] \in {"paused", "cancelled"}
\* A hand-off changes the job's label unless an operator controls the job.
HandOff(j, status) ==
  jobStatus' = IF Controlled(j) THEN jobStatus
               ELSE [jobStatus EXCEPT ![j] = status]

Goto(w, label, t) ==
  /\ pc' = [pc EXCEPT ![w] = label]
  /\ task' = [task EXCEPT ![w] = t]
Idle(w) == Goto(w, "idle", NoOne)
\* Coordinator w, at label, working on step s.
At(w, label, s) == pc[w] = label /\ task[w] = s

\* Mutant: an unexpired lock of somebody else is taken over.
AcquireLockAnyway(r, owner) ==
  /\ lockOwner' = [lockOwner EXCEPT ![r] = owner]
  /\ lockLease' = [lockLease EXCEPT ![r] = "live"]

\* INSERT ... ON CONFLICT DO UPDATE WHERE the owner is the same or expired.
AcquireLock(r, owner) ==
  /\ lockOwner[r] \in {NoOne, owner} \/ lockLease[r] = "expired"
  /\ lockOwner' = [lockOwner EXCEPT ![r] = owner]
  /\ lockLease' = [lockLease EXCEPT ![r] = "live"]

ReleaseLock(w, phase, s) ==
  LET r == RepositoryOf[s] IN
  IF lockOwner[r] = <<w, phase, s>>
  THEN /\ lockOwner' = [lockOwner EXCEPT ![r] = NoOne]
       /\ lockLease' = [lockLease EXCEPT ![r] = "none"]
  ELSE UNCHANGED lockVars

StartHeartbeat(w) == beating' = beating \cup {w}
StopHeartbeat(w) == beating' = beating \ {w}

\* Mutant: the reviewer stays on the row when its lease is cleared.
ClearOwnersButReviewer(S) ==
  LET cleared(owner, none) == [s \in Steps |-> IF s \in S THEN none ELSE owner[s]] IN
  /\ engineer' = cleared(engineer, NoOne) /\ engineerLease' = cleared(engineerLease, "none")
  /\ reviewer' = reviewer /\ reviewLease' = cleared(reviewLease, "none")
  /\ verifier' = cleared(verifier, NoOne) /\ verifierLease' = cleared(verifierLease, "none")

\* UPDATE steps SET worker_id=NULL, ... for the steps of S: the three owners.
ClearOwners(S) ==
  LET cleared(owner, none) == [s \in Steps |-> IF s \in S THEN none ELSE owner[s]] IN
  /\ engineer' = cleared(engineer, NoOne) /\ engineerLease' = cleared(engineerLease, "none")
  /\ reviewer' = cleared(reviewer, NoOne) /\ reviewLease' = cleared(reviewLease, "none")
  /\ verifier' = cleared(verifier, NoOne) /\ verifierLease' = cleared(verifierLease, "none")

ClearPlanner(j) ==
  /\ planner' = [planner EXCEPT ![j] = NoOne]
  /\ plannerLease' = [plannerLease EXCEPT ![j] = "none"]

SetJob(j, status) == jobStatus' = [jobStatus EXCEPT ![j] = status]
SetStep(s, status) == stepStatus' = [stepStatus EXCEPT ![s] = status]
Tree(s) == RepositoryOf[s]
TreeClean(s) == dirty \cap SharingTree(s) = {}

-----------------------------------------------------------------------------
(* Planning.  The planner's lease is a column of the job; no thread renews  *)
(* it while the model is asked for a decision.                              *)

ClaimJob(w, j) ==
  /\ pc[w] = "idle"
  /\ jobStatus[j] \in {"pending", "planning", "running"}
  /\ iterations[j] < MaxIterations
  /\ Lapsed(plannerLease[j])
  /\ ~HasActive(j, Active)
  /\ SetJob(j, "planning")
  /\ planner' = [planner EXCEPT ![j] = w]
  /\ plannerLease' = [plannerLease EXCEPT ![j] = "live"]
  /\ Goto(w, "planning", j)
  /\ UNCHANGED <<iterations, stepVars, ownVars, lockVars, beating, gitVars, histVars>>

\* Mutant: approving verdicts alone support completion.
ApprovalSupports(j) ==
  StepsOf(j) # {} /\ \A s \in StepsOf(j) : approval[s]

\* Every step is complete with a commit and an approving last verdict.
CompletionSupported(j) ==
  /\ StepsOf(j) # {}
  /\ \A s \in StepsOf(j) :
       stepStatus[s] = "complete" /\ commit[s] # NoCommit /\ approval[s]

OwnsPlan(w, j) == planner[j] = w /\ jobStatus[j] = "planning"

\* The context the decision will be judged by is read once.
PlannerReads(w, j) ==
  /\ At(w, "planning", j)
  /\ Goto(w, IF CompletionSupported(j) THEN "deciding_complete" ELSE "deciding", j)
  /\ UNCHANGED <<jobVars, stepVars, ownVars, lockVars, beating, gitVars, histVars>>

\* The heartbeat before each attempt at a decision; its answer is ignored.
PlannerHeartbeat(w, j) ==
  /\ pc[w] \in {"deciding", "deciding_complete"} /\ task[w] = j
  /\ OwnsPlan(w, j)
  /\ plannerLease' = [plannerLease EXCEPT ![j] = "live"]
  /\ UNCHANGED <<jobStatus, planner, iterations, stepVars, ownVars, lockVars, pc,
                 task, beating, gitVars, histVars>>

\* Mutant: a package of steps is charged as one iteration.
ApplyDecisionForOne(w, j, status, spent) ==
  /\ pc[w] \in {"deciding", "deciding_complete"} /\ task[w] = j
  /\ planner[j] = w /\ jobStatus[j] = "planning"
  /\ SetJob(j, status)
  /\ iterations' = [iterations EXCEPT ![j] = @ + 1]
  /\ ClearPlanner(j)
  /\ Idle(w)
  /\ UNCHANGED <<approval, ownVars, lockVars, beating, gitVars, histVars>>

ApplyDecision(w, j, status, spent) ==
  /\ pc[w] \in {"deciding", "deciding_complete"} /\ task[w] = j
  /\ OwnsPlan(w, j)
  /\ SetJob(j, status)
  /\ iterations' = [iterations EXCEPT ![j] = @ + spent]
  /\ ClearPlanner(j)
  /\ Idle(w)
  /\ UNCHANGED <<approval, ownVars, lockVars, beating, gitVars, histVars>>

\* create_step and replace_step insert a package of steps.
PlannerCreatesSteps(w, j) ==
  \E package \in SUBSET {s \in Steps : JobOf[s] = j /\ stepStatus[s] = "absent"} :
    /\ Cardinality(package) \in 1..5
    /\ Cardinality(package) <= MaxIterations - iterations[j]
    /\ ~HasActive(j, Active)
    /\ stepStatus' = [s \in Steps |-> IF s \in package THEN "queued" ELSE stepStatus[s]]
    /\ ApplyDecision(w, j, "running", Cardinality(package))

PlannerRetriesStep(w, j) ==
  \E s \in StepsOf(j) :
    /\ stepStatus[s] \in {"failed", "blocked"}
    /\ SetStep(s, "queued")
    /\ ApplyDecision(w, j, "running", 1)

\* complete, blocked and wait_for_review only change the job.
PlannerSettles(w, j) ==
  \E status \in {"complete", "blocked", "reviewing"} :
    /\ status = "complete" => pc[w] = "deciding_complete"
    /\ ApplyDecision(w, j, status, 1)
    /\ UNCHANGED stepStatus

\* Mutant: a deferred job stays in planning.
PlannerDefersPlanning(w, j) ==
  /\ pc[w] \in PlanningPcs /\ task[w] = j
  /\ planner[j] = w
  /\ planner' = [planner EXCEPT ![j] = NoOne]
  /\ plannerLease' = [plannerLease EXCEPT ![j] = "live"]
  /\ Idle(w)
  /\ UNCHANGED <<jobStatus, iterations, stepVars, ownVars, lockVars, beating, gitVars,
                 histVars>>

\* An error, or no valid decision: the lease becomes the retry delay.
PlannerDefers(w, j) ==
  /\ pc[w] \in PlanningPcs /\ task[w] = j
  /\ planner[j] = w
  /\ SetJob(j, "running")
  /\ planner' = [planner EXCEPT ![j] = NoOne]
  /\ plannerLease' = [plannerLease EXCEPT ![j] = "live"]
  /\ Idle(w)
  /\ UNCHANGED <<iterations, stepVars, ownVars, lockVars, beating, gitVars, histVars>>

\* Neither the decision nor the deferral finds the lease: both raise.
PlannerLosesLease(w, j) ==
  /\ pc[w] \in PlanningPcs /\ task[w] = j
  /\ planner[j] # w
  /\ Idle(w)
  /\ UNCHANGED <<jobVars, stepVars, ownVars, lockVars, beating, gitVars, histVars>>

Planning(w, j) ==
  \/ ClaimJob(w, j) \/ PlannerReads(w, j) \/ PlannerHeartbeat(w, j)
  \/ PlannerCreatesSteps(w, j) \/ PlannerRetriesStep(w, j)
  \/ PlannerSettles(w, j) \/ PlannerDefers(w, j) \/ PlannerLosesLease(w, j)

-----------------------------------------------------------------------------
(* Engineering.  One turn is a look at the job and the lease, then a call   *)
(* to the model, then the action the model chose.                           *)

RunningIn(r) ==
  {s \in Steps : /\ RepositoryOf[s] = r
                 /\ stepStatus[s] = "running" /\ jobStatus[JobOf[s]] = "running"}

ClaimEngineering(w, s) ==
  /\ pc[w] = "idle"
  /\ jobStatus[JobOf[s]] = "running"
  /\ stepStatus[s] \in {"queued", "changes_requested"}
  /\ Lapsed(engineerLease[s])
  /\ MaxConcurrent = 0 \/ Cardinality(RunningIn(Tree(s))) < MaxConcurrent
  /\ AcquireLock(Tree(s), <<w, "engineering", s>>)
  /\ SetStep(s, "running")
  /\ engineer' = [engineer EXCEPT ![s] = w]
  /\ engineerLease' = [engineerLease EXCEPT ![s] = "live"]
  /\ Goto(w, "engineering", s)
  /\ StartHeartbeat(w)
  /\ UNCHANGED <<jobVars, approval, revVars, verVars, gitVars, histVars>>

\* Both heartbeats of an Engineering lease have this WHERE clause.
EngineeringLeaseHolds(w, s) ==
  engineer[s] = w /\ stepStatus[s] = "running" /\ jobStatus[JobOf[s]] = "running"

\* The top of a turn.  The session of the first turn records HEAD as the
\* starting commit; later attempts resume it.
EngineerTurns(w, s) ==
  /\ At(w, "engineering", s)
  /\ EngineeringLeaseHolds(w, s)
  /\ engineerLease' = [engineerLease EXCEPT ![s] = "live"]
  /\ base' = [base EXCEPT ![s] = IF @ = "none" THEN "head" ELSE @]
  /\ Goto(w, "inferring", s)
  /\ UNCHANGED <<jobVars, stepVars, engineer, revVars, verVars, lockVars, beating,
                 dirty, commit, histVars>>

\* The model's action leaves the tree alone (edited = {}), changes files of
\* its own, or changes files that other steps in the tree have changed too:
\* write and delete refuse what was changed before the session began, but not
\* what was changed since, and a command that is run refuses nothing.
EngineerActs(w, s) ==
  /\ At(w, "inferring", s)
  /\ \E edited \in {{}, {s}, SharingTree(s)} :
       /\ dirty' = IF edited = {} THEN dirty ELSE dirty \cup {s}
       /\ seals' = [t \in Steps |-> IF t \in edited THEN {} ELSE seals[t]]
       /\ fresh' = {v \in fresh : task[v] \notin edited}
  /\ Goto(w, "engineering", s)
  /\ UNCHANGED <<jobVars, stepVars, ownVars, lockVars, beating, commit, base>>

\* The operator's control is read at the top of a turn and acted on after.
EngineerSeesControl(w, s) ==
  /\ At(w, "engineering", s)
  /\ Controlled(JobOf[s])
  /\ Goto(w, "stopping", s)
  /\ UNCHANGED <<jobVars, stepVars, ownVars, lockVars, beating, gitVars, histVars>>

\* UPDATE steps SET status, lease_expires_at=NULL WHERE worker_id: the fence
\* is the worker alone, and the worker stays on the row.
UpdateStep(w, s, status) ==
  /\ engineer[s] = w
  /\ SetStep(s, status)
  /\ engineerLease' = [engineerLease EXCEPT ![s] = "none"]
  /\ Goto(w, "engineered", s)
  /\ StopHeartbeat(w)
  /\ UNCHANGED <<jobVars, approval, engineer, revVars, verVars, lockVars, gitVars,
                 histVars>>

EngineerEnds(w, s) ==
  \/ At(w, "stopping", s) /\ UpdateStep(w, s, "queued")
  \/ At(w, "inferring", s) /\ s \in dirty /\ UpdateStep(w, s, "review")
  \* a blocker, stagnation, or the turn budget; an exception, or the attempts
  \/ /\ pc[w] \in {"engineering", "inferring"} /\ task[w] = s
     /\ \E status \in {"blocked", "failed"} : UpdateStep(w, s, status)

\* The outcome and the failure that it turns into are both refused.
EngineerLosesLease(w, s) ==
  /\ pc[w] \in EngineeringPcs /\ task[w] = s
  /\ engineer[s] # w
  /\ Goto(w, "crashed", s)
  /\ StopHeartbeat(w)
  /\ UNCHANGED <<jobVars, stepVars, ownVars, lockVars, gitVars, histVars>>

FinishEngineeringHandoff(w, s) ==
  /\ At(w, "engineered", s)
  /\ CASE stepStatus[s] = "review"      -> HandOff(JobOf[s], "reviewing")
       [] stepStatus[s] = "blocked"     -> HandOff(JobOf[s], "blocked")
       [] stepStatus[s] = "needs_human" -> HandOff(JobOf[s], "needs_human")
       [] stepStatus[s] = "failed"      -> HandOff(JobOf[s], "running")
       [] OTHER                         -> UNCHANGED jobStatus
  /\ Goto(w, "release_engineering", s)
  /\ UNCHANGED <<planner, plannerLease, iterations, stepVars, ownVars, lockVars,
                 beating, gitVars, histVars>>

\* safely_requeue and block_abandoned: the step must be 'running', whoever
\* runs it, and the job is relabelled whatever it was.
Abandon(s, stepTo, jobTo) ==
  IF stepStatus[s] = "running"
  THEN /\ SetStep(s, stepTo)
       /\ SetJob(JobOf[s], jobTo)
       /\ engineer' = [engineer EXCEPT ![s] = NoOne]
       /\ engineerLease' = [engineerLease EXCEPT ![s] = "none"]
  ELSE UNCHANGED <<stepStatus, jobStatus, engVars>>

\* git status, by the crash handler of the run or by a recovery.
InspectTree(w, s) ==
  /\ \/ At(w, "crashed", s)
        /\ Goto(w, IF TreeClean(s) THEN "crash_requeueing" ELSE "crash_blocking", s)
     \/ At(w, "recovering", s)
        /\ Goto(w, IF TreeClean(s) THEN "requeueing" ELSE "blocking", s)
  /\ UNCHANGED <<jobVars, stepVars, ownVars, lockVars, beating, gitVars, histVars>>

AbandonEngineering(w, s) ==
  /\ \/ /\ pc[w] \in {"requeueing", "crash_requeueing"} /\ task[w] = s
        /\ Abandon(s, "queued", "running")
     \/ /\ pc[w] \in {"blocking", "crash_blocking"} /\ task[w] = s
        /\ Abandon(s, "blocked", "blocked")
  /\ IF pc[w] \in {"requeueing", "blocking"}
     THEN Idle(w) ELSE Goto(w, "release_engineering", s)
  /\ UNCHANGED <<planner, plannerLease, iterations, approval, revVars, verVars,
                 lockVars, beating, gitVars, histVars>>

\* The finally clause of each phase deletes the lock row the phase owns.
ReleasePhase(w, s) ==
  /\ \/ At(w, "release_engineering", s) /\ ReleaseLock(w, "engineering", s)
     \/ At(w, "release_verify", s) /\ ReleaseLock(w, "verify", s)
     \/ At(w, "release_checkpoint", s) /\ ReleaseLock(w, "checkpoint", s)
  /\ Idle(w)
  /\ UNCHANGED <<jobVars, stepVars, ownVars, beating, gitVars, histVars>>

Engineering(w, s) ==
  \/ ClaimEngineering(w, s) \/ EngineerTurns(w, s) \/ EngineerActs(w, s)
  \/ EngineerSeesControl(w, s) \/ EngineerEnds(w, s) \/ EngineerLosesLease(w, s)
  \/ FinishEngineeringHandoff(w, s) \/ InspectTree(w, s)
  \/ AbandonEngineering(w, s) \/ ReleasePhase(w, s)

-----------------------------------------------------------------------------
(* Review.  The reviewer reads the tree and takes no lock on it.            *)

NextReviewStep(w, s) ==
  /\ pc[w] = "idle"
  /\ stepStatus[s] = "review"
  /\ jobStatus[JobOf[s]] \in {"running", "reviewing"}
  /\ Lapsed(reviewLease[s])
  /\ SetJob(JobOf[s], "reviewing")
  /\ Goto(w, "review_selected", s)
  /\ UNCHANGED <<planner, plannerLease, iterations, stepVars, ownVars, lockVars,
                 beating, gitVars, histVars>>

\* Mutant: a step is claimed for review whatever its status and lease.
ReviewableByJob(s) == ~Controlled(JobOf[s])

Reviewable(s) ==
  stepStatus[s] = "review" /\ ~Controlled(JobOf[s]) /\ Lapsed(reviewLease[s])

ClaimReview(w, s) ==
  /\ At(w, "review_selected", s)
  /\ IF Reviewable(s)
     THEN /\ reviewer' = [reviewer EXCEPT ![s] = w]
          /\ reviewLease' = [reviewLease EXCEPT ![s] = "live"]
          /\ Goto(w, "collecting", s)
          /\ StartHeartbeat(w)
     ELSE /\ Goto(w, "reviewed", s)
          /\ UNCHANGED <<revVars, beating>>
  /\ UNCHANGED <<jobVars, stepVars, engVars, verVars, lockVars, gitVars, histVars>>

CollectEvidence(w, s) ==
  /\ At(w, "collecting", s)
  /\ fresh' = fresh \cup {w}
  /\ Goto(w, "judging", s)
  /\ UNCHANGED <<jobVars, stepVars, ownVars, lockVars, beating, gitVars, seals>>

VerdictOf == [verification |-> "approved", changes_requested |-> "changes_requested",
              needs_human |-> "needs_human", blocked |-> "blocked"]

\* The review row is this worker's and open, which nobody else can change;
\* the step is written whatever its status and its reviewer are by now.
ReviewCompletes(w, s) ==
  /\ At(w, "judging", s)
  /\ \E status \in DOMAIN VerdictOf :
       /\ SetStep(s, status)
       /\ approval' = [approval EXCEPT ![s] = (VerdictOf[status] = "approved")]
       /\ IF status = "needs_human" THEN SetJob(JobOf[s], "needs_human")
                                    ELSE UNCHANGED jobStatus
       /\ seals' = IF w \in fresh /\ status = "verification"
                   THEN [seals EXCEPT ![s] = @ \cup {"approved"}] ELSE seals
  /\ reviewer' = [reviewer EXCEPT ![s] = NoOne]
  /\ reviewLease' = [reviewLease EXCEPT ![s] = "none"]
  /\ Goto(w, "reviewed", s)
  /\ StopHeartbeat(w)
  /\ fresh' = fresh \ {w}
  /\ UNCHANGED <<planner, plannerLease, iterations, engVars, verVars, lockVars,
                 gitVars>>

\* abandon(): evidence or the model failed before a verdict.
ReviewFails(w, s) ==
  /\ pc[w] \in ReviewPcs /\ task[w] = s
  /\ IF reviewer[s] = w
     THEN /\ reviewer' = [reviewer EXCEPT ![s] = NoOne]
          /\ reviewLease' = [reviewLease EXCEPT ![s] = "live"]
     ELSE UNCHANGED revVars
  /\ IF jobStatus[JobOf[s]] = "reviewing" THEN SetJob(JobOf[s], "running")
                                          ELSE UNCHANGED jobStatus
  /\ Idle(w)
  /\ StopHeartbeat(w)
  /\ fresh' = fresh \ {w}
  /\ UNCHANGED <<planner, plannerLease, iterations, stepVars, engVars, verVars,
                 lockVars, gitVars, seals>>

FinishReviewHandoff(w, s) ==
  /\ At(w, "reviewed", s)
  /\ CASE stepStatus[s] = "verification"      -> HandOff(JobOf[s], "verifying")
       [] stepStatus[s] = "changes_requested" -> HandOff(JobOf[s], "running")
       [] stepStatus[s] = "blocked"           -> HandOff(JobOf[s], "blocked")
       [] stepStatus[s] = "needs_human"       -> HandOff(JobOf[s], "needs_human")
       [] OTHER                               -> UNCHANGED jobStatus
  /\ Idle(w)
  /\ UNCHANGED <<planner, plannerLease, iterations, stepVars, ownVars, lockVars,
                 beating, gitVars, histVars>>

Review(w, s) ==
  \/ NextReviewStep(w, s) \/ ClaimReview(w, s) \/ CollectEvidence(w, s)
  \/ ReviewCompletes(w, s) \/ ReviewFails(w, s) \/ FinishReviewHandoff(w, s)

-----------------------------------------------------------------------------
(* Verification and checkpoint: orchestrator lease and repository lock.     *)

ClaimOrchestration(w, s, stepIs, jobIn, jobTo, phase, label) ==
  /\ pc[w] = "idle"
  /\ stepStatus[s] = stepIs
  /\ jobStatus[JobOf[s]] \in jobIn
  /\ Lapsed(verifierLease[s])
  /\ AcquireLock(Tree(s), <<w, phase, s>>)
  /\ verifier' = [verifier EXCEPT ![s] = w]
  /\ verifierLease' = [verifierLease EXCEPT ![s] = "live"]
  /\ SetJob(JobOf[s], jobTo)
  /\ Goto(w, label, s)
  /\ StartHeartbeat(w)
  /\ UNCHANGED <<planner, plannerLease, iterations, stepVars, engVars, revVars,
                 gitVars, histVars>>

\* Mutant: a step that waits for its review is verified.
ClaimUnreviewed(w, s) ==
  ClaimOrchestration(w, s, "review", {"reviewing", "running"}, "verifying",
                     "verify", "verifying")

ClaimVerification(w, s) ==
  ClaimOrchestration(w, s, "verification", {"verifying", "running"}, "verifying",
                     "verify", "verifying")

\* Mutant: the job is labelled with the step's word for the phase.
ClaimCheckpointLabelled(w, s) ==
  ClaimOrchestration(w, s, "checkpoint", {"checkpointing", "running"},
                     "checkpoint", "checkpoint", "checkpointing")

\* Mutant: only a job already labelled 'running' is served.
ClaimCheckpointRunning(w, s) ==
  ClaimOrchestration(w, s, "checkpoint", {"running"}, "checkpointing", "checkpoint",
                     "checkpointing")

ClaimCheckpoint(w, s) ==
  ClaimOrchestration(w, s, "checkpoint", {"checkpointing", "running"},
                     "checkpointing", "checkpoint", "checkpointing")

StartTests(w, s) ==
  /\ At(w, "verifying", s)
  /\ fresh' = fresh \cup {w}
  /\ Goto(w, "testing", s)
  /\ UNCHANGED <<jobVars, stepVars, ownVars, lockVars, beating, gitVars, seals>>

\* What record_verification and record_checkpoint share: the fence is the
\* orchestrator's id on the row, and the row's lease is given up.
RecordPhase(w, s, stepTo, jobTo, label) ==
  /\ verifier[s] = w
  /\ SetStep(s, stepTo)
  /\ HandOff(JobOf[s], jobTo)
  /\ verifier' = [verifier EXCEPT ![s] = NoOne]
  /\ verifierLease' = [verifierLease EXCEPT ![s] = "none"]
  /\ Goto(w, label, s)
  /\ StopHeartbeat(w)
  /\ UNCHANGED <<planner, plannerLease, iterations, approval, engVars, revVars,
                 lockVars, gitVars>>

RecordVerification(w, s) ==
  /\ \/ /\ At(w, "testing", s)
        /\ \/ /\ RecordPhase(w, s, "checkpoint", "checkpointing", "release_verify")
              /\ seals' = IF w \in fresh THEN [seals EXCEPT ![s] = @ \cup {"verified"}]
                                         ELSE seals
           \/ /\ RecordPhase(w, s, "changes_requested", "running", "release_verify")
              /\ UNCHANGED seals
     \/ /\ pc[w] \in VerifyPcs /\ task[w] = s    \* a service error
        /\ RecordPhase(w, s, "blocked", "blocked", "release_verify")
        /\ UNCHANGED seals
  /\ fresh' = fresh \ {w}

\* Mutant: a checkpoint row is taken for a commit.
FindAnyCheckpoint(w, s) ==
  /\ At(w, "checkpointing", s)
  /\ Goto(w, "committed", s)
  /\ UNCHANGED <<jobVars, stepVars, ownVars, lockVars, beating, gitVars, histVars>>

\* The marker is looked for in the whole history before anything is done.
FindCheckpoint(w, s) ==
  /\ At(w, "checkpointing", s)
  /\ Goto(w, IF commit[s] = NoCommit THEN "committing" ELSE "committed", s)
  /\ UNCHANGED <<jobVars, stepVars, ownVars, lockVars, beating, gitVars, histVars>>

\* HEAD must still be the starting commit and the reviewed files changed.
\* The commit moves HEAD under every session that has started in the tree.
GitCommit(w, s) ==
  /\ At(w, "committing", s)
  /\ s \in dirty /\ base[s] = "head"
  /\ commit' = [commit EXCEPT ![s] = seals[s]]
  /\ dirty' = dirty \ {s}
  /\ base' = [t \in Steps |-> IF t \in SharingTree(s) /\ base[t] # "none"
                              THEN "behind" ELSE base[t]]
  /\ Goto(w, "committed", s)
  /\ UNCHANGED <<jobVars, stepVars, ownVars, lockVars, beating, histVars>>

\* Every other check (branch, index, secrets, whitespace, unreviewed files)
\* and AUTO_COMMIT itself may also refuse.
GitRefuses(w, s) ==
  /\ pc[w] \in {"checkpointing", "committing"} /\ task[w] = s
  /\ Goto(w, "refused", s)
  /\ UNCHANGED <<jobVars, stepVars, ownVars, lockVars, beating, gitVars, histVars>>

\* Mutant: a refused checkpoint completes the step.
RecordAnyCheckpoint(w, s) ==
  /\ pc[w] \in {"committed", "refused"} /\ task[w] = s
  /\ RecordPhase(w, s, "complete", "running", "completing")
  /\ UNCHANGED histVars

RecordCheckpoint(w, s) ==
  /\ \/ /\ At(w, "committed", s)
        /\ RecordPhase(w, s, "complete", "running", "completing")
     \/ /\ At(w, "refused", s)
        /\ RecordPhase(w, s, "changes_requested", "running", "release_checkpoint")
  /\ UNCHANGED histVars

\* The Engineering session is closed only now, in a transaction of its own.
CompleteSession(w, s) ==
  /\ At(w, "completing", s)
  /\ base' = [base EXCEPT ![s] = "none"]
  /\ Goto(w, "release_checkpoint", s)
  /\ UNCHANGED <<jobVars, stepVars, ownVars, lockVars, beating, dirty, commit, histVars>>

\* "lease is no longer owned": nothing is recorded.
RecordRefused(w, s) ==
  /\ task[w] = s
  /\ verifier[s] # w
  /\ \/ /\ pc[w] \in VerifyPcs
        /\ Goto(w, "release_verify", s)
     \/ /\ pc[w] \in {"committed", "refused"}
        /\ Goto(w, "release_checkpoint", s)
  /\ StopHeartbeat(w)
  /\ fresh' = fresh \ {w}
  /\ UNCHANGED <<jobVars, stepVars, ownVars, lockVars, gitVars, seals>>

Orchestration(w, s) ==
  \/ ClaimVerification(w, s) \/ StartTests(w, s) \/ RecordVerification(w, s)
  \/ ClaimCheckpoint(w, s) \/ FindCheckpoint(w, s) \/ GitCommit(w, s)
  \/ GitRefuses(w, s) \/ RecordCheckpoint(w, s) \/ CompleteSession(w, s)
  \/ RecordRefused(w, s)

-----------------------------------------------------------------------------
(* Recovery of expired leases, by any idle coordinator.                     *)

\* Mutant: engineering leases are never found stale.
StaleOrchestration(s) ==
  /\ jobStatus[JobOf[s]] \notin {"paused", "cancelled", "complete"}
  /\ \/ stepStatus[s] \in {"verification", "checkpoint"} /\ verifierLease[s] = "expired"
     \/ stepStatus[s] = "review" /\ reviewLease[s] = "expired"

Stale(s) ==
  /\ jobStatus[JobOf[s]] \notin {"paused", "cancelled", "complete"}
  /\ \/ stepStatus[s] = "running" /\ engineerLease[s] = "expired"
     \/ stepStatus[s] \in {"verification", "checkpoint"} /\ verifierLease[s] = "expired"
     \/ stepStatus[s] = "review" /\ reviewLease[s] = "expired"

\* Expired locks go, review and orchestrator leases of stale rows are cleared,
\* and the first stale row is handled: only a running one needs more work.
RecoverExpired(w) ==
  LET stale    == {s \in Steps : Stale(s)}
      lapsed   == {r \in Repositories : lockLease[r] = "expired"}
      released(states, owner, none) ==
        [s \in Steps |-> IF s \in stale /\ stepStatus[s] \in states THEN none ELSE owner[s]]
      orchestrated == {"verification", "checkpoint"} IN
  /\ pc[w] = "idle"
  /\ stale # {} \/ lapsed # {}
  /\ lockOwner' = [r \in Repositories |-> IF r \in lapsed THEN NoOne ELSE lockOwner[r]]
  /\ lockLease' = [r \in Repositories |-> IF r \in lapsed THEN "none" ELSE lockLease[r]]
  /\ reviewer' = released({"review"}, reviewer, NoOne)
  /\ reviewLease' = released({"review"}, reviewLease, "none")
  /\ verifier' = released(orchestrated, verifier, NoOne)
  /\ verifierLease' = released(orchestrated, verifierLease, "none")
  /\ \/ \E s \in stale : stepStatus[s] = "running" /\ Goto(w, "recovering", s)
     \/ /\ stale = {} \/ \E s \in stale : stepStatus[s] # "running"
        /\ UNCHANGED <<pc, task>>
  /\ UNCHANGED <<jobVars, stepVars, engVars, beating, gitVars, histVars>>

RecoverExpiredPlanning(w) ==
  LET stale == {j \in Jobs : /\ jobStatus[j] = "planning" /\ plannerLease[j] = "expired"
                             /\ ~HasActive(j, Active \cup {"checkpoint"})} IN
  /\ pc[w] = "idle"
  /\ stale # {}
  /\ jobStatus' = [j \in Jobs |-> IF j \in stale THEN "running" ELSE jobStatus[j]]
  /\ planner' = [j \in Jobs |-> IF j \in stale THEN NoOne ELSE planner[j]]
  /\ plannerLease' = [j \in Jobs |-> IF j \in stale THEN "none" ELSE plannerLease[j]]
  /\ UNCHANGED <<iterations, stepVars, ownVars, lockVars, pc, task, beating, gitVars,
                 histVars>>

EnforceIterationLimit(w, j) ==
  /\ pc[w] = "idle"
  /\ jobStatus[j] \in {"pending", "planning", "running"}
  /\ iterations[j] >= MaxIterations
  /\ ~HasActive(j, Active \cup {"checkpoint"})
  /\ SetJob(j, "blocked")
  /\ UNCHANGED <<planner, plannerLease, iterations, stepVars, ownVars, lockVars, pc,
                 task, beating, gitVars, histVars>>

Recovery(w) ==
  \/ RecoverExpired(w) \/ RecoverExpiredPlanning(w)
  \/ \E j \in Jobs : EnforceIterationLimit(w, j)

-----------------------------------------------------------------------------
(* The operator.  Every operation is one transaction.                       *)

Running == {"pending", "planning", "running", "reviewing", "verifying", "checkpointing"}

OperatorLeaves == UNCHANGED <<lockVars, pc, task, beating, gitVars, histVars>>

Pause(j) ==
  /\ jobStatus[j] \in Running
  /\ SetJob(j, "paused")
  /\ ClearPlanner(j)
  /\ UNCHANGED <<iterations, stepVars, ownVars>>

\* A blocked job's resume requeues one blocked or failed step.
Resume(j) ==
  LET stopped == {s \in StepsOf(j) : stepStatus[s] \in {"blocked", "failed"}} IN
  /\ jobStatus[j] \in {"paused", "blocked"}
  /\ SetJob(j, "running")
  /\ ClearPlanner(j)
  /\ IF jobStatus[j] = "blocked" /\ stopped # {}
     THEN \E s \in stopped : SetStep(s, "queued") /\ ClearOwners({s})
     ELSE UNCHANGED <<stepStatus, ownVars>>
  /\ UNCHANGED <<iterations, approval>>

\* Mutant: complete steps are cancelled too.
StopAll(j) ==
  /\ SetJob(j, "cancelled")
  /\ ClearPlanner(j)
  /\ stepStatus' = [s \in Steps |-> IF s \in StepsOf(j) THEN "cancelled" ELSE stepStatus[s]]
  /\ ClearOwners(StepsOf(j))
  /\ UNCHANGED <<iterations, approval>>

\* control(cancel) and remove_job stop the job and every unfinished step.
Stop(j) ==
  LET unfinished == {s \in StepsOf(j) : stepStatus[s] \notin {"complete", "cancelled"}} IN
  /\ SetJob(j, "cancelled")
  /\ ClearPlanner(j)
  /\ stepStatus' = [s \in Steps |-> IF s \in unfinished THEN "cancelled" ELSE stepStatus[s]]
  /\ ClearOwners(unfinished)
  /\ UNCHANGED <<iterations, approval>>

Cancel(j) == jobStatus[j] \notin {"complete", "cancelled"} /\ Stop(j)
Remove(j) == jobStatus[j] # "cancelled" /\ Stop(j)

\* The planner's command line sets the label with no guard.
PlannerCli(j) ==
  /\ \E status \in {"paused", "running", "cancelled"} : SetJob(j, status)
  /\ ClearPlanner(j)
  /\ UNCHANGED <<iterations, stepVars, ownVars>>

RetryJob(j) ==
  LET stopped == {s \in StepsOf(j) : stepStatus[s] \in {"blocked", "failed"}} IN
  /\ stepStatus' = [s \in Steps |-> IF s \in stopped THEN "queued" ELSE stepStatus[s]]
  /\ engineer' = [s \in Steps |-> IF s \in stopped THEN NoOne ELSE engineer[s]]
  /\ engineerLease' = [s \in Steps |-> IF s \in stopped THEN "none" ELSE engineerLease[s]]
  /\ SetJob(j, "running")
  /\ UNCHANGED <<planner, plannerLease, iterations, approval, revVars, verVars>>

RecoverJob(j) ==
  LET clears(s, states, lease) ==
        s \in StepsOf(j) /\ stepStatus[s] \in states /\ lease[s] = "expired"
      released(states, lease, owner, none) ==
        [s \in Steps |-> IF clears(s, states, lease) THEN none ELSE owner[s]]
      orchestrated == {"verification", "checkpoint"} IN
  /\ IF jobStatus[j] = "planning" /\ plannerLease[j] = "expired"
     THEN SetJob(j, "running") /\ ClearPlanner(j)
     ELSE UNCHANGED <<jobStatus, planner, plannerLease>>
  /\ reviewer' = released({"review"}, reviewLease, reviewer, NoOne)
  /\ reviewLease' = released({"review"}, reviewLease, reviewLease, "none")
  /\ verifier' = released(orchestrated, verifierLease, verifier, NoOne)
  /\ verifierLease' = released(orchestrated, verifierLease, verifierLease, "none")
  /\ UNCHANGED <<iterations, stepVars, engVars>>

RerunVerification(j) ==
  \E s \in StepsOf(j) :
    /\ stepStatus[s] \in {"changes_requested", "checkpoint", "verification"}
    /\ SetStep(s, "verification")
    /\ verifier' = [verifier EXCEPT ![s] = NoOne]
    /\ verifierLease' = [verifierLease EXCEPT ![s] = "none"]
    /\ SetJob(j, "verifying")
    /\ UNCHANGED <<planner, plannerLease, iterations, approval, engVars, revVars>>

RefreshPlanning(j) ==
  /\ ~HasActive(j, Active \cup {"checkpoint"})
  /\ jobStatus[j] \notin {"complete", "cancelled"}
  /\ SetJob(j, "running")
  /\ ClearPlanner(j)
  /\ UNCHANGED <<iterations, stepVars, ownVars>>

Answer(j) ==
  /\ SetJob(j, "running")
  /\ ClearPlanner(j)
  /\ UNCHANGED <<iterations, stepVars, ownVars>>

\* The answer to a review's question, while the step still waits for it.
AnswerRequest(j) ==
  \E s \in StepsOf(j) :
    /\ stepStatus[s] = "needs_human"
    /\ SetStep(s, "changes_requested")
    /\ IF jobStatus[j] = "needs_human" THEN SetJob(j, "running") /\ ClearPlanner(j)
                                       ELSE UNCHANGED <<jobStatus, planner, plannerLease>>
    /\ UNCHANGED <<iterations, approval, ownVars>>

Operate(j) ==
  /\ \/ "pause" \in Operations /\ Pause(j)
     \/ "resume" \in Operations /\ Resume(j)
     \/ "cancel" \in Operations /\ Cancel(j)
     \/ "remove" \in Operations /\ Remove(j)
     \/ "planner_cli" \in Operations /\ PlannerCli(j)
     \/ "retry" \in Operations /\ RetryJob(j)
     \/ "recover" \in Operations /\ RecoverJob(j)
     \/ "rerun_verification" \in Operations /\ RerunVerification(j)
     \/ "refresh_planning" \in Operations /\ RefreshPlanning(j)
     \/ "answer" \in Operations /\ Answer(j)
     \/ "answer_request" \in Operations /\ AnswerRequest(j)
  /\ OperatorLeaves

-----------------------------------------------------------------------------
(* Heartbeats, clocks and crashes.                                          *)

\* The phase whose lock and lease the heartbeat thread of w renews.
PhaseOf(w) == CASE pc[w] \in EngineeringPcs -> "engineering"
                [] pc[w] \in VerifyPcs      -> "verify"
                [] pc[w] \in ReviewPcs      -> "review"
                [] OTHER                    -> "checkpoint"

Renewed(lease, s, holds) == [lease EXCEPT ![s] = IF holds THEN "live" ELSE @]

\* A tick renews what is still owned; what is not makes the thread return,
\* and the work goes on without it.  The reviewer's thread has no lock.
Heartbeat(w) ==
  LET s     == task[w]
      phase == PhaseOf(w)
      r     == Tree(s)
      locked == lockOwner[r] = <<w, phase, s>>
      engHolds == phase = "engineering" /\ EngineeringLeaseHolds(w, s)
      revHolds == phase = "review" /\ reviewer[s] = w /\ stepStatus[s] = "review"
      verHolds == /\ phase \in {"verify", "checkpoint"} /\ verifier[s] = w
                  /\ stepStatus[s] \in {"verification", "checkpoint"} IN
  /\ w \in beating
  /\ lockLease' = Renewed(lockLease, r, locked)
  /\ engineerLease' = Renewed(engineerLease, s, engHolds)
  /\ reviewLease' = Renewed(reviewLease, s, revHolds)
  /\ verifierLease' = Renewed(verifierLease, s, verHolds)
  /\ IF (locked \/ phase = "review") /\ (engHolds \/ revHolds \/ verHolds)
     THEN UNCHANGED beating ELSE StopHeartbeat(w)
  /\ UNCHANGED <<jobVars, stepVars, engineer, reviewer, verifier, lockOwner, pc, task,
                 gitVars, histVars>>

\* The labels of a coordinator between the claim and the release of a phase.
PcsOf(phase) ==
  CASE phase = "engineering" -> EngineeringPcs \cup {"engineered", "crashed", "crash_requeueing",
                                                     "crash_blocking", "release_engineering"}
    [] phase = "review"      -> ReviewPcs
    [] phase = "verify"      -> VerifyPcs \cup {"release_verify"}
    [] phase = "checkpoint"  -> CheckpointPcs \cup {"completing", "release_checkpoint"}

\* Without stalls a lease does not run out under a heartbeat that still runs,
\* nor in the few transactions between the heartbeat's end and the release.
Attended(w, s, phase) ==
  /\ w \in Coordinators
  /\ task[w] = s /\ pc[w] \in PcsOf(phase)
  /\ w \in beating \/ pc[w] \notin TreePcs \cup ReviewPcs
MayLapse(lease, w, s, phase) == lease = "live" /\ (Stalls \/ ~Attended(w, s, phase))

ClockLeaves ==
  UNCHANGED <<jobStatus, planner, iterations, stepVars, engineer, reviewer, verifier,
              lockOwner, pc, task, beating, gitVars, histVars>>

PlannerLeaseLapses(j) ==
  /\ plannerLease[j] = "live"
  /\ plannerLease' = [plannerLease EXCEPT ![j] = "expired"]
  /\ UNCHANGED <<engineerLease, reviewLease, verifierLease, lockLease>> /\ ClockLeaves

EngineerLeaseLapses(s) ==
  /\ MayLapse(engineerLease[s], engineer[s], s, "engineering")
  /\ engineerLease' = [engineerLease EXCEPT ![s] = "expired"]
  /\ UNCHANGED <<plannerLease, reviewLease, verifierLease, lockLease>> /\ ClockLeaves

ReviewLeaseLapses(s) ==
  /\ MayLapse(reviewLease[s], reviewer[s], s, "review")
  /\ reviewLease' = [reviewLease EXCEPT ![s] = "expired"]
  /\ UNCHANGED <<plannerLease, engineerLease, verifierLease, lockLease>> /\ ClockLeaves

VerifierLeaseLapses(s) ==
  /\ \A phase \in {"verify", "checkpoint"} :
       MayLapse(verifierLease[s], verifier[s], s, phase)
  /\ verifierLease' = [verifierLease EXCEPT ![s] = "expired"]
  /\ UNCHANGED <<plannerLease, engineerLease, reviewLease, lockLease>> /\ ClockLeaves

LockLapses(r) ==
  /\ lockOwner[r] # NoOne
  /\ MayLapse(lockLease[r], lockOwner[r][1], lockOwner[r][3], lockOwner[r][2])
  /\ lockLease' = [lockLease EXCEPT ![r] = "expired"]
  /\ UNCHANGED <<plannerLease, engineerLease, reviewLease, verifierLease>> /\ ClockLeaves

Clock ==
  \/ \E j \in Jobs : PlannerLeaseLapses(j)
  \/ \E s \in Steps :
       EngineerLeaseLapses(s) \/ ReviewLeaseLapses(s) \/ VerifierLeaseLapses(s)
  \/ \E r \in Repositories : LockLapses(r)

\* The process dies; its rows, leases and working tree stay as they are.
Crash(w) ==
  /\ Crashes
  /\ pc[w] # "idle"
  /\ Idle(w)
  /\ StopHeartbeat(w)
  /\ fresh' = fresh \ {w}
  /\ UNCHANGED <<jobVars, stepVars, ownVars, lockVars, gitVars, seals>>

-----------------------------------------------------------------------------
(* The specification                                                        *)

Coordinate(w) ==
  \/ \E j \in Jobs : Planning(w, j)
  \/ \E s \in Steps : Engineering(w, s) \/ Review(w, s) \/ Orchestration(w, s)
  \/ Recovery(w)

Next ==
  \/ \E w \in Coordinators : Coordinate(w) \/ Heartbeat(w) \/ Crash(w)
  \/ \E j \in Jobs : Operate(j)
  \/ Clock

Spec == Init /\ [][Next]_vars

-----------------------------------------------------------------------------
(* Safety                                                                   *)

\* What a checkpoint puts into history is what the reviewer approved and the
\* verification tested: no edit and no requeue slips in between the reading
\* of the tree, the verdicts recorded for it and the git commit.  It holds
\* while one coordinator works on one step at a time in the tree.
CommitIsSealed ==
  \A s \in Steps : commit[s] \in {NoCommit, Seal}

\* record_checkpoint completes a step only when its commit exists.
CompleteIsCommitted ==
  \A s \in Steps : stepStatus[s] = "complete" => commit[s] # NoCommit

\* No change of a step that is recorded complete is left behind in the tree,
\* where the next step would find it.
CompleteIsClean ==
  \A s \in Steps : stepStatus[s] = "complete" => s \notin dirty

\* Whoever owns a row holds a lease on it that can run out, so that recovery
\* or the next claim can take the row from a dead coordinator; and no job is
\* in planning and no step running without such an owner or a retry delay.
OwnersAreLeased ==
  /\ \A j \in Jobs :
       /\ planner[j] # NoOne => plannerLease[j] # "none"
       /\ jobStatus[j] = "planning" => planner[j] # NoOne
  /\ \A s \in Steps :
       /\ stepStatus[s] = "running" => engineer[s] # NoOne /\ engineerLease[s] # "none"
       /\ reviewer[s] # NoOne => reviewLease[s] # "none"
       /\ verifier[s] # NoOne => verifierLease[s] # "none"
  /\ \A r \in Repositories : lockOwner[r] # NoOne => lockLease[r] # "none"

\* The planner completes a job only when every one of its steps is complete
\* with a commit and an approving verdict, although it judged that before it
\* asked the model and another planner may have taken the job since.
JobCompleteIsEarned ==
  \A j \in Jobs : jobStatus[j] = "complete" =>
    \A s \in StepsOf(j) : stepStatus[s] = "complete" /\ commit[s] # NoCommit /\ approval[s]

\* The repository lock serializes the phases that need it: no two
\* coordinators are engineering, verifying or committing in one tree.
OneInTree ==
  \A v, w \in Coordinators :
    (v # w /\ pc[v] \in TreePcs /\ pc[w] \in TreePcs) => Tree(task[v]) # Tree(task[w])

\* Every step is paid for from its job's iterations, whatever packages the
\* planner chooses and however often it is retried, and the ceiling holds.
BudgetIsKept ==
  \A j \in Jobs : Cardinality(StepsOf(j)) <= iterations[j] /\ iterations[j] <= MaxIterations

\* While a planner holds a job no step of the job is in the coordinators'
\* hands.
PlanningIsAlone ==
  \A j \in Jobs : jobStatus[j] = "planning" =>
    \A s \in StepsOf(j) :
      stepStatus[s] \in {"complete", "cancelled", "failed", "blocked", "needs_human"}

-----------------------------------------------------------------------------
(* Action properties                                                        *)

\* A complete step stays complete, also when the operator cancels, removes or
\* retries its job.
CompleteIsFinal ==
  [][\A s \in Steps : stepStatus[s] = "complete" => stepStatus'[s] = "complete"]_vars

\* Cancelling a job stops its steps for good: no late answer of a worker
\* brings a cancelled step back.
CancelIsDurable ==
  [][\A s \in Steps : stepStatus[s] = "cancelled" => stepStatus'[s] = "cancelled"]_vars

-----------------------------------------------------------------------------
(* The abstract specification that the workflow implements                  *)

\* The stage of a step, from its row and from history.
Stage ==
  [s \in Steps |->
     IF stepStatus[s] = "complete" THEN "complete"
     ELSE IF commit[s] # NoCommit THEN "committed"
     ELSE CASE stepStatus[s] = "absent"       -> "none"
            [] stepStatus[s] = "verification" -> "approved"
            [] stepStatus[s] = "checkpoint"   -> "verified"
            [] OTHER                          -> "open"]

DeliveryOf == INSTANCE Delivery WITH stage <- Stage

\* Every step is approved, then verified, then committed, then complete, in
\* that order, also when coordinators crash, lose leases and repeat phases.
StepsAreDelivered == DeliveryOf!Spec

-----------------------------------------------------------------------------
(* Fairness and liveness                                                    *)

\* Every coordinator keeps running its loop, a planner's attempts at a
\* decision are finitely many, time passes, and crashes come to an end.
PlannerEnds(w, j) ==
  \/ PlannerCreatesSteps(w, j) \/ PlannerRetriesStep(w, j) \/ PlannerSettles(w, j)
  \/ PlannerDefers(w, j) \/ PlannerLosesLease(w, j)

Fairness ==
  /\ \A w \in Coordinators : /\ WF_vars(Coordinate(w)) /\ WF_vars(Heartbeat(w))
                             /\ \A j \in Jobs : WF_vars(PlannerEnds(w, j))
  /\ \A j \in Jobs : WF_vars(PlannerLeaseLapses(j))
  /\ \A s \in Steps : /\ WF_vars(EngineerLeaseLapses(s)) /\ WF_vars(ReviewLeaseLapses(s))
                      /\ WF_vars(VerifierLeaseLapses(s))
  /\ \A r \in Repositories : WF_vars(LockLapses(r))

FairSpec == Spec /\ Fairness /\ <>[][\A w \in Coordinators : ~Crash(w)]_vars

Attending(s) ==
  \E w \in Coordinators :
    engineer[s] = w /\ task[w] = s /\ pc[w] \in PcsOf("engineering")
Abandoned(s) == stepStatus[s] = "running" /\ ~Attending(s)

\* A running step whose coordinator is gone is taken up again.
AbandonedIsRecovered == \A s \in Steps : Abandoned(s) ~> ~Abandoned(s)

\* A job does not stay in planning, whoever died while planning it.
PlanningEnds == \A j \in Jobs : jobStatus[j] = "planning" ~> jobStatus[j] # "planning"

\* A verified step does not wait for its checkpoint forever, however often
\* the coordinator that makes it dies.
CheckpointEnds ==
  \A s \in Steps : stepStatus[s] = "checkpoint" ~> stepStatus[s] # "checkpoint"

\* A step the reviewer or the verifier rejected is engineered again, or its
\* job stops.
RejectedIsRevised ==
  \A s \in Steps : stepStatus[s] = "changes_requested" ~>
    (stepStatus[s] # "changes_requested" \/ jobStatus[JobOf[s]] = "blocked")
=============================================================================
