-------------------------- MODULE Exclusion_proofs --------------------------
(***************************************************************************)
(* What StepWorkflow keeps exclusive as long as no lease runs out under a  *)
(* heartbeat that still runs (~Stalls): the working tree, the content that *)
(* was judged, and a job while it is planned.                              *)
(*                                                                         *)
(* A job has one label for all of its steps, so a step's hand-off relabels *)
(* its siblings' job.  The results below are about jobs whose planner adds *)
(* a step when the one before is complete; that is their temporal          *)
(* hypothesis []OneOpenPerJob.                                             *)
(***************************************************************************)
EXTENDS Delivery_proofs

Open(s) == stepStatus[s] \notin {"absent", "complete"}

\* A job works on one step at a time.
OneOpenPerJob ==
  \A s, t \in Steps : Open(s) /\ Open(t) /\ JobOf[s] = JobOf[t] => s = t

\* A working tree is used by one step at a time.
OneOpenPerTree ==
  \A s, t \in Steps : Open(s) /\ Open(t) /\ Tree(s) = Tree(t) => s = t

\* No operation relabels a job or moves a step while coordinators work on it,
\* and coordinators die only where no other one is there to take over.
Steady ==
  /\ ~Stalls
  /\ Crashes => \A v, w \in Coordinators : v = w
  /\ Operations \cap {"pause", "cancel", "remove", "planner_cli", "rerun_verification"} = {}

-----------------------------------------------------------------------------
(* One coordinator in a tree                                                *)

\* The heartbeat of w runs and its lock on the tree of its step is unexpired.
Locks(w, phase) ==
  /\ lockOwner[Tree(task[w])] = <<w, phase, task[w]>>
  /\ lockLease[Tree(task[w])] = "live"
  /\ w \in beating

\* Whoever is in a phase that needs the tree has its lock, and has the step in
\* the phase's status under an unexpired lease; an engineer has the label too
\* on which its heartbeat depends.
Holds(w) ==
  LET s == task[w] IN
  /\ pc[w] \in EngineeringPcs =>
       /\ Locks(w, "engineering")
       /\ engineer[s] = w /\ engineerLease[s] = "live"
       /\ stepStatus[s] = "running" /\ jobStatus[JobOf[s]] = "running"
  /\ pc[w] \in VerifyPcs =>
       /\ Locks(w, "verify")
       /\ verifier[s] = w /\ verifierLease[s] = "live" /\ stepStatus[s] = "verification"
  /\ pc[w] \in CheckpointPcs =>
       /\ Locks(w, "checkpoint")
       /\ verifier[s] = w /\ verifierLease[s] = "live" /\ stepStatus[s] = "checkpoint"

\* The labels of a coordinator that requeues or blocks an abandoned step.
AbandonPcs == {"crashed", "crash_requeueing", "crash_blocking", "recovering", "requeueing",
               "blocking"}

\* Where nobody dies a running step has its engineer, and nobody takes it for
\* abandoned.
Manned ==
  /\ \A s \in Steps : stepStatus[s] = "running" =>
       \E w \in Coordinators : task[w] = s /\ pc[w] \in EngineeringPcs
  /\ \A w \in Coordinators : pc[w] \notin AbandonPcs

HoldInv ==
  /\ \A w \in Coordinators : Holds(w)
  /\ ~Crashes => Manned

LEMMA EngineeringHolds ==
  ASSUME TypeOK, PhaseInv, HoldInv, OneOpenPerJob, Steady, NEW w \in Coordinators,
         NEW s \in Steps, Engineering(w, s)
  PROVE  HoldInv'
<1> USE ConstantsAssumption DEF ConstantsAssumption, TypeOK, PhaseInv, PhaseFits,
        AbandonPcs, Steady, Open, Tree, LockOwners, StepPcs, EngineeringPcs,
        ReviewPcs, VerifyPcs, CheckpointPcs, Goto, Idle,
        At, SetStep, stepVars, ownVars, engVars, revVars, verVars, lockVars, jobVars
<1>1. CASE ClaimEngineering(w, s)
  <2>1. /\ stepStatus[s] \in {"queued", "changes_requested"} /\ jobStatus[JobOf[s]] = "running"
        /\ stepStatus' = [stepStatus EXCEPT ![s] = "running"]
        /\ UNCHANGED <<verVars, jobStatus>> /\ beating' = beating \cup {w}
        /\ engineer' = [engineer EXCEPT ![s] = w]
        /\ engineerLease' = [engineerLease EXCEPT ![s] = "live"]
        /\ lockOwner' = [lockOwner EXCEPT ![Tree(s)] = <<w, "engineering", s>>]
        /\ lockLease' = [lockLease EXCEPT ![Tree(s)] = "live"]
    BY <1>1 DEF ClaimEngineering, StartHeartbeat, AcquireLock
  <2>2. pc'[w] = "engineering" /\ task'[w] = s
        /\ \A v \in Coordinators : v # w => pc'[v] = pc[v] /\ task'[v] = task[v]
    BY <1>1 DEF ClaimEngineering
  <2>3. Tree(s) \in Repositories /\ <<w, "engineering", s>> \in LockOwners
    BY DEF Phases
  <2>4. lockLease[Tree(s)] = "live" => lockOwner[Tree(s)] \in {NoOne, <<w, "engineering", s>>}
    BY <1>1 DEF ClaimEngineering, AcquireLock
  <2>5. ASSUME NEW v \in Coordinators, v # w, pc'[v] \in TreePcs PROVE Holds(v)'
    <3>1. Holds(v) /\ pc[v] \in TreePcs /\ task[v] \in Steps /\ task'[v] = task[v]
      BY <2>2, <2>5 DEF TreePcs, HoldInv
    <3>2. PICK phase \in Phases : Locks(v, phase)
      BY <3>1 DEF TreePcs, Phases, Holds
    <3>3. <<v, phase, task[v]>> \in LockOwners
      BY <3>1
    <3>4. <<v, phase, task[v]>> # <<w, "engineering", s>> /\ <<v, phase, task[v]>> # NoOne
      BY <2>5, <3>3
    <3>5. Tree(task[v]) # Tree(s)
      BY <2>4, <3>2, <3>4 DEF Locks
    <3>6. task[v] # s /\ Tree(task[v]) \in Repositories
      BY <3>1, <3>5
    <3>7. /\ lockOwner'[Tree(task[v])] = lockOwner[Tree(task[v])]
          /\ lockLease'[Tree(task[v])] = lockLease[Tree(task[v])]
      BY <2>1, <2>3, <3>5, <3>6
    <3>8. \A p \in Phases : Locks(v, p) => Locks(v, p)'
      BY <2>1, <3>1, <3>7 DEF Locks
    <3>9. /\ stepStatus'[task[v]] = stepStatus[task[v]] /\ pc'[v] = pc[v]
          /\ engineer'[task[v]] = engineer[task[v]]
          /\ engineerLease'[task[v]] = engineerLease[task[v]]
      BY <2>1, <2>2, <2>5, <3>1, <3>6
    <3> QED BY <2>1, <3>1, <3>8, <3>9 DEF Holds, Phases
  <2>6. Holds(w)'
    BY <2>1, <2>2, <2>3 DEF Holds, Locks
  <2>7. \A v \in Coordinators : pc'[v] \notin TreePcs => Holds(v)'
    BY DEF Holds, TreePcs
  <2>8. ~Crashes => Manned'
    <3>1. ASSUME ~Crashes, NEW t \in Steps, stepStatus'[t] = "running"
          PROVE  \E v \in Coordinators : task'[v] = t /\ pc'[v] \in EngineeringPcs
      BY <1>1, <2>1, <2>2, <3>1 DEF ClaimEngineering, HoldInv, Manned
    <3>2. ASSUME ~Crashes PROVE \A v \in Coordinators : pc'[v] \notin AbandonPcs
      BY <2>2, <3>2 DEF HoldInv, Manned
    <3> QED BY <3>1, <3>2 DEF Manned
  <2> QED BY <2>5, <2>6, <2>7, <2>8 DEF HoldInv
<1>2. CASE EngineerTurns(w, s)
  BY <1>2 DEF EngineerTurns, HoldInv, Holds, Locks, Manned
<1>3. CASE EngineerActs(w, s)
  BY <1>3 DEF EngineerActs, HoldInv, Holds, Locks, Manned
<1>4. CASE EngineerSeesControl(w, s)
  BY <1>4 DEF EngineerSeesControl, HoldInv, Holds, Locks, Manned
<1>5. CASE EngineerEnds(w, s)
  <2>1. PICK status \in {"queued", "review", "blocked", "failed"} : UpdateStep(w, s, status)
    BY <1>5 DEF EngineerEnds
  <2>2. /\ stepStatus' = [stepStatus EXCEPT ![s] = status]
        /\ UNCHANGED <<verVars, jobStatus, engineer, lockVars>> /\ beating' = beating \ {w}
        /\ engineerLease' = [engineerLease EXCEPT ![s] = "none"]
    BY <2>1 DEF UpdateStep, StopHeartbeat
  <2>3. /\ pc'[w] = "engineered" /\ task'[w] = s
        /\ pc[w] \in EngineeringPcs /\ task[w] = s
        /\ \A v \in Coordinators : v # w => pc'[v] = pc[v] /\ task'[v] = task[v]
    BY <1>5, <2>1 DEF EngineerEnds, UpdateStep
  <2>4. ASSUME NEW v \in Coordinators PROVE Holds(v)'
    <3>1. CASE v = w
      BY <2>3, <3>1 DEF Holds
    <3>2. CASE v # w /\ task[v] = s
      <4>1. Holds(v) /\ Holds(w)
        BY DEF HoldInv
      <4>2. pc[v] \notin EngineeringPcs /\ pc[v] \notin VerifyPcs /\ pc[v] \notin CheckpointPcs
        BY <2>3, <3>2, <4>1 DEF Holds
      <4> QED BY <2>3, <3>2, <4>2 DEF Holds
    <3>3. CASE v # w /\ task[v] # s
      BY <2>2, <2>3, <3>3 DEF HoldInv, Holds, Locks
    <3> QED BY <3>1, <3>2, <3>3
  <2>5. ASSUME ~Crashes PROVE Manned'
    <3>1. Manned
      BY <2>5 DEF HoldInv
    <3>2. ASSUME NEW t \in Steps, stepStatus'[t] = "running"
          PROVE  \E v \in Coordinators : task'[v] = t /\ pc'[v] \in EngineeringPcs
      <4>1. stepStatus[t] = "running" /\ t # s
        BY <2>2, <3>2
      <4>2. PICK v \in Coordinators : task[v] = t /\ pc[v] \in EngineeringPcs
        BY <3>1, <4>1 DEF Manned
      <4>3. v # w
        BY <2>3, <4>1, <4>2
      <4> QED BY <2>3, <4>2, <4>3
    <3>3. \A v \in Coordinators : pc'[v] \notin AbandonPcs
      BY <2>3, <3>1 DEF Manned
    <3> QED BY <3>2, <3>3 DEF Manned
  <2> QED BY <2>4, <2>5 DEF HoldInv
<1>6. CASE EngineerLosesLease(w, s)
  BY <1>6 DEF EngineerLosesLease, HoldInv, Holds
<1>7. CASE FinishEngineeringHandoff(w, s)
  <2>1. /\ UNCHANGED <<stepVars, ownVars, lockVars, beating>>
        /\ pc'[w] = "release_engineering" /\ task'[w] = s /\ At(w, "engineered", s)
        /\ \A v \in Coordinators : v # w => pc'[v] = pc[v] /\ task'[v] = task[v]
    BY <1>7 DEF FinishEngineeringHandoff
  <2>2. jobStatus' = jobStatus \/ (Open(s) /\ stepStatus[s] # "running"
          /\ \A j \in Jobs : j # JobOf[s] => jobStatus'[j] = jobStatus[j])
    BY <1>7 DEF FinishEngineeringHandoff, HandOff
  <2>3. ASSUME NEW v \in Coordinators, v # w, pc[v] \in EngineeringPcs
        PROVE  jobStatus'[JobOf[task[v]]] = jobStatus[JobOf[task[v]]]
    <3>1. task[v] \in Steps /\ stepStatus[task[v]] = "running"
      BY <2>3 DEF HoldInv, Holds
    <3>2. Open(s) /\ stepStatus[s] # "running" => JobOf[task[v]] # JobOf[s]
      BY <3>1 DEF OneOpenPerJob
    <3> QED BY <2>2, <3>1, <3>2
  <2>4. \A v \in Coordinators : v # w => Holds(v)'
    BY <2>1, <2>3 DEF HoldInv, Holds, Locks
  <2>5. Holds(w)'
    BY <2>1 DEF Holds
  <2>6. ~Crashes => Manned'
    BY <2>1 DEF HoldInv, Manned
  <2> QED BY <2>4, <2>5, <2>6 DEF HoldInv
<1>8. CASE InspectTree(w, s)
  BY <1>8 DEF InspectTree, HoldInv, Holds, Locks, Manned
<1>9. CASE AbandonEngineering(w, s)
  BY <1>9 DEF AbandonEngineering, Abandon, SetJob, HoldInv, Holds, Locks, Manned
<1>10. CASE ReleasePhase(w, s)
  <2>1. /\ UNCHANGED <<jobVars, stepVars, ownVars, beating>> /\ pc[w] \notin TreePcs
        /\ pc' = [pc EXCEPT ![w] = "idle"] /\ task' = [task EXCEPT ![w] = NoOne]
    BY <1>10 DEF ReleasePhase, TreePcs
  <2>2. \A r \in Repositories, v \in Coordinators, p \in Phases, t \in Steps :
          v # w /\ lockOwner[r] = <<v, p, t>> =>
            lockOwner'[r] = lockOwner[r] /\ lockLease'[r] = lockLease[r]
    BY <1>10 DEF ReleasePhase, ReleaseLock
  <2>3. ASSUME NEW v \in Coordinators, v # w PROVE Holds(v)'
    <3>1. pc'[v] = pc[v] /\ task'[v] = task[v]
      BY <2>1, <2>3
    <3>2. Holds(v) /\ (pc[v] \in TreePcs => Tree(task[v]) \in Repositories /\ task[v] \in Steps)
      BY DEF HoldInv, TreePcs
    <3>3. ASSUME NEW p \in Phases, Tree(task[v]) \in Repositories, task[v] \in Steps,
                 Locks(v, p)
          PROVE  Locks(v, p)'
      <4>1. lockOwner[Tree(task[v])] = <<v, p, task[v]>>
        BY <3>3 DEF Locks
      <4>2. /\ lockOwner'[Tree(task[v])] = lockOwner[Tree(task[v])]
            /\ lockLease'[Tree(task[v])] = lockLease[Tree(task[v])]
        BY <2>2, <2>3, <3>3, <4>1
      <4> QED BY <2>1, <3>1, <3>3, <4>2 DEF Locks
    <3> QED BY <2>1, <3>1, <3>2, <3>3 DEF Holds, Phases, TreePcs
  <2>4. Holds(w)'
    BY <2>1 DEF Holds
  <2>5. ~Crashes => Manned'
    BY <2>1 DEF HoldInv, Manned, TreePcs
  <2> QED BY <2>3, <2>4, <2>5 DEF HoldInv
<1> QED BY <1>1, <1>2, <1>3, <1>4, <1>5, <1>6, <1>7, <1>8, <1>9, <1>10 DEF Engineering

\* A step of w outside the tree that leaves every row and label alone on which
\* a coordinator in the tree depends.
Elsewhere(w) ==
  /\ UNCHANGED <<engVars, verVars, lockVars>>
  /\ pc[w] \notin TreePcs /\ pc'[w] \notin TreePcs \cup AbandonPcs
  /\ \A v \in Coordinators : v # w =>
       pc'[v] = pc[v] /\ task'[v] = task[v] /\ (v \in beating => v \in beating')
  /\ \A t \in Steps :
       /\ stepStatus[t] \in {"running", "verification", "checkpoint"} =>
            stepStatus'[t] = stepStatus[t]
       /\ stepStatus'[t] = "running" => stepStatus[t] = "running"
       /\ stepStatus[t] = "running" /\ jobStatus[JobOf[t]] = "running" =>
            jobStatus'[JobOf[t]] = "running"

LEMMA ElsewhereHolds ==
  ASSUME TypeOK, PhaseInv, HoldInv, NEW w \in Coordinators, Elsewhere(w)
  PROVE  HoldInv'
<1>1. ASSUME NEW v \in Coordinators PROVE Holds(v)'
  <2>1. CASE v = w
    BY <2>1 DEF Elsewhere, Holds, TreePcs
  <2>2. CASE v # w
    <3>0. UNCHANGED <<engineer, engineerLease, verifier, verifierLease, lockOwner, lockLease>>
      BY DEF Elsewhere, engVars, verVars, lockVars
    <3>1. pc'[v] = pc[v] /\ task'[v] = task[v] /\ (v \in beating => v \in beating')
      BY <2>2 DEF Elsewhere
    <3>2. Holds(v) /\ (pc[v] \in TreePcs => task[v] \in Steps)
      BY DEF HoldInv, PhaseInv, StepPcs, TreePcs
    <3> QED BY <3>0, <3>1, <3>2 DEF Elsewhere, Holds, Locks, TreePcs
  <2> QED BY <2>1, <2>2
<1>2. ASSUME ~Crashes PROVE Manned'
  <2>1. Manned
    BY <1>2 DEF HoldInv
  <2>2. ASSUME NEW t \in Steps, stepStatus'[t] = "running"
        PROVE  \E v \in Coordinators : task'[v] = t /\ pc'[v] \in EngineeringPcs
    <3>1. PICK v \in Coordinators : task[v] = t /\ pc[v] \in EngineeringPcs
      BY <2>1, <2>2 DEF Elsewhere, Manned
    <3>2. v # w
      BY <3>1 DEF Elsewhere, TreePcs
    <3> QED BY <3>1, <3>2 DEF Elsewhere
  <2>3. \A v \in Coordinators : pc'[v] \notin AbandonPcs
    BY <2>1 DEF Elsewhere, Manned
  <2> QED BY <2>2, <2>3 DEF Manned
<1> QED BY <1>1, <1>2 DEF HoldInv

\* While another step of its job is open and not being worked on, no step of the job runs.
LEMMA RunsInOtherJob ==
  ASSUME OneOpenPerJob, NEW s \in Steps, Open(s), stepStatus[s] # "running",
         NEW t \in Steps, stepStatus[t] = "running"
  PROVE  JobOf[t] # JobOf[s]
BY DEF OneOpenPerJob, Open

LEMMA ReviewHoldsTrees ==
  ASSUME TypeOK, PhaseInv, HoldInv, OneOpenPerJob, NEW w \in Coordinators, NEW s \in Steps,
         Review(w, s)
  PROVE  HoldInv'
<1> USE ConstantsAssumption DEF ConstantsAssumption, TypeOK, PhaseInv, PhaseFits, ReviewHolds,
        AbandonPcs, Open, StepPcs, EngineeringPcs, ReviewPcs, VerifyPcs, CheckpointPcs, TreePcs,
        Goto, Idle, At, SetJob, SetStep, stepVars, ownVars, jobVars, Elsewhere, OneOpenPerJob
<1>1. CASE NextReviewStep(w, s)
  <2>1. /\ UNCHANGED <<engVars, verVars, lockVars, stepStatus, beating>>
        /\ pc[w] = "idle" /\ stepStatus[s] = "review"
        /\ pc' = [pc EXCEPT ![w] = "review_selected"] /\ task' = [task EXCEPT ![w] = s]
        /\ \A j \in Jobs : j # JobOf[s] => jobStatus'[j] = jobStatus[j]
    BY <1>1 DEF NextReviewStep
  <2>0. stepStatus[s] = "review"
    BY <1>1 DEF NextReviewStep
  <2>2. \A t \in Steps : stepStatus[t] = "running" => JobOf[t] # JobOf[s]
    BY <2>0
  <2>3. Elsewhere(w)
    BY <2>1, <2>2
  <2> QED BY <2>3, ElsewhereHolds
<1>2. CASE ClaimReview(w, s)
  <2>1. Elsewhere(w)
    BY <1>2 DEF ClaimReview, StartHeartbeat
  <2> QED BY <2>1, ElsewhereHolds
<1>3. CASE CollectEvidence(w, s)
  <2>1. Elsewhere(w)
    BY <1>3 DEF CollectEvidence
  <2> QED BY <2>1, ElsewhereHolds
<1>4. CASE ReviewCompletes(w, s)
  <2>1. /\ UNCHANGED <<engVars, verVars, lockVars>> /\ beating' = beating \ {w}
        /\ pc' = [pc EXCEPT ![w] = "reviewed"] /\ task' = [task EXCEPT ![w] = s]
        /\ pc[w] = "judging" /\ task[w] = s
        /\ \E status \in DOMAIN VerdictOf : stepStatus' = [stepStatus EXCEPT ![s] = status]
    BY <1>4 DEF ReviewCompletes, StopHeartbeat
  <2>0. \A j \in Jobs : j # JobOf[s] => jobStatus'[j] = jobStatus[j]
    BY <1>4 DEF ReviewCompletes
  <2>2. stepStatus[s] \in {"review", "cancelled"}
    BY <2>1
  <2>5. Open(s) /\ stepStatus[s] # "running"
    BY <2>2
  <2>3. \A t \in Steps : stepStatus[t] = "running" => JobOf[t] # JobOf[s]
    BY <2>5, RunsInOtherJob
  <2>4. Elsewhere(w)
    BY <2>0, <2>1, <2>2, <2>3 DEF VerdictOf
  <2> QED BY <2>4, ElsewhereHolds
<1>5. CASE ReviewFails(w, s)
  <2>1. Elsewhere(w)
    BY <1>5 DEF ReviewFails, StopHeartbeat
  <2> QED BY <2>1, ElsewhereHolds
<1>6. CASE FinishReviewHandoff(w, s)
  <2>1. /\ UNCHANGED <<engVars, verVars, lockVars, stepStatus, beating>> /\ pc[w] = "reviewed"
        /\ pc' = [pc EXCEPT ![w] = "idle"] /\ task' = [task EXCEPT ![w] = NoOne]
    BY <1>6 DEF FinishReviewHandoff
  <2>2. jobStatus' = jobStatus \/ (Open(s) /\ stepStatus[s] # "running"
          /\ \A j \in Jobs : j # JobOf[s] => jobStatus'[j] = jobStatus[j])
    BY <1>6 DEF FinishReviewHandoff, HandOff
  <2>3. ASSUME NEW t \in Steps, stepStatus[t] = "running"
        PROVE  jobStatus'[JobOf[t]] = jobStatus[JobOf[t]]
    <3>1. Open(s) /\ stepStatus[s] # "running" => JobOf[t] # JobOf[s]
      BY <2>3, RunsInOtherJob
    <3> QED BY <2>2, <3>1
  <2>4. Elsewhere(w)
    BY <2>1, <2>3
  <2> QED BY <2>4, ElsewhereHolds
<1> QED BY <1>1, <1>2, <1>3, <1>4, <1>5, <1>6 DEF Review

LEMMA PlanningHolds ==
  ASSUME TypeOK, PhaseInv, HoldInv, NEW w \in Coordinators, NEW j \in Jobs, Planning(w, j)
  PROVE  HoldInv'
<1> USE ConstantsAssumption DEF ConstantsAssumption, TypeOK, PhaseInv, PlanningPcs,
        AbandonPcs, StepPcs, EngineeringPcs, ReviewPcs, VerifyPcs, CheckpointPcs,
        Goto, Idle, At, SetJob, SetStep, stepVars, ownVars, engVars, verVars, lockVars, jobVars,
        HoldInv, Holds, Locks, Manned, Tree, HasActive, Active, StepsOf
<1>1. CASE ClaimJob(w, j)
  BY <1>1 DEF ClaimJob
<1>2. CASE PlannerReads(w, j)
  BY <1>2 DEF PlannerReads
<1>3. CASE PlannerHeartbeat(w, j)
  BY <1>3 DEF PlannerHeartbeat
<1>4. CASE PlannerCreatesSteps(w, j)
  BY <1>4 DEF PlannerCreatesSteps, ApplyDecision, OwnsPlan
<1>5. CASE PlannerRetriesStep(w, j)
  BY <1>5 DEF PlannerRetriesStep, ApplyDecision, OwnsPlan
<1>6. CASE PlannerSettles(w, j)
  BY <1>6 DEF PlannerSettles, ApplyDecision, OwnsPlan
<1>7. CASE PlannerDefers(w, j)
  BY <1>7 DEF PlannerDefers
<1>8. CASE PlannerLosesLease(w, j)
  BY <1>8 DEF PlannerLosesLease
<1> QED BY <1>1, <1>2, <1>3, <1>4, <1>5, <1>6, <1>7, <1>8 DEF Planning

LEMMA RecoveryHolds ==
  ASSUME TypeOK, PhaseInv, HoldInv, Steady, NEW w \in Coordinators, Recovery(w)
  PROVE  HoldInv'
<1> USE ConstantsAssumption DEF ConstantsAssumption, TypeOK, PhaseInv,
        AbandonPcs, StepPcs, EngineeringPcs, VerifyPcs, CheckpointPcs, Steady,
        Goto, SetJob, stepVars, ownVars, engVars, verVars, lockVars, jobVars,
        HoldInv, Holds, Locks, Manned, Tree, HasActive, Active, StepsOf
<1>1. CASE RecoverExpired(w)
  <2>1. /\ UNCHANGED <<stepStatus, jobStatus, engineer, engineerLease, beating>>
        /\ \A t \in Steps :
             stepStatus[t] \in {"verification", "checkpoint"} /\ verifierLease[t] = "live" =>
               verifier'[t] = verifier[t] /\ verifierLease'[t] = "live"
        /\ \A r \in Repositories : lockLease[r] = "live" =>
             lockOwner'[r] = lockOwner[r] /\ lockLease'[r] = "live"
    BY <1>1 DEF RecoverExpired, Stale
  <2>2. /\ pc[w] = "idle" /\ pc'[w] \in {"idle", "recovering"}
        /\ \A v \in Coordinators : v # w => pc'[v] = pc[v] /\ task'[v] = task[v]
        /\ pc'[w] = "recovering" =>
             \E t \in Steps : stepStatus[t] = "running" /\ engineerLease[t] = "expired"
    BY <1>1 DEF RecoverExpired, Stale
  <2>3. ~Crashes => Manned'
    BY <2>1, <2>2
  <2>4. \A v \in Coordinators : Holds(v)'
    BY <2>1, <2>2
  <2> QED BY <2>3, <2>4
<1>2. CASE RecoverExpiredPlanning(w)
  BY <1>2 DEF RecoverExpiredPlanning
<1>3. CASE \E j \in Jobs : EnforceIterationLimit(w, j)
  BY <1>3 DEF EnforceIterationLimit
<1> QED BY <1>1, <1>2, <1>3 DEF Recovery

\* Without stalls neither the lock nor the lease of whoever is in the tree runs
\* out under its heartbeat.
LEMMA ClockHolds ==
  ASSUME TypeOK, PhaseInv, HoldInv, ~Stalls, Clock
  PROVE  HoldInv'
<1> USE ConstantsAssumption DEF ConstantsAssumption, TypeOK, PhaseInv, HoldInv, Holds, Locks,
        Manned, Tree, StepPcs, EngineeringPcs, VerifyPcs, CheckpointPcs, ClockLeaves, stepVars
<1>1. CASE \E j \in Jobs : PlannerLeaseLapses(j)
  BY <1>1 DEF PlannerLeaseLapses
<1>2. ASSUME NEW s \in Steps, EngineerLeaseLapses(s) PROVE HoldInv'
  <2>1. \A v \in Coordinators :
          pc[v] \in EngineeringPcs /\ task[v] = s => ~(engineer[s] = v /\ v \in beating)
    BY <1>2 DEF EngineerLeaseLapses, MayLapse, Attended, PcsOf
  <2> QED BY <1>2, <2>1 DEF EngineerLeaseLapses
<1>3. CASE \E s \in Steps : ReviewLeaseLapses(s)
  BY <1>3 DEF ReviewLeaseLapses
<1>4. ASSUME NEW s \in Steps, VerifierLeaseLapses(s) PROVE HoldInv'
  <2>1. \A v \in Coordinators :
          pc[v] \in VerifyPcs \cup CheckpointPcs /\ task[v] = s =>
            ~(verifier[s] = v /\ v \in beating)
    BY <1>4 DEF VerifierLeaseLapses, MayLapse, Attended, PcsOf
  <2> QED BY <1>4, <2>1 DEF VerifierLeaseLapses
<1>5. ASSUME NEW r \in Repositories, LockLapses(r) PROVE HoldInv'
  <2>1. \A v \in Coordinators :
          /\ pc[v] \in EngineeringPcs =>
               ~(lockOwner[r] = <<v, "engineering", task[v]>> /\ v \in beating)
          /\ pc[v] \in VerifyPcs => ~(lockOwner[r] = <<v, "verify", task[v]>> /\ v \in beating)
          /\ pc[v] \in CheckpointPcs =>
               ~(lockOwner[r] = <<v, "checkpoint", task[v]>> /\ v \in beating)
    BY <1>5 DEF LockLapses, MayLapse, Attended, PcsOf
  <2> QED BY <1>5, <2>1 DEF LockLapses
<1> QED BY <1>1, <1>2, <1>3, <1>4, <1>5 DEF Clock

\* A heartbeat finds the row and the lock it renews, and goes on.
LEMMA HeartbeatHolds ==
  ASSUME TypeOK, PhaseInv, HoldInv, NEW w \in Coordinators, Heartbeat(w)
  PROVE  HoldInv'
<1>1. /\ UNCHANGED <<stepStatus, jobStatus, engineer, verifier, lockOwner, pc, task>>
      /\ \A s \in Steps : engineerLease[s] = "live" => engineerLease'[s] = "live"
      /\ \A s \in Steps : verifierLease[s] = "live" => verifierLease'[s] = "live"
      /\ \A r \in Repositories : lockLease[r] = "live" => lockLease'[r] = "live"
      /\ beating' \in {beating, beating \ {w}}
  BY DEF Heartbeat, Renewed, StopHeartbeat, stepVars, jobVars, TypeOK
<1>2. Holds(w)
  BY DEF HoldInv
<1>3. pc[w] \in TreePcs => beating' = beating
  <2>1. CASE pc[w] \in EngineeringPcs
    <3>1. PhaseOf(w) = "engineering"
      BY <2>1 DEF PhaseOf, EngineeringPcs, VerifyPcs, ReviewPcs
    <3> QED BY <1>2, <2>1, <3>1 DEF Heartbeat, Holds, Locks, EngineeringLeaseHolds
  <2>2. CASE pc[w] \in VerifyPcs
    <3>1. PhaseOf(w) = "verify"
      BY <2>2 DEF PhaseOf, EngineeringPcs, VerifyPcs, ReviewPcs
    <3> QED BY <1>2, <2>2, <3>1 DEF Heartbeat, Holds, Locks
  <2>3. CASE pc[w] \in CheckpointPcs
    <3>1. PhaseOf(w) = "checkpoint"
      BY <2>3 DEF PhaseOf, EngineeringPcs, VerifyPcs, CheckpointPcs, ReviewPcs
    <3> QED BY <1>2, <2>3, <3>1 DEF Heartbeat, Holds, Locks
  <2> QED BY <2>1, <2>2, <2>3 DEF TreePcs
<1>4. \A v \in Coordinators : pc[v] \in TreePcs =>
        task[v] \in Steps /\ Tree(task[v]) \in Repositories
  BY ConstantsAssumption DEF ConstantsAssumption, PhaseInv, TreePcs, StepPcs, Tree
<1>5. ASSUME NEW v \in Coordinators PROVE Holds(v)'
  <2>1. CASE pc[v] \in TreePcs
    <3>1. v \in beating => v \in beating'
      BY <1>1, <1>3, <2>1
    <3>2. Holds(v)
      BY DEF HoldInv
    <3> QED BY <1>1, <1>4, <2>1, <3>1, <3>2 DEF Holds, Locks, Tree
  <2>2. CASE pc[v] \notin TreePcs
    BY <1>1, <2>2 DEF Holds, TreePcs
  <2> QED BY <2>1, <2>2
<1>6. Manned => Manned'
  BY <1>1 DEF Manned
<1> QED BY <1>5, <1>6 DEF HoldInv

\* Only the last coordinator dies in an attended tree.
LEMMA CrashHolds ==
  ASSUME TypeOK, HoldInv, Steady, NEW w \in Coordinators, Crash(w)
  PROVE  HoldInv'
BY DEF Crash, Idle, Goto, Steady, TypeOK, HoldInv, Holds, EngineeringPcs, VerifyPcs, CheckpointPcs

LEMMA OperatorHolds ==
  ASSUME TypeOK, PhaseInv, HoldInv, Steady, NEW j \in Jobs, Operate(j)
  PROVE  HoldInv'
<1>0. /\ OperatorLeaves
      /\ ~("pause" \in Operations) /\ ~("cancel" \in Operations) /\ ~("remove" \in Operations)
      /\ ~("planner_cli" \in Operations) /\ ~("rerun_verification" \in Operations)
  BY DEF Operate, Steady
<1> USE <1>0, ConstantsAssumption DEF ConstantsAssumption, TypeOK, PhaseInv, HoldInv, Holds,
        Locks, Manned, Tree, StepPcs, EngineeringPcs, VerifyPcs, CheckpointPcs, SetJob, SetStep,
        stepVars, ownVars, engVars, revVars, verVars, lockVars, OperatorLeaves, StepsOf
<1>2. CASE Resume(j)
  BY <1>2 DEF Resume, ClearOwners
<1>6. CASE RetryJob(j)
  BY <1>6 DEF RetryJob
<1>7. CASE RecoverJob(j)
  BY SMTT(30), <1>7 DEF RecoverJob
<1>9. CASE RefreshPlanning(j)
  BY <1>9 DEF RefreshPlanning
<1>10. CASE Answer(j)
  BY <1>10 DEF Answer
<1>11. CASE AnswerRequest(j)
  BY <1>11 DEF AnswerRequest
<1> QED BY <1>2, <1>6, <1>7, <1>9, <1>10, <1>11 DEF Operate

\* A claim takes the lock of a tree that nobody is in, and its job's label from
\* a job none of whose steps is running.
LEMMA ClaimHolds ==
  ASSUME TypeOK, PhaseInv, HoldInv, OneOpenPerJob, NEW w \in Coordinators, NEW s \in Steps,
         ClaimVerification(w, s) \/ ClaimCheckpoint(w, s)
  PROVE  HoldInv'
<1> USE ConstantsAssumption DEF ConstantsAssumption, TypeOK, LockOwners, StepPcs, EngineeringPcs,
        VerifyPcs, CheckpointPcs, Goto, Tree, stepVars, ownVars, engVars, revVars, verVars
<1>1. PICK phase \in {"verify", "checkpoint"}, label \in {"verifying", "checkpointing"},
           stepIs \in {"verification", "checkpoint"} :
        /\ stepIs = (IF phase = "verify" THEN "verification" ELSE "checkpoint")
        /\ label = (IF phase = "verify" THEN "verifying" ELSE "checkpointing")
        /\ \E jobIn, jobTo : ClaimOrchestration(w, s, stepIs, jobIn, jobTo, phase, label)
  BY DEF ClaimVerification, ClaimCheckpoint
<1>2. /\ stepStatus[s] = stepIs /\ pc[w] = "idle"
      /\ UNCHANGED <<stepStatus, engVars>> /\ beating' = beating \cup {w}
      /\ verifier' = [verifier EXCEPT ![s] = w] /\ verifierLease[s] # "live"
      /\ verifierLease' = [verifierLease EXCEPT ![s] = "live"]
      /\ lockOwner' = [lockOwner EXCEPT ![Tree(s)] = <<w, phase, s>>]
      /\ lockLease' = [lockLease EXCEPT ![Tree(s)] = "live"]
  BY <1>1 DEF ClaimOrchestration, StartHeartbeat, AcquireLock, Lapsed
<1>3. pc'[w] = label /\ task'[w] = s
      /\ \A v \in Coordinators : v # w => pc'[v] = pc[v] /\ task'[v] = task[v]
  BY <1>1 DEF ClaimOrchestration
<1>4. Tree(s) \in Repositories /\ <<w, phase, s>> \in LockOwners
  BY DEF Phases
<1>5. lockLease[Tree(s)] = "live" => lockOwner[Tree(s)] \in {NoOne, <<w, phase, s>>}
  BY <1>1 DEF ClaimOrchestration, AcquireLock
<1>6. \A j \in Jobs : j # JobOf[s] => jobStatus'[j] = jobStatus[j]
  BY <1>1 DEF ClaimOrchestration, SetJob
<1>7. ASSUME NEW v \in Coordinators, v # w, pc'[v] \in TreePcs PROVE Holds(v)'
  <2>1. Holds(v) /\ pc[v] \in TreePcs /\ task[v] \in Steps /\ task'[v] = task[v]
    BY <1>3, <1>7 DEF TreePcs, HoldInv, PhaseInv
  <2>2. PICK p \in Phases : Locks(v, p)
    BY <2>1 DEF TreePcs, Phases, Holds
  <2>3. <<v, p, task[v]>> \in LockOwners
    BY <2>1
  <2>4. <<v, p, task[v]>> # <<w, phase, s>> /\ <<v, p, task[v]>> # NoOne
    BY <1>7, <2>3
  <2>5. Tree(task[v]) # Tree(s)
    BY <1>5, <2>2, <2>4 DEF Locks
  <2>6. task[v] # s /\ Tree(task[v]) \in Repositories
    BY <2>1, <2>5
  <2>7. /\ lockOwner'[Tree(task[v])] = lockOwner[Tree(task[v])]
        /\ lockLease'[Tree(task[v])] = lockLease[Tree(task[v])]
    BY <1>2, <1>4, <2>5, <2>6
  <2>8. \A q \in Phases : Locks(v, q) => Locks(v, q)'
    BY <1>2, <2>1, <2>7 DEF Locks
  <2>9. /\ stepStatus'[task[v]] = stepStatus[task[v]] /\ pc'[v] = pc[v]
        /\ engineer'[task[v]] = engineer[task[v]]
        /\ engineerLease'[task[v]] = engineerLease[task[v]]
        /\ verifier'[task[v]] = verifier[task[v]]
        /\ verifierLease'[task[v]] = verifierLease[task[v]]
    BY <1>2, <1>3, <1>7, <2>1, <2>6
  <2>10. pc[v] \in EngineeringPcs => jobStatus'[JobOf[task[v]]] = jobStatus[JobOf[task[v]]]
    BY <1>2, <1>6, <2>1, <2>6 DEF Holds, OneOpenPerJob, Open
  <2> QED BY <2>1, <2>8, <2>9, <2>10 DEF Holds, Phases
<1>8. Holds(w)'
  BY <1>1, <1>2, <1>3, <1>4 DEF Holds, Locks
<1>9. \A v \in Coordinators : pc'[v] \notin TreePcs => Holds(v)'
  BY DEF Holds, TreePcs
<1>10. ASSUME ~Crashes PROVE Manned'
  <2>1. Manned
    BY <1>10 DEF HoldInv
  <2>2. pc'[w] \notin AbandonPcs
    BY <1>3 DEF AbandonPcs
  <2>3. ASSUME NEW t \in Steps, stepStatus'[t] = "running"
        PROVE  \E v \in Coordinators : task'[v] = t /\ pc'[v] \in EngineeringPcs
    <3>1. PICK v \in Coordinators : task[v] = t /\ pc[v] \in EngineeringPcs
      BY <1>2, <2>1, <2>3 DEF Manned
    <3> QED BY <1>2, <1>3, <3>1
  <2> QED BY <1>3, <2>1, <2>2, <2>3 DEF Manned
<1> QED BY <1>7, <1>8, <1>9, <1>10 DEF HoldInv

\* A phase ends with the record of its result: the coordinator leaves the tree
\* in the transaction that moves the step on.
LEMMA RecordHolds ==
  ASSUME TypeOK, PhaseInv, HoldInv, OneOpenPerJob, NEW w \in Coordinators, NEW s \in Steps,
         RecordVerification(w, s) \/ RecordCheckpoint(w, s)
  PROVE  HoldInv'
<1> USE ConstantsAssumption DEF ConstantsAssumption, TypeOK, StepPcs, EngineeringPcs,
        VerifyPcs, CheckpointPcs, Goto, At, SetStep, Tree, stepVars, ownVars, engVars, revVars,
        verVars, lockVars
<1>1. PICK stepTo \in {"checkpoint", "complete", "changes_requested", "blocked"},
           jobTo \in {"checkpointing", "running", "blocked"},
           label \in {"release_verify", "completing", "release_checkpoint"} :
        RecordPhase(w, s, stepTo, jobTo, label)
  BY DEF RecordVerification, RecordCheckpoint
<1>2. pc[w] \in VerifyPcs \cup CheckpointPcs /\ task[w] = s
  BY DEF RecordVerification, RecordCheckpoint
<1>3. stepStatus[s] \in {"verification", "checkpoint"}
  BY <1>2 DEF HoldInv, Holds
<1>4. /\ stepStatus' = [stepStatus EXCEPT ![s] = stepTo]
      /\ UNCHANGED <<engineer, engineerLease, lockOwner, lockLease>> /\ beating' = beating \ {w}
      /\ verifier' = [verifier EXCEPT ![s] = NoOne]
      /\ verifierLease' = [verifierLease EXCEPT ![s] = "none"]
  BY <1>1 DEF RecordPhase, StopHeartbeat
<1>5. pc'[w] = label /\ task'[w] = s
      /\ \A v \in Coordinators : v # w => pc'[v] = pc[v] /\ task'[v] = task[v]
  BY <1>1 DEF RecordPhase
<1>6. \A j \in Jobs : j # JobOf[s] => jobStatus'[j] = jobStatus[j]
  BY <1>1 DEF RecordPhase, HandOff
<1>7. ASSUME NEW v \in Coordinators, v # w, pc'[v] \in TreePcs PROVE Holds(v)'
  <2>1. Holds(v) /\ Holds(w) /\ task[v] \in Steps /\ task'[v] = task[v] /\ pc'[v] = pc[v]
    BY <1>5, <1>7 DEF TreePcs, HoldInv, PhaseInv
  <2>2. task[v] # s
    BY <1>2, <1>3, <1>5, <1>7, <2>1 DEF Holds, TreePcs
  <2>3. \A q \in Phases : Locks(v, q) => Locks(v, q)'
    BY <1>4, <1>7, <2>1 DEF Locks
  <2>4. /\ stepStatus'[task[v]] = stepStatus[task[v]]
        /\ engineer'[task[v]] = engineer[task[v]]
        /\ engineerLease'[task[v]] = engineerLease[task[v]]
        /\ verifier'[task[v]] = verifier[task[v]]
        /\ verifierLease'[task[v]] = verifierLease[task[v]]
    BY <1>4, <2>1, <2>2
  <2>5. pc[v] \in EngineeringPcs => jobStatus'[JobOf[task[v]]] = jobStatus[JobOf[task[v]]]
    BY <1>3, <1>6, <2>1, <2>2 DEF Holds, OneOpenPerJob, Open
  <2> QED BY <2>1, <2>3, <2>4, <2>5 DEF Holds, Phases
<1>8. \A v \in Coordinators : pc'[v] \notin TreePcs => Holds(v)'
  BY DEF Holds, TreePcs
<1>9. pc'[w] \notin TreePcs
  BY <1>5 DEF TreePcs
<1>10. ASSUME ~Crashes PROVE Manned'
  <2>1. Manned
    BY <1>10 DEF HoldInv
  <2>2. pc'[w] \notin AbandonPcs
    BY <1>5 DEF AbandonPcs
  <2>3. ASSUME NEW t \in Steps, stepStatus'[t] = "running"
        PROVE  \E v \in Coordinators : task'[v] = t /\ pc'[v] \in EngineeringPcs
    <3>1. PICK v \in Coordinators : task[v] = t /\ pc[v] \in EngineeringPcs
      BY <1>4, <2>1, <2>3 DEF Manned
    <3> QED BY <1>2, <1>5, <3>1
  <2> QED BY <1>5, <2>1, <2>2, <2>3 DEF Manned
<1> QED BY <1>7, <1>8, <1>9, <1>10 DEF HoldInv

LEMMA OrchestrationHolds ==
  ASSUME TypeOK, PhaseInv, HoldInv, OneOpenPerJob, NEW w \in Coordinators, NEW s \in Steps,
         Orchestration(w, s)
  PROVE  HoldInv'
<1> USE ConstantsAssumption DEF ConstantsAssumption, TypeOK, PhaseInv, HoldInv, Holds, Locks,
        Manned, AbandonPcs, StepPcs, EngineeringPcs, VerifyPcs, CheckpointPcs, Goto, At,
        Tree, stepVars, ownVars, engVars, revVars, verVars, lockVars, jobVars
<1>1. CASE StartTests(w, s)
  BY <1>1 DEF StartTests
<1>2. CASE FindCheckpoint(w, s)
  BY <1>2 DEF FindCheckpoint
<1>3. CASE GitCommit(w, s)
  BY <1>3 DEF GitCommit
<1>4. CASE GitRefuses(w, s)
  BY <1>4 DEF GitRefuses
<1>5. CASE CompleteSession(w, s)
  BY <1>5 DEF CompleteSession
<1>6. CASE RecordRefused(w, s)
  BY <1>6 DEF RecordRefused
<1> QED
  BY <1>1, <1>2, <1>3, <1>4, <1>5, <1>6, ClaimHolds, RecordHolds DEF Orchestration

LEMMA StepHolds ==
  ASSUME TypeOK, PhaseInv, HoldInv, OneOpenPerJob, Steady, [Next]_vars
  PROVE  HoldInv'
<1>1. ASSUME NEW w \in Coordinators, Coordinate(w) PROVE HoldInv'
  BY <1>1, PlanningHolds, EngineeringHolds, ReviewHoldsTrees, OrchestrationHolds, RecoveryHolds
  DEF Coordinate
<1>2. CASE UNCHANGED vars
  BY <1>2 DEF vars, jobVars, stepVars, ownVars, engVars, verVars, lockVars, HoldInv, Holds, Locks,
     Manned, Tree
<1>3. ~Stalls
  BY DEF Steady
<1> QED
  BY <1>1, <1>2, <1>3, HeartbeatHolds, CrashHolds, OperatorHolds, ClockHolds DEF Next

LEMMA HoldsAreKept == Steady /\ Spec /\ []OneOpenPerJob => []HoldInv
<1>1. Init => HoldInv
  BY ConstantsAssumption
  DEF ConstantsAssumption, Init, HoldInv, Holds, Manned, AbandonPcs, EngineeringPcs, VerifyPcs,
      CheckpointPcs
<1>2. CASE ~Steady
  BY <1>2, PTL
<1>3. CASE Steady
  <2>1. TypeOK /\ PhaseInv /\ OneOpenPerJob /\ HoldInv /\ [Next]_vars => HoldInv'
    BY <1>3, StepHolds
  <2>2. ~Stalls
    BY <1>3 DEF Steady
  <2>3. Spec => []PhaseInv
    BY <2>2, PhasesHold, PTL
  <2> QED BY <1>1, <2>1, <2>3, TypesAreKept, PTL DEF Spec
<1> QED BY <1>2, <1>3

\* Of OneInTree: the repository lock serializes engineering, verification and
\* checkpoint in a tree, for any number of jobs, steps, trees and coordinators.
\* It does as long as the heartbeats keep their leases (Steady) and no sibling
\* step relabels the job on which the engineer's heartbeat depends.
THEOREM TreesStayExclusive == Steady /\ Spec /\ []OneOpenPerJob => []OneInTree
<1>1. HoldInv => OneInTree
  <2> SUFFICES ASSUME HoldInv, NEW v \in Coordinators, NEW w \in Coordinators,
                      pc[v] \in TreePcs, pc[w] \in TreePcs, Tree(task[v]) = Tree(task[w])
               PROVE  v = w
    BY DEF OneInTree
  <2>1. PICK p \in Phases : Locks(v, p)
    BY DEF HoldInv, Holds, TreePcs, Phases
  <2>2. PICK q \in Phases : Locks(w, q)
    BY DEF HoldInv, Holds, TreePcs, Phases
  <2> QED BY <2>1, <2>2 DEF Locks
<1> QED BY <1>1, HoldsAreKept, PTL

-----------------------------------------------------------------------------
(* What is committed is out of the tree                                     *)

\* From its commit on a step has no change in the tree: it is complete, or the
\* coordinator that committed it is about to record that.
CleanInv ==
  \A s \in Steps : commit[s] # NoCommit =>
    /\ s \notin dirty
    /\ \/ stepStatus[s] = "complete"
       \/ stepStatus[s] = "checkpoint" /\ \E w \in Coordinators : At(w, "committed", s)

\* A step of the system that commits nothing, leaves the committed steps where
\* they are and soils no tree that a committed step has left.
Unsoiled ==
  /\ commit' = commit
  /\ \A s \in Steps : s \in dirty' => s \in dirty \/ commit[s] = NoCommit
  /\ \A s \in Steps : stepStatus[s] \in {"complete", "checkpoint"} =>
       stepStatus'[s] = stepStatus[s]
  /\ \A w \in Coordinators : pc[w] = "committed" => pc'[w] = "committed" /\ task'[w] = task[w]

LEMMA UnsoiledIsClean ==
  ASSUME CleanInv, Unsoiled
  PROVE  CleanInv'
BY DEF CleanInv, Unsoiled, At

LEMMA EngineeringUnsoiled ==
  ASSUME TypeOK, PhaseInv, HoldInv, CleanInv, NEW w \in Coordinators, NEW s \in Steps,
         Engineering(w, s)
  PROVE  Unsoiled
<1> USE DEF TypeOK, Unsoiled, Goto, Idle, At, SetStep, stepVars, gitVars, EngineeringPcs
<1>1. CASE ClaimEngineering(w, s)
  BY <1>1 DEF ClaimEngineering
<1>2. CASE EngineerTurns(w, s)
  BY <1>2 DEF EngineerTurns
<1>3. CASE EngineerActs(w, s)
  <2>1. stepStatus[s] = "running"
    BY <1>3 DEF EngineerActs, HoldInv, Holds
  <2>2. commit[s] = NoCommit
    BY <2>1 DEF CleanInv
  <2>3. dirty' \subseteq dirty \cup {s}
    BY <1>3 DEF EngineerActs
  <2>4. UNCHANGED <<commit, stepStatus>>
    BY <1>3 DEF EngineerActs
  <2>5. \A v \in Coordinators : pc[v] = "committed" => pc'[v] = "committed" /\ task'[v] = task[v]
    BY <1>3 DEF EngineerActs
  <2> QED BY <2>2, <2>3, <2>4, <2>5
<1>4. CASE EngineerSeesControl(w, s)
  BY <1>4 DEF EngineerSeesControl
<1>5. CASE EngineerEnds(w, s)
  <2>1. pc[w] \in EngineeringPcs /\ task[w] = s
    BY <1>5 DEF EngineerEnds
  <2>2. stepStatus[s] = "running"
    BY <2>1 DEF HoldInv, Holds
  <2> QED BY <1>5, <2>1, <2>2 DEF EngineerEnds, UpdateStep
<1>6. CASE EngineerLosesLease(w, s)
  BY <1>6 DEF EngineerLosesLease
<1>7. CASE FinishEngineeringHandoff(w, s)
  BY <1>7 DEF FinishEngineeringHandoff
<1>8. CASE InspectTree(w, s)
  BY <1>8 DEF InspectTree
<1>9. CASE AbandonEngineering(w, s)
  BY <1>9 DEF AbandonEngineering, Abandon
<1>10. CASE ReleasePhase(w, s)
  BY <1>10 DEF ReleasePhase
<1> QED BY <1>1, <1>2, <1>3, <1>4, <1>5, <1>6, <1>7, <1>8, <1>9, <1>10 DEF Engineering

LEMMA ReviewUnsoiled ==
  ASSUME TypeOK, PhaseInv, NEW w \in Coordinators, NEW s \in Steps, Review(w, s)
  PROVE  Unsoiled
<1> USE DEF TypeOK, Unsoiled, Goto, Idle, At, SetStep, stepVars, gitVars, ReviewPcs
<1>1. CASE NextReviewStep(w, s)
  BY <1>1 DEF NextReviewStep
<1>2. CASE ClaimReview(w, s)
  BY <1>2 DEF ClaimReview
<1>3. CASE CollectEvidence(w, s)
  BY <1>3 DEF CollectEvidence
<1>4. CASE ReviewCompletes(w, s)
  <2>1. stepStatus[s] \in {"review", "cancelled"}
    BY <1>4 DEF ReviewCompletes, PhaseInv, PhaseFits, ReviewHolds
  <2> QED BY <1>4, <2>1 DEF ReviewCompletes
<1>5. CASE ReviewFails(w, s)
  BY <1>5 DEF ReviewFails
<1>6. CASE FinishReviewHandoff(w, s)
  BY <1>6 DEF FinishReviewHandoff
<1> QED BY <1>1, <1>2, <1>3, <1>4, <1>5, <1>6 DEF Review

LEMMA PlanningUnsoiled ==
  ASSUME TypeOK, NEW w \in Coordinators, NEW j \in Jobs, Planning(w, j)
  PROVE  Unsoiled
<1> USE DEF TypeOK, Unsoiled, Goto, Idle, At, SetStep, stepVars, gitVars, PlanningPcs
<1>1. CASE ClaimJob(w, j)
  BY <1>1 DEF ClaimJob
<1>2. CASE PlannerReads(w, j)
  BY <1>2 DEF PlannerReads
<1>3. CASE PlannerHeartbeat(w, j)
  BY <1>3 DEF PlannerHeartbeat
<1>4. CASE PlannerCreatesSteps(w, j)
  BY <1>4 DEF PlannerCreatesSteps, ApplyDecision
<1>5. CASE PlannerRetriesStep(w, j)
  BY <1>5 DEF PlannerRetriesStep, ApplyDecision, StepsOf
<1>6. CASE PlannerSettles(w, j)
  BY <1>6 DEF PlannerSettles, ApplyDecision
<1>7. CASE PlannerDefers(w, j)
  BY <1>7 DEF PlannerDefers
<1>8. CASE PlannerLosesLease(w, j)
  BY <1>8 DEF PlannerLosesLease
<1> QED BY <1>1, <1>2, <1>3, <1>4, <1>5, <1>6, <1>7, <1>8 DEF Planning

LEMMA RecoveryUnsoiled ==
  ASSUME TypeOK, NEW w \in Coordinators, Recovery(w)
  PROVE  Unsoiled
<1> USE DEF TypeOK, Unsoiled, Goto, stepVars, gitVars
<1>1. CASE RecoverExpired(w)
  BY <1>1 DEF RecoverExpired
<1>2. CASE RecoverExpiredPlanning(w)
  BY <1>2 DEF RecoverExpiredPlanning
<1>3. CASE \E j \in Jobs : EnforceIterationLimit(w, j)
  BY <1>3 DEF EnforceIterationLimit
<1> QED BY <1>1, <1>2, <1>3 DEF Recovery

LEMMA OperatorUnsoiled ==
  ASSUME TypeOK, Steady, NEW j \in Jobs, Operate(j)
  PROVE  Unsoiled
<1>0. /\ OperatorLeaves
      /\ ~("pause" \in Operations) /\ ~("cancel" \in Operations) /\ ~("remove" \in Operations)
      /\ ~("planner_cli" \in Operations) /\ ~("rerun_verification" \in Operations)
  BY DEF Operate, Steady
<1> USE <1>0 DEF TypeOK, Unsoiled, SetStep, stepVars, gitVars, OperatorLeaves, StepsOf
<1>2. CASE Resume(j)
  BY <1>2 DEF Resume
<1>6. CASE RetryJob(j)
  BY <1>6 DEF RetryJob
<1>7. CASE RecoverJob(j)
  BY <1>7 DEF RecoverJob
<1>9. CASE RefreshPlanning(j)
  BY <1>9 DEF RefreshPlanning
<1>10. CASE Answer(j)
  BY <1>10 DEF Answer
<1>11. CASE AnswerRequest(j)
  BY <1>11 DEF AnswerRequest
<1> QED BY <1>2, <1>6, <1>7, <1>9, <1>10, <1>11 DEF Operate

\* The commit takes the step's change out of the tree, and only the coordinator
\* that made it holds the step until it is recorded.
LEMMA OrchestrationClean ==
  ASSUME TypeOK, PhaseInv, HoldInv, OneInTree, CleanInv, NEW w \in Coordinators, NEW s \in Steps,
         Orchestration(w, s)
  PROVE  CleanInv'
<1> USE DEF TypeOK, Goto, At, SetStep, stepVars, gitVars, VerifyPcs, CheckpointPcs
<1>1. CASE ClaimVerification(w, s)
  <2>1. Unsoiled
    BY <1>1 DEF Unsoiled, ClaimVerification, ClaimOrchestration
  <2> QED BY <2>1, UnsoiledIsClean
<1>2. CASE ClaimCheckpoint(w, s)
  <2>1. Unsoiled
    BY <1>2 DEF Unsoiled, ClaimCheckpoint, ClaimOrchestration
  <2> QED BY <2>1, UnsoiledIsClean
<1>3. CASE StartTests(w, s)
  <2>1. Unsoiled
    BY <1>3 DEF Unsoiled, StartTests
  <2> QED BY <2>1, UnsoiledIsClean
<1>4. CASE FindCheckpoint(w, s)
  <2>1. Unsoiled
    BY <1>4 DEF Unsoiled, FindCheckpoint
  <2> QED BY <2>1, UnsoiledIsClean
<1>5. CASE GitRefuses(w, s)
  <2>1. Unsoiled
    BY <1>5 DEF Unsoiled, GitRefuses
  <2> QED BY <2>1, UnsoiledIsClean
<1>6. CASE CompleteSession(w, s)
  <2>1. Unsoiled
    BY <1>6 DEF Unsoiled, CompleteSession
  <2> QED BY <2>1, UnsoiledIsClean
<1>7. CASE RecordRefused(w, s)
  <2>1. FALSE
    BY <1>7 DEF RecordRefused, HoldInv, Holds
  <2> QED BY <2>1
<1>8. CASE GitCommit(w, s)
  <2>1. stepStatus[s] = "checkpoint"
    BY <1>8 DEF GitCommit, HoldInv, Holds
  <2>2. /\ commit' = [commit EXCEPT ![s] = seals[s]] /\ dirty' = dirty \ {s}
        /\ stepStatus' = stepStatus
    BY <1>8 DEF GitCommit
  <2>3. /\ pc'[w] = "committed" /\ task'[w] = s /\ pc[w] # "committed"
        /\ \A v \in Coordinators : v # w => pc'[v] = pc[v] /\ task'[v] = task[v]
    BY <1>8 DEF GitCommit
  <2> QED BY <2>1, <2>2, <2>3 DEF CleanInv
<1>9. CASE RecordVerification(w, s)
  <2>1. PICK stepTo \in {"checkpoint", "changes_requested", "blocked"},
             jobTo \in {"checkpointing", "running", "blocked"} :
          RecordPhase(w, s, stepTo, jobTo, "release_verify")
    BY <1>9 DEF RecordVerification
  <2>2. stepStatus[s] = "verification" /\ pc[w] # "committed"
    BY <1>9 DEF RecordVerification, HoldInv, Holds
  <2>3. Unsoiled
    BY <2>1, <2>2 DEF Unsoiled, RecordPhase
  <2> QED BY <2>3, UnsoiledIsClean
<1>10. CASE RecordCheckpoint(w, s)
  <2>1. PICK stepTo \in {"complete", "changes_requested"},
             label \in {"completing", "release_checkpoint"} :
          /\ RecordPhase(w, s, stepTo, "running", label)
          /\ stepTo = "complete" <=> pc[w] = "committed"
    BY <1>10 DEF RecordCheckpoint
  <2>2. /\ stepStatus' = [stepStatus EXCEPT ![s] = stepTo] /\ UNCHANGED <<commit, dirty>>
        /\ \A v \in Coordinators : v # w => pc'[v] = pc[v] /\ task'[v] = task[v]
    BY <2>1 DEF RecordPhase
  <2>3. pc[w] \in {"committed", "refused"} /\ task[w] = s
    BY <1>10 DEF RecordCheckpoint
  <2>4. \A v \in Coordinators : v # w /\ pc[v] = "committed" => task[v] # s
    BY <2>3 DEF OneInTree, TreePcs
  <2>5. stepStatus[s] = "checkpoint"
    BY <2>3 DEF HoldInv, Holds
  <2>6. commit[s] # NoCommit => stepTo = "complete"
    BY <2>1, <2>3, <2>4, <2>5 DEF CleanInv
  <2> QED BY <2>2, <2>3, <2>4, <2>5, <2>6 DEF CleanInv
<1> QED
  BY <1>1, <1>2, <1>3, <1>4, <1>5, <1>6, <1>7, <1>8, <1>9, <1>10 DEF Orchestration

LEMMA StepClean ==
  ASSUME TypeOK, PhaseInv, HoldInv, OneInTree, CleanInv, Steady, ~Crashes, [Next]_vars
  PROVE  CleanInv'
<1>1. ASSUME NEW w \in Coordinators, Coordinate(w) PROVE CleanInv'
  BY <1>1, PlanningUnsoiled, EngineeringUnsoiled, ReviewUnsoiled, RecoveryUnsoiled,
     UnsoiledIsClean, OrchestrationClean DEF Coordinate
<1>2. ASSUME NEW w \in Coordinators, Heartbeat(w) PROVE Unsoiled
  BY <1>2 DEF Heartbeat, Unsoiled, stepVars, gitVars
<1>3. ASSUME NEW w \in Coordinators, Crash(w) PROVE FALSE
  BY <1>3 DEF Crash
<1>4. CASE Clock
  <2>1. Unsoiled
    BY <1>4 DEF Clock, PlannerLeaseLapses, EngineerLeaseLapses, ReviewLeaseLapses,
       VerifierLeaseLapses, LockLapses, ClockLeaves, stepVars, gitVars, Unsoiled
  <2> QED BY <2>1, UnsoiledIsClean
<1>5. CASE UNCHANGED vars
  <2>1. Unsoiled
    BY <1>5 DEF vars, stepVars, gitVars, Unsoiled
  <2> QED BY <2>1, UnsoiledIsClean
<1> QED BY <1>1, <1>2, <1>3, <1>4, <1>5, OperatorUnsoiled, UnsoiledIsClean DEF Next

\* Of CompleteIsClean: no change of a complete step is left in its tree, for
\* any number of jobs, steps, trees and coordinators, if none of them dies. One
\* that dies between its commit and the record leaves a marker in history that
\* a later checkpoint of the same step, edited again, takes for its own.
THEOREM CompleteStaysClean ==
  Steady /\ ~Crashes /\ Spec /\ []OneOpenPerJob => []CompleteIsClean
<1>1. Init => CleanInv
  BY DEF Init, CleanInv
<1>2. CleanInv /\ CompleteIsCommitted => CompleteIsClean
  BY DEF CleanInv, CompleteIsCommitted, CompleteIsClean
<1>3. CASE ~Steady \/ Crashes
  BY <1>3, PTL
<1>4. CASE Steady /\ ~Crashes
  <2> DEFINE Before == TypeOK /\ PhaseInv /\ HoldInv /\ OneInTree
  <2>1. Before /\ CleanInv /\ [Next]_vars => CleanInv'
    BY <1>4, StepClean
  <2>2. ~Stalls
    BY <1>4 DEF Steady
  <2>3. Spec /\ []OneOpenPerJob => []Before
    BY <1>4, <2>2, TypesAreKept, PhasesHold, HoldsAreKept, TreesStayExclusive, PTL
  <2> HIDE DEF Before
  <2> QED BY <1>1, <1>2, <2>1, <2>3, CompleteStaysCommitted, PTL DEF Spec
<1> QED BY <1>3, <1>4

-----------------------------------------------------------------------------
(* What is committed is what was judged                                     *)

\* The reading of the tree behind a judgement is up to date, and a step that was
\* approved, or verified, is still as it was then.
SealInv ==
  /\ \A w \in Coordinators : pc[w] \in {"judging", "testing"} => w \in fresh
  /\ \A s \in Steps : /\ stepStatus[s] = "verification" => "approved" \in seals[s]
                      /\ stepStatus[s] = "checkpoint" => seals[s] = Seal
  /\ CommitIsSealed

\* A step of the system that edits, judges and commits nothing.
Unjudged ==
  /\ commit' = commit /\ seals' = seals
  /\ \A w \in Coordinators : pc'[w] \in {"judging", "testing"} =>
       pc[w] = pc'[w] /\ (w \in fresh => w \in fresh')
  /\ \A s \in Steps : stepStatus'[s] \in {"verification", "checkpoint"} =>
       stepStatus'[s] = stepStatus[s]

LEMMA UnjudgedIsSealed ==
  ASSUME SealInv, Unjudged
  PROVE  SealInv'
BY DEF SealInv, Unjudged, CommitIsSealed

\* An edit falls into nobody's judgement: its step is running, and no other step
\* is open in the tree.
LEMMA EditIsSealed ==
  ASSUME TypeOK, PhaseInv, HoldInv, OneOpenPerTree, SealInv, NEW w \in Coordinators,
         NEW s \in Steps, EngineerActs(w, s)
  PROVE  SealInv'
<1> USE DEF TypeOK, SealInv, EngineeringPcs, ReviewPcs, VerifyPcs, StepPcs
<1>1. stepStatus[s] = "running"
  BY DEF EngineerActs, At, HoldInv, Holds
<1>2. PICK edited \in {{}, {s}, SharingTree(s)} :
        /\ seals' = [t \in Steps |-> IF t \in edited THEN {} ELSE seals[t]]
        /\ fresh' = {v \in fresh : task[v] \notin edited}
  BY DEF EngineerActs
<1>3. /\ UNCHANGED <<stepStatus, commit>>
      /\ \A v \in Coordinators : pc'[v] \in {"judging", "testing"} => pc'[v] = pc[v]
  BY DEF EngineerActs, Goto, stepVars
<1>4. \A t \in edited : t \in Steps /\ Tree(t) = Tree(s)
  BY <1>2 DEF SharingTree, Tree
<1>5. ASSUME NEW t \in edited PROVE t = s \/ stepStatus[t] \in {"absent", "complete"}
  BY <1>1, <1>4 DEF OneOpenPerTree, Open
<1>6. \A t \in Steps : stepStatus[t] \in {"verification", "checkpoint"} => seals'[t] = seals[t]
  BY <1>1, <1>2, <1>5
<1>7. ASSUME NEW v \in Coordinators, pc[v] \in {"judging", "testing"} PROVE v \in fresh'
  <2>1. task[v] \in Steps /\ stepStatus[task[v]] \in {"review", "cancelled", "verification"}
    BY <1>7 DEF PhaseInv, PhaseFits, ReviewHolds, HoldInv, Holds
  <2>2. task[v] \notin edited
    BY <1>1, <1>5, <2>1
  <2> QED BY <1>2, <1>7, <2>2
<1>8. CommitIsSealed'
  BY <1>3 DEF CommitIsSealed
<1> QED BY <1>3, <1>6, <1>7, <1>8

LEMMA EngineeringSealed ==
  ASSUME TypeOK, PhaseInv, HoldInv, OneOpenPerTree, SealInv, NEW w \in Coordinators,
         NEW s \in Steps, Engineering(w, s)
  PROVE  SealInv'
<1> USE DEF TypeOK, Unjudged, Goto, Idle, At, SetStep, stepVars, gitVars, histVars
<1>1. CASE EngineerActs(w, s)
  BY <1>1, EditIsSealed
<1>2. CASE ClaimEngineering(w, s)
  <2>1. Unjudged
    BY <1>2 DEF ClaimEngineering
  <2> QED BY <2>1, UnjudgedIsSealed
<1>3. CASE EngineerTurns(w, s)
  <2>1. Unjudged
    BY <1>3 DEF EngineerTurns
  <2> QED BY <2>1, UnjudgedIsSealed
<1>4. CASE EngineerSeesControl(w, s)
  <2>1. Unjudged
    BY <1>4 DEF EngineerSeesControl
  <2> QED BY <2>1, UnjudgedIsSealed
<1>5. CASE EngineerEnds(w, s)
  <2>1. Unjudged
    BY <1>5 DEF EngineerEnds, UpdateStep
  <2> QED BY <2>1, UnjudgedIsSealed
<1>6. CASE EngineerLosesLease(w, s)
  <2>1. Unjudged
    BY <1>6 DEF EngineerLosesLease
  <2> QED BY <2>1, UnjudgedIsSealed
<1>7. CASE FinishEngineeringHandoff(w, s)
  <2>1. Unjudged
    BY <1>7 DEF FinishEngineeringHandoff
  <2> QED BY <2>1, UnjudgedIsSealed
<1>8. CASE InspectTree(w, s)
  <2>1. Unjudged
    BY <1>8 DEF InspectTree
  <2> QED BY <2>1, UnjudgedIsSealed
<1>9. CASE AbandonEngineering(w, s)
  <2>1. Unjudged
    BY <1>9 DEF AbandonEngineering, Abandon
  <2> QED BY <2>1, UnjudgedIsSealed
<1>10. CASE ReleasePhase(w, s)
  <2>1. Unjudged
    BY <1>10 DEF ReleasePhase
  <2> QED BY <2>1, UnjudgedIsSealed
<1> QED BY <1>1, <1>2, <1>3, <1>4, <1>5, <1>6, <1>7, <1>8, <1>9, <1>10 DEF Engineering

\* The verdict is about the tree that was read: nothing was edited since.
LEMMA ReviewSealed ==
  ASSUME TypeOK, PhaseInv, SealInv, NEW w \in Coordinators, NEW s \in Steps, Review(w, s)
  PROVE  SealInv'
<1> USE DEF TypeOK, Goto, Idle, At, SetStep, stepVars, gitVars, histVars
<1>1. CASE NextReviewStep(w, s)
  <2>1. Unjudged
    BY <1>1 DEF Unjudged, NextReviewStep
  <2> QED BY <2>1, UnjudgedIsSealed
<1>2. CASE ClaimReview(w, s)
  <2>1. Unjudged
    BY <1>2 DEF Unjudged, ClaimReview
  <2> QED BY <2>1, UnjudgedIsSealed
<1>3. CASE CollectEvidence(w, s)
  BY <1>3 DEF CollectEvidence, SealInv, CommitIsSealed
<1>4. CASE ReviewCompletes(w, s)
  <2>1. PICK status \in DOMAIN VerdictOf :
          /\ stepStatus' = [stepStatus EXCEPT ![s] = status]
          /\ seals' = IF w \in fresh /\ status = "verification"
                      THEN [seals EXCEPT ![s] = @ \cup {"approved"}] ELSE seals
          /\ pc[w] = "judging" /\ pc' = [pc EXCEPT ![w] = "reviewed"]
          /\ fresh' = fresh \ {w} /\ commit' = commit
    BY <1>4 DEF ReviewCompletes
  <2>2. w \in fresh /\ status # "checkpoint"
    BY <2>1 DEF SealInv, VerdictOf
  <2>3. stepStatus[s] \in {"review", "cancelled"}
    BY <1>4 DEF ReviewCompletes, PhaseInv, PhaseFits, ReviewHolds, ReviewPcs
  <2>4. \A t \in Steps : /\ stepStatus'[t] = "verification" => "approved" \in seals'[t]
                         /\ stepStatus'[t] = "checkpoint" => seals'[t] = Seal
    BY <2>1, <2>2, <2>3 DEF SealInv
  <2> QED BY <2>1, <2>4 DEF SealInv, CommitIsSealed
<1>5. CASE ReviewFails(w, s)
  <2>1. Unjudged
    BY <1>5 DEF Unjudged, ReviewFails
  <2> QED BY <2>1, UnjudgedIsSealed
<1>6. CASE FinishReviewHandoff(w, s)
  <2>1. Unjudged
    BY <1>6 DEF Unjudged, FinishReviewHandoff
  <2> QED BY <2>1, UnjudgedIsSealed
<1> QED BY <1>1, <1>2, <1>3, <1>4, <1>5, <1>6 DEF Review

LEMMA PlanningSealed ==
  ASSUME TypeOK, SealInv, NEW w \in Coordinators, NEW j \in Jobs, Planning(w, j)
  PROVE  SealInv'
<1> SUFFICES Unjudged
  BY UnjudgedIsSealed
<1> USE DEF TypeOK, Unjudged, Goto, Idle, At, SetStep, stepVars, gitVars, histVars
<1>1. CASE ClaimJob(w, j)
  BY <1>1 DEF ClaimJob
<1>2. CASE PlannerReads(w, j)
  BY <1>2 DEF PlannerReads
<1>3. CASE PlannerHeartbeat(w, j)
  BY <1>3 DEF PlannerHeartbeat
<1>4. CASE PlannerCreatesSteps(w, j)
  BY <1>4 DEF PlannerCreatesSteps, ApplyDecision
<1>5. CASE PlannerRetriesStep(w, j)
  BY <1>5 DEF PlannerRetriesStep, ApplyDecision
<1>6. CASE PlannerSettles(w, j)
  BY <1>6 DEF PlannerSettles, ApplyDecision
<1>7. CASE PlannerDefers(w, j)
  BY <1>7 DEF PlannerDefers
<1>8. CASE PlannerLosesLease(w, j)
  BY <1>8 DEF PlannerLosesLease
<1> QED BY <1>1, <1>2, <1>3, <1>4, <1>5, <1>6, <1>7, <1>8 DEF Planning

\* Verification adds its seal to the approval, and the commit is made of both.
LEMMA OrchestrationSealed ==
  ASSUME TypeOK, PhaseInv, HoldInv, SealInv, NEW w \in Coordinators, NEW s \in Steps,
         Orchestration(w, s)
  PROVE  SealInv'
<1> USE DEF TypeOK, Goto, At, SetStep, stepVars, gitVars, histVars, VerifyPcs, CheckpointPcs
<1>1. CASE ClaimVerification(w, s)
  <2>1. Unjudged
    BY <1>1 DEF Unjudged, ClaimVerification, ClaimOrchestration
  <2> QED BY <2>1, UnjudgedIsSealed
<1>2. CASE StartTests(w, s)
  BY <1>2 DEF StartTests, SealInv, CommitIsSealed
<1>3. CASE RecordVerification(w, s)
  <2>1. PICK stepTo \in {"checkpoint", "changes_requested", "blocked"} :
          /\ stepStatus' = [stepStatus EXCEPT ![s] = stepTo]
          /\ commit' = commit /\ pc' = [pc EXCEPT ![w] = "release_verify"]
          /\ IF stepTo = "checkpoint"
             THEN pc[w] = "testing" /\ seals' = IF w \in fresh
                    THEN [seals EXCEPT ![s] = @ \cup {"verified"}] ELSE seals
             ELSE UNCHANGED seals
    BY <1>3 DEF RecordVerification, RecordPhase
  <2>2. stepStatus[s] = "verification" /\ fresh' = fresh \ {w}
    BY <1>3 DEF RecordVerification, HoldInv, Holds
  <2>3. "approved" \in seals[s] /\ (stepTo = "checkpoint" => w \in fresh)
    BY <2>1, <2>2 DEF SealInv
  <2>4. stepTo = "checkpoint" => seals'[s] = Seal
    BY <2>1, <2>3 DEF Seal
  <2>5. \A t \in Steps : t # s => stepStatus'[t] = stepStatus[t] /\ seals'[t] = seals[t]
    BY <2>1
  <2>6. \A t \in Steps : /\ stepStatus'[t] = "verification" => "approved" \in seals'[t]
                         /\ stepStatus'[t] = "checkpoint" => seals'[t] = Seal
    BY <2>1, <2>4, <2>5 DEF SealInv
  <2> QED BY <2>1, <2>2, <2>6 DEF SealInv, CommitIsSealed
<1>4. CASE ClaimCheckpoint(w, s)
  <2>1. Unjudged
    BY <1>4 DEF Unjudged, ClaimCheckpoint, ClaimOrchestration
  <2> QED BY <2>1, UnjudgedIsSealed
<1>5. CASE FindCheckpoint(w, s)
  <2>1. Unjudged
    BY <1>5 DEF Unjudged, FindCheckpoint
  <2> QED BY <2>1, UnjudgedIsSealed
<1>6. CASE GitCommit(w, s)
  <2>1. seals[s] = Seal
    BY <1>6 DEF GitCommit, HoldInv, Holds, SealInv
  <2>2. /\ commit' = [commit EXCEPT ![s] = seals[s]] /\ UNCHANGED <<stepStatus, seals, fresh>>
        /\ pc' = [pc EXCEPT ![w] = "committed"]
    BY <1>6 DEF GitCommit
  <2> QED BY <2>1, <2>2 DEF SealInv, CommitIsSealed
<1>7. CASE GitRefuses(w, s)
  <2>1. Unjudged
    BY <1>7 DEF Unjudged, GitRefuses
  <2> QED BY <2>1, UnjudgedIsSealed
<1>8. CASE RecordCheckpoint(w, s)
  <2>1. Unjudged
    BY <1>8 DEF Unjudged, RecordCheckpoint, RecordPhase
  <2> QED BY <2>1, UnjudgedIsSealed
<1>9. CASE CompleteSession(w, s)
  <2>1. Unjudged
    BY <1>9 DEF Unjudged, CompleteSession
  <2> QED BY <2>1, UnjudgedIsSealed
<1>10. CASE RecordRefused(w, s)
  <2>1. Unjudged
    BY <1>10 DEF Unjudged, RecordRefused
  <2> QED BY <2>1, UnjudgedIsSealed
<1> QED
  BY <1>1, <1>2, <1>3, <1>4, <1>5, <1>6, <1>7, <1>8, <1>9, <1>10 DEF Orchestration

LEMMA RecoverySealed ==
  ASSUME TypeOK, SealInv, NEW w \in Coordinators, Recovery(w)
  PROVE  SealInv'
<1> SUFFICES Unjudged
  BY UnjudgedIsSealed
<1> USE DEF TypeOK, Unjudged, Goto, stepVars, gitVars, histVars
<1>1. CASE RecoverExpired(w)
  BY <1>1 DEF RecoverExpired
<1>2. CASE RecoverExpiredPlanning(w)
  BY <1>2 DEF RecoverExpiredPlanning
<1>3. CASE \E j \in Jobs : EnforceIterationLimit(w, j)
  BY <1>3 DEF EnforceIterationLimit
<1> QED BY <1>1, <1>2, <1>3 DEF Recovery

LEMMA OperatorSealed ==
  ASSUME TypeOK, SealInv, Steady, NEW j \in Jobs, Operate(j)
  PROVE  SealInv'
<1> SUFFICES Unjudged
  BY UnjudgedIsSealed
<1>0. /\ OperatorLeaves
      /\ ~("pause" \in Operations) /\ ~("cancel" \in Operations) /\ ~("remove" \in Operations)
      /\ ~("planner_cli" \in Operations) /\ ~("rerun_verification" \in Operations)
  BY DEF Operate, Steady
<1> USE <1>0 DEF TypeOK, Unjudged, SetStep, stepVars, gitVars, histVars, OperatorLeaves, StepsOf
<1>2. CASE Resume(j)
  BY <1>2 DEF Resume
<1>6. CASE RetryJob(j)
  BY <1>6 DEF RetryJob
<1>7. CASE RecoverJob(j)
  BY <1>7 DEF RecoverJob
<1>9. CASE RefreshPlanning(j)
  BY <1>9 DEF RefreshPlanning
<1>10. CASE Answer(j)
  BY <1>10 DEF Answer
<1>11. CASE AnswerRequest(j)
  BY <1>11 DEF AnswerRequest
<1> QED BY <1>2, <1>6, <1>7, <1>9, <1>10, <1>11 DEF Operate

LEMMA StepSealed ==
  ASSUME TypeOK, PhaseInv, HoldInv, OneOpenPerTree, SealInv, Steady, [Next]_vars
  PROVE  SealInv'
<1>1. ASSUME NEW w \in Coordinators, Coordinate(w) PROVE SealInv'
  BY <1>1, PlanningSealed, EngineeringSealed, ReviewSealed, OrchestrationSealed, RecoverySealed
  DEF Coordinate
<1>2. ASSUME NEW w \in Coordinators, Heartbeat(w) PROVE Unjudged
  BY <1>2 DEF Heartbeat, Unjudged, stepVars, gitVars, histVars
<1>3. ASSUME NEW w \in Coordinators, Crash(w) PROVE Unjudged
  BY <1>3 DEF Crash, Idle, Goto, TypeOK, Unjudged, stepVars, gitVars
<1>4. CASE Clock
  <2>1. Unjudged
    BY <1>4 DEF Clock, PlannerLeaseLapses, EngineerLeaseLapses, ReviewLeaseLapses,
       VerifierLeaseLapses, LockLapses, ClockLeaves, stepVars, gitVars, histVars, Unjudged
  <2> QED BY <2>1, UnjudgedIsSealed
<1>5. CASE UNCHANGED vars
  <2>1. Unjudged
    BY <1>5 DEF vars, stepVars, gitVars, histVars, Unjudged
  <2> QED BY <2>1, UnjudgedIsSealed
<1> QED BY <1>1, <1>2, <1>3, <1>4, <1>5, OperatorSealed, UnjudgedIsSealed DEF Next

\* Of CommitIsSealed: what a checkpoint commits is what the reviewer approved
\* and the verification tested, also when the coordinator dies at any point and
\* starts again, in trees of one open step. In a shared tree a sibling's edit
\* slips in between (the run edited_after_review).
THEOREM CommitsStaySealed ==
  Steady /\ Spec /\ [](OneOpenPerJob /\ OneOpenPerTree) => []CommitIsSealed
<1>1. Init => SealInv
  BY DEF Init, SealInv, CommitIsSealed
<1>2. SealInv => CommitIsSealed
  BY DEF SealInv
<1>3. CASE ~Steady
  BY <1>3, PTL
<1>4. CASE Steady
  <2> DEFINE Before == TypeOK /\ PhaseInv /\ HoldInv /\ OneOpenPerTree
  <2>1. Before /\ SealInv /\ [Next]_vars => SealInv'
    BY <1>4, StepSealed
  <2>2. ~Stalls
    BY <1>4 DEF Steady
  <2>3. Spec /\ [](OneOpenPerJob /\ OneOpenPerTree) => []Before
    BY <1>4, <2>2, TypesAreKept, PhasesHold, HoldsAreKept, PTL
  <2> HIDE DEF Before
  <2> QED BY <1>1, <1>2, <2>1, <2>3, PTL DEF Spec
<1> QED BY <1>3, <1>4

-----------------------------------------------------------------------------
(* A job that is planned is in nobody else's hands                          *)

\* No operation gives a job back to the planner while a step of it waits for
\* its checkpoint or its planner is at work.
PlanUndisturbed ==
  Operations \cap {"pause", "planner_cli", "retry", "answer", "answer_request"} = {}

\* Nothing is in the coordinators' hands while a planner holds the job, which
\* it does not under a cancelled step; and as the planner's claim does not look
\* for steps in "checkpoint", the label keeps it away from them.
PlanFits(s) ==
  LET j == JobOf[s] IN
  /\ planner[j] # NoOne => stepStatus[s] \notin Active \cup {"checkpoint", "cancelled"}
  /\ stepStatus[s] = "cancelled" => jobStatus[j] = "cancelled"
  /\ stepStatus[s] = "checkpoint" => jobStatus[j] \in {"checkpointing", "cancelled"}

PlanInv ==
  /\ \A s \in Steps : PlanFits(s)
  /\ \A j \in Jobs : jobStatus[j] # "paused"

LEMMA PlanningAlone ==
  ASSUME TypeOK, PlanInv, NEW w \in Coordinators, NEW j \in Jobs, Planning(w, j)
  PROVE  PlanInv'
<1> USE ConstantsAssumption DEF ConstantsAssumption, TypeOK, PlanInv, PlanFits, Active,
        HasActive, StepsOf, SetJob, SetStep, stepVars, jobVars, OwnsPlan, ClearPlanner
<1>1. CASE ClaimJob(w, j)
  BY <1>1 DEF ClaimJob
<1>2. CASE PlannerReads(w, j)
  BY <1>2 DEF PlannerReads
<1>3. CASE PlannerHeartbeat(w, j)
  BY <1>3 DEF PlannerHeartbeat
<1>4. CASE PlannerCreatesSteps(w, j)
  BY <1>4 DEF PlannerCreatesSteps, ApplyDecision
<1>5. CASE PlannerRetriesStep(w, j)
  BY <1>5 DEF PlannerRetriesStep, ApplyDecision
<1>6. CASE PlannerSettles(w, j)
  BY <1>6 DEF PlannerSettles, ApplyDecision
<1>7. CASE PlannerDefers(w, j)
  BY <1>7 DEF PlannerDefers
<1>8. CASE PlannerLosesLease(w, j)
  BY <1>8 DEF PlannerLosesLease
<1> QED BY <1>1, <1>2, <1>3, <1>4, <1>5, <1>6, <1>7, <1>8 DEF Planning

LEMMA EngineeringAlone ==
  ASSUME TypeOK, PhaseInv, OneOpenPerJob, PlanInv, NEW w \in Coordinators, NEW s \in Steps,
         Engineering(w, s)
  PROVE  PlanInv'
<1> USE ConstantsAssumption DEF ConstantsAssumption, TypeOK, PlanInv, PlanFits, Active,
        OneOpenPerJob, Open, SetJob, SetStep, stepVars, jobVars, At, EngineeringPcs
<1>1. CASE ClaimEngineering(w, s)
  BY <1>1 DEF ClaimEngineering
<1>2. CASE EngineerTurns(w, s)
  BY <1>2 DEF EngineerTurns
<1>3. CASE EngineerActs(w, s)
  BY <1>3 DEF EngineerActs
<1>4. CASE EngineerSeesControl(w, s)
  BY <1>4 DEF EngineerSeesControl
<1>5. CASE EngineerEnds(w, s)
  <2>1. PICK status \in {"queued", "review", "blocked", "failed"} : UpdateStep(w, s, status)
    BY <1>5 DEF EngineerEnds
  <2>2. stepStatus[s] = "running"
    BY <1>5, <2>1 DEF EngineerEnds, UpdateStep, PhaseInv, PhaseFits
  <2> QED BY <2>1, <2>2 DEF UpdateStep
<1>6. CASE EngineerLosesLease(w, s)
  BY <1>6 DEF EngineerLosesLease
<1>7. CASE FinishEngineeringHandoff(w, s)
  <2>1. UNCHANGED <<stepStatus, planner>>
    BY <1>7 DEF FinishEngineeringHandoff
  <2>2. jobStatus' = jobStatus \/
          /\ Open(s) /\ stepStatus[s] \notin {"cancelled", "checkpoint"}
          /\ \E status \in {"reviewing", "blocked", "needs_human", "running"} :
               jobStatus' = [jobStatus EXCEPT ![JobOf[s]] = status]
    BY <1>7 DEF FinishEngineeringHandoff, HandOff, Controlled
  <2>3. ASSUME NEW t \in Steps, stepStatus[t] \in {"cancelled", "checkpoint"}
        PROVE  jobStatus'[JobOf[t]] = jobStatus[JobOf[t]]
    <3>1. Open(s) /\ stepStatus[s] \notin {"cancelled", "checkpoint"} => JobOf[t] # JobOf[s]
      BY <2>3
    <3> QED BY <2>2, <3>1
  <2> QED BY <2>1, <2>2, <2>3
<1>8. CASE InspectTree(w, s)
  BY <1>8 DEF InspectTree
<1>9. CASE AbandonEngineering(w, s)
  <2>1. planner' = planner
    BY <1>9 DEF AbandonEngineering
  <2>2. \/ UNCHANGED <<stepStatus, jobStatus>>
        \/ /\ stepStatus[s] = "running"
           /\ \E stepTo \in {"queued", "blocked"} :
                stepStatus' = [stepStatus EXCEPT ![s] = stepTo]
           /\ \E jobTo \in {"running", "blocked"} :
                jobStatus' = [jobStatus EXCEPT ![JobOf[s]] = jobTo]
    BY <1>9 DEF AbandonEngineering, Abandon
  <2>3. ASSUME NEW t \in Steps, stepStatus'[t] \in {"cancelled", "checkpoint"}
        PROVE  stepStatus'[t] = stepStatus[t] /\ jobStatus'[JobOf[t]] = jobStatus[JobOf[t]]
    <3>1. stepStatus'[t] = stepStatus[t]
      BY <2>2, <2>3
    <3>2. stepStatus[s] = "running" => JobOf[t] # JobOf[s]
      BY <2>3, <3>1
    <3> QED BY <2>2, <3>1, <3>2
  <2> QED BY <2>1, <2>2, <2>3
<1>10. CASE ReleasePhase(w, s)
  BY <1>10 DEF ReleasePhase
<1> QED BY <1>1, <1>2, <1>3, <1>4, <1>5, <1>6, <1>7, <1>8, <1>9, <1>10 DEF Engineering

LEMMA ReviewAlone ==
  ASSUME TypeOK, PhaseInv, OneOpenPerJob, PlanInv, NEW w \in Coordinators, NEW s \in Steps,
         Review(w, s)
  PROVE  PlanInv'
<1> USE ConstantsAssumption DEF ConstantsAssumption, TypeOK, PlanInv, PlanFits, Active,
        OneOpenPerJob, Open, SetJob, SetStep, stepVars, jobVars, At
<1>1. CASE NextReviewStep(w, s)
  BY <1>1 DEF NextReviewStep
<1>2. CASE ClaimReview(w, s)
  BY <1>2 DEF ClaimReview
<1>3. CASE CollectEvidence(w, s)
  BY <1>3 DEF CollectEvidence
<1>4. CASE ReviewCompletes(w, s)
  <2>1. stepStatus[s] \in {"review", "cancelled"} /\ planner' = planner
    BY <1>4 DEF ReviewCompletes, PhaseInv, PhaseFits, ReviewHolds, ReviewPcs
  <2>2. \E status \in {"verification", "changes_requested", "needs_human", "blocked"} :
          stepStatus' = [stepStatus EXCEPT ![s] = status]
    BY <1>4 DEF ReviewCompletes, VerdictOf
  <2>3. jobStatus' = jobStatus \/ jobStatus' = [jobStatus EXCEPT ![JobOf[s]] = "needs_human"]
    BY <1>4 DEF ReviewCompletes
  <2>4. ASSUME NEW t \in Steps, t # s, JobOf[t] = JobOf[s]
        PROVE  stepStatus[t] \in {"absent", "complete"}
    BY <2>1, <2>4
  <2>5. ASSUME NEW t \in Steps PROVE PlanFits(t)'
    <3>1. CASE t = s
      BY <2>1, <2>2, <3>1
    <3>2. CASE t # s
      BY <2>1, <2>2, <2>3, <2>4, <3>2
    <3> QED BY <3>1, <3>2
  <2> QED BY <2>3, <2>5
<1>5. CASE ReviewFails(w, s)
  BY <1>5 DEF ReviewFails, PhaseInv, PhaseFits, ReviewHolds
<1>6. CASE FinishReviewHandoff(w, s)
  <2>1. UNCHANGED <<stepStatus, planner>>
    BY <1>6 DEF FinishReviewHandoff
  <2>2. jobStatus' = jobStatus \/
          /\ Open(s) /\ stepStatus[s] \notin {"cancelled", "checkpoint"}
          /\ \E status \in {"verifying", "blocked", "needs_human", "running"} :
               jobStatus' = [jobStatus EXCEPT ![JobOf[s]] = status]
    BY <1>6 DEF FinishReviewHandoff, HandOff, Controlled
  <2>3. ASSUME NEW t \in Steps, stepStatus[t] \in {"cancelled", "checkpoint"}
        PROVE  jobStatus'[JobOf[t]] = jobStatus[JobOf[t]]
    <3>1. Open(s) /\ stepStatus[s] \notin {"cancelled", "checkpoint"} => JobOf[t] # JobOf[s]
      BY <2>3
    <3> QED BY <2>2, <3>1
  <2> QED BY <2>1, <2>2, <2>3
<1> QED BY <1>1, <1>2, <1>3, <1>4, <1>5, <1>6 DEF Review

LEMMA OrchestrationAlone ==
  ASSUME TypeOK, PhaseInv, OneOpenPerJob, PlanInv, NEW w \in Coordinators, NEW s \in Steps,
         Orchestration(w, s)
  PROVE  PlanInv'
<1> USE ConstantsAssumption DEF ConstantsAssumption, TypeOK, PlanInv, PlanFits, Active,
        OneOpenPerJob, Open, SetJob, SetStep, stepVars, jobVars, At
<1>1. CASE ClaimVerification(w, s)
  BY <1>1 DEF ClaimVerification, ClaimOrchestration
<1>2. CASE StartTests(w, s)
  BY <1>2 DEF StartTests
<1>3. CASE RecordVerification(w, s)
  <2>1. PICK stepTo \in {"checkpoint", "changes_requested", "blocked"},
             jobTo \in {"checkpointing", "running", "blocked"} :
          /\ RecordPhase(w, s, stepTo, jobTo, "release_verify")
          /\ stepTo = "checkpoint" => jobTo = "checkpointing"
    BY <1>3 DEF RecordVerification
  <2>2. stepStatus[s] = "verification"
    BY <1>3, <2>1 DEF RecordVerification, RecordPhase, PhaseInv, PhaseFits, VerifyPcs
  <2> QED BY <2>1, <2>2 DEF RecordPhase, HandOff, Controlled
<1>4. CASE ClaimCheckpoint(w, s)
  BY <1>4 DEF ClaimCheckpoint, ClaimOrchestration
<1>5. CASE FindCheckpoint(w, s)
  BY <1>5 DEF FindCheckpoint
<1>6. CASE GitCommit(w, s)
  BY <1>6 DEF GitCommit
<1>7. CASE GitRefuses(w, s)
  BY <1>7 DEF GitRefuses
<1>8. CASE RecordCheckpoint(w, s)
  <2>1. PICK stepTo \in {"complete", "changes_requested"},
             label \in {"completing", "release_checkpoint"} :
          RecordPhase(w, s, stepTo, "running", label)
    BY <1>8 DEF RecordCheckpoint
  <2>2. stepStatus[s] = "checkpoint"
    BY <1>8, <2>1 DEF RecordCheckpoint, RecordPhase, PhaseInv, PhaseFits, CheckpointPcs
  <2> QED BY <2>1, <2>2 DEF RecordPhase, HandOff, Controlled
<1>9. CASE CompleteSession(w, s)
  BY <1>9 DEF CompleteSession
<1>10. CASE RecordRefused(w, s)
  BY <1>10 DEF RecordRefused
<1> QED
  BY <1>1, <1>2, <1>3, <1>4, <1>5, <1>6, <1>7, <1>8, <1>9, <1>10 DEF Orchestration

LEMMA RecoveryAlone ==
  ASSUME TypeOK, PlanInv, NEW w \in Coordinators, Recovery(w)
  PROVE  PlanInv'
<1> USE ConstantsAssumption DEF ConstantsAssumption, TypeOK, PlanInv, PlanFits, Active,
        HasActive, StepsOf, SetJob, stepVars, jobVars
<1>1. CASE RecoverExpired(w)
  BY <1>1 DEF RecoverExpired
<1>2. CASE RecoverExpiredPlanning(w)
  BY <1>2 DEF RecoverExpiredPlanning
<1>3. CASE \E j \in Jobs : EnforceIterationLimit(w, j)
  BY <1>3 DEF EnforceIterationLimit
<1> QED BY <1>1, <1>2, <1>3 DEF Recovery

LEMMA OperatorAlone ==
  ASSUME TypeOK, OneOpenPerJob, PlanInv, OwnersAreLeased, PlanUndisturbed, NEW j \in Jobs,
         Operate(j)
  PROVE  PlanInv'
<1>0. /\ OperatorLeaves
      /\ ~("pause" \in Operations) /\ ~("planner_cli" \in Operations)
      /\ ~("retry" \in Operations) /\ ~("answer" \in Operations)
      /\ ~("answer_request" \in Operations)
  BY DEF Operate, PlanUndisturbed
<1> USE <1>0, ConstantsAssumption DEF ConstantsAssumption, TypeOK, PlanInv, PlanFits, Active,
        HasActive, OneOpenPerJob, Open, StepsOf, SetJob, SetStep, ClearPlanner, stepVars
<1>2. CASE Resume(j)
  <2>1. /\ jobStatus' = [jobStatus EXCEPT ![j] = "running"]
        /\ planner' = [planner EXCEPT ![j] = NoOne]
        /\ jobStatus[j] \in {"paused", "blocked"}
    BY <1>2 DEF Resume
  <2>2. \/ stepStatus' = stepStatus
        \/ \E s \in Steps : JobOf[s] = j /\ stepStatus' = [stepStatus EXCEPT ![s] = "queued"]
    BY <1>2 DEF Resume
  <2>3. ASSUME NEW t \in Steps, JobOf[t] = j
        PROVE  stepStatus[t] \notin {"cancelled", "checkpoint"}
    BY <2>1, <2>3
  <2> QED BY <2>1, <2>2, <2>3
<1>3. CASE Cancel(j)
  BY <1>3 DEF Cancel, Stop
<1>4. CASE Remove(j)
  BY <1>4 DEF Remove, Stop
<1>7. CASE RecoverJob(j)
  BY <1>7 DEF RecoverJob, OwnersAreLeased
<1>8. CASE RerunVerification(j)
  BY <1>8 DEF RerunVerification
<1>9. CASE RefreshPlanning(j)
  BY <1>9 DEF RefreshPlanning
<1> QED BY <1>2, <1>3, <1>4, <1>7, <1>8, <1>9 DEF Operate

LEMMA StepAlone ==
  ASSUME TypeOK, PhaseInv, OneOpenPerJob, OwnersAreLeased, PlanInv, PlanUndisturbed, [Next]_vars
  PROVE  PlanInv'
<1>1. ASSUME NEW w \in Coordinators, Coordinate(w) PROVE PlanInv'
  BY <1>1, PlanningAlone, EngineeringAlone, ReviewAlone, OrchestrationAlone, RecoveryAlone
  DEF Coordinate
<1>2. CASE UNCHANGED <<stepStatus, jobStatus, planner>>
  BY <1>2 DEF PlanInv, PlanFits
<1>3. ASSUME NEW w \in Coordinators, Heartbeat(w) \/ Crash(w)
      PROVE  UNCHANGED <<stepStatus, jobStatus, planner>>
  BY <1>3 DEF Heartbeat, Crash, stepVars, jobVars
<1>4. Clock => UNCHANGED <<stepStatus, jobStatus, planner>>
  BY DEF Clock, PlannerLeaseLapses, EngineerLeaseLapses, ReviewLeaseLapses, VerifierLeaseLapses,
     LockLapses, ClockLeaves, stepVars
<1>5. UNCHANGED vars => UNCHANGED <<stepStatus, jobStatus, planner>>
  BY DEF vars, stepVars, jobVars
<1> QED BY <1>1, <1>2, <1>3, <1>4, <1>5, OperatorAlone DEF Next

\* Of PlanningIsAlone: while a planner holds a job every step of the job is at
\* rest, for any number of coordinators that die at any point, of planners that
\* lose their lease to another one, and of cancellations, recoveries and reruns
\* of the verification in between.
THEOREM PlanningStaysAlone ==
  ~Stalls /\ PlanUndisturbed /\ Spec /\ []OneOpenPerJob => []PlanningIsAlone
<1>1. Init => PlanInv
  BY ConstantsAssumption DEF ConstantsAssumption, Init, PlanInv, PlanFits
<1>2. TypeOK /\ OwnersAreLeased /\ PlanInv => PlanningIsAlone
  BY DEF TypeOK, OwnersAreLeased, PlanInv, PlanFits, PlanningIsAlone, StepsOf, Active, StepStates
<1>3. CASE Stalls \/ ~PlanUndisturbed
  BY <1>3, PTL
<1>4. CASE ~Stalls /\ PlanUndisturbed
  <2>1. TypeOK /\ PhaseInv /\ OneOpenPerJob /\ OwnersAreLeased /\ PlanInv /\ [Next]_vars => PlanInv'
    BY <1>4, StepAlone
  <2>2. Spec => []PhaseInv
    BY <1>4, PhasesHold, PTL
  <2> QED BY <1>1, <1>2, <2>1, <2>2, TypesAreKept, OwnersStayLeased, PTL DEF Spec
<1> QED BY <1>3, <1>4

-----------------------------------------------------------------------------
(* Where the hypotheses on open steps hold of themselves                    *)

OneStepPerJob == \A s, t \in Steps : JobOf[s] = JobOf[t] => s = t

OneStepPerTree == \A s, t \in Steps : Tree(s) = Tree(t) => s = t

\* A job of one step keeps its tree to itself while it works in it, leaves it
\* clean, commits what was judged and is not planned meanwhile, in every
\* behaviour: the four theorems without an assumption on what happens.
THEOREM SingleStepsAreSafe ==
  ~Stalls /\ OneStepPerJob /\ Spec =>
    /\ Steady => []OneInTree
    /\ Steady /\ ~Crashes => []CompleteIsClean
    /\ Steady /\ OneStepPerTree => []CommitIsSealed
    /\ PlanUndisturbed => []PlanningIsAlone
<1>1. OneStepPerJob => []OneOpenPerJob
  <2> SUFFICES ASSUME OneStepPerJob PROVE []OneOpenPerJob
    OBVIOUS
  <2>1. OneOpenPerJob
    BY DEF OneStepPerJob, OneOpenPerJob
  <2> QED BY <2>1, PTL
<1>2. OneStepPerTree => []OneOpenPerTree
  <2> SUFFICES ASSUME OneStepPerTree PROVE []OneOpenPerTree
    OBVIOUS
  <2>1. OneOpenPerTree
    BY DEF OneStepPerTree, OneOpenPerTree
  <2> QED BY <2>1, PTL
<1> QED BY <1>1, <1>2, TreesStayExclusive, CompleteStaysClean,
           CommitsStaySealed, PlanningStaysAlone, PTL
=============================================================================
