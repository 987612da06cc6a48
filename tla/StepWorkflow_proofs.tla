------------------------- MODULE StepWorkflow_proofs -------------------------
(* Theorems about StepWorkflow, for every value of its constants.           *)
EXTENDS StepWorkflow, FiniteSetTheorems, TLAPS

LEMMA PlanningTypes ==
  ASSUME TypeOK, NEW w \in Coordinators, NEW j \in Jobs, Planning(w, j)
  PROVE  TypeOK'
<1> USE ConstantsAssumption DEF ConstantsAssumption, TypeOK, Lease, JobStates, StepStates,
        PlanningPcs, Goto, Idle, At, SetJob, SetStep, ClearPlanner,
        stepVars, ownVars, engVars, revVars, verVars, lockVars, gitVars, histVars
<1>1. CASE ClaimJob(w, j)
  BY <1>1 DEF ClaimJob
<1>2. CASE PlannerReads(w, j)
  BY <1>2 DEF PlannerReads, jobVars
<1>3. CASE PlannerHeartbeat(w, j)
  BY <1>3 DEF PlannerHeartbeat
<1>4. CASE PlannerCreatesSteps(w, j)
  BY <1>4 DEF PlannerCreatesSteps, ApplyDecision, StepsOf
<1>5. CASE PlannerRetriesStep(w, j)
  BY <1>5 DEF PlannerRetriesStep, ApplyDecision, StepsOf
<1>6. CASE PlannerSettles(w, j)
  BY <1>6 DEF PlannerSettles, ApplyDecision
<1>7. CASE PlannerDefers(w, j)
  BY <1>7 DEF PlannerDefers
<1>8. CASE PlannerLosesLease(w, j)
  BY <1>8 DEF PlannerLosesLease, jobVars
<1> QED BY <1>1, <1>2, <1>3, <1>4, <1>5, <1>6, <1>7, <1>8 DEF Planning

LEMMA EngineeringTypes ==
  ASSUME TypeOK, NEW w \in Coordinators, NEW s \in Steps, Engineering(w, s)
  PROVE  TypeOK'
<1> USE ConstantsAssumption DEF ConstantsAssumption, TypeOK, Lease, JobStates, StepStates,
        Goto, Idle, At, SetJob, SetStep, jobVars, stepVars, ownVars, engVars, revVars,
        verVars, lockVars, gitVars, histVars, StepPcs, EngineeringPcs, ReviewPcs, VerifyPcs,
        CheckpointPcs
<1>1. CASE ClaimEngineering(w, s)
  BY <1>1 DEF ClaimEngineering, AcquireLock, StartHeartbeat, LockOwners, Phases, Tree
<1>2. CASE EngineerTurns(w, s)
  BY <1>2 DEF EngineerTurns
<1>3. CASE EngineerActs(w, s)
  BY <1>3 DEF EngineerActs, SharingTree
<1>4. CASE EngineerSeesControl(w, s)
  BY <1>4 DEF EngineerSeesControl
<1>5. CASE EngineerEnds(w, s)
  <2>1. PICK status \in {"queued", "review", "blocked", "failed"} : UpdateStep(w, s, status)
    BY <1>5 DEF EngineerEnds
  <2> QED BY <2>1 DEF UpdateStep, StopHeartbeat
<1>6. CASE EngineerLosesLease(w, s)
  BY <1>6 DEF EngineerLosesLease, StopHeartbeat
<1>7. CASE FinishEngineeringHandoff(w, s)
  BY <1>7 DEF FinishEngineeringHandoff, HandOff
<1>8. CASE InspectTree(w, s)
  BY SMTT(30), <1>8 DEF InspectTree
<1>9. CASE AbandonEngineering(w, s)
  <2>1. PICK stepTo \in {"queued", "blocked"}, jobTo \in {"running", "blocked"} :
          Abandon(s, stepTo, jobTo)
    BY <1>9 DEF AbandonEngineering
  <2>2. stepStatus' \in [Steps -> StepStates] /\ jobStatus' \in [Jobs -> JobStates]
    BY SMTT(30), <2>1 DEF Abandon
  <2>3. /\ engineer' \in [Steps -> Coordinators \cup {NoOne}]
        /\ engineerLease' \in [Steps -> Lease]
    BY <2>1 DEF Abandon
  <2>4. /\ pc' \in [Coordinators -> StepPcs \cup PlanningPcs \cup {"idle"}]
        /\ task' \in [Coordinators -> Steps \cup Jobs \cup {NoOne}]
    BY SMTT(30), <1>9 DEF AbandonEngineering
  <2> QED BY <1>9, <2>2, <2>3, <2>4 DEF AbandonEngineering
<1>10. CASE ReleasePhase(w, s)
  BY <1>10 DEF ReleasePhase, ReleaseLock, Tree
<1> QED BY <1>1, <1>2, <1>3, <1>4, <1>5, <1>6, <1>7, <1>8, <1>9, <1>10 DEF Engineering

LEMMA ReviewTypes ==
  ASSUME TypeOK, NEW w \in Coordinators, NEW s \in Steps, Review(w, s)
  PROVE  TypeOK'
<1> USE ConstantsAssumption DEF ConstantsAssumption, TypeOK, Lease, JobStates, StepStates,
        Goto, Idle, At, SetJob, SetStep, jobVars, stepVars, ownVars, engVars, revVars,
        verVars, lockVars, gitVars, histVars, StepPcs, EngineeringPcs, ReviewPcs, VerifyPcs,
        CheckpointPcs
<1>1. CASE NextReviewStep(w, s)
  BY <1>1 DEF NextReviewStep
<1>2. CASE ClaimReview(w, s)
  <2>1. CASE Reviewable(s)
    BY SMTT(30), <1>2, <2>1 DEF ClaimReview, StartHeartbeat
  <2>2. CASE ~Reviewable(s)
    BY <1>2, <2>2 DEF ClaimReview
  <2> QED BY <2>1, <2>2
<1>3. CASE CollectEvidence(w, s)
  BY <1>3 DEF CollectEvidence
<1>4. CASE ReviewCompletes(w, s)
  <2>1. /\ stepStatus' \in [Steps -> StepStates]
        /\ approval' \in [Steps -> BOOLEAN]
    BY <1>4 DEF ReviewCompletes, VerdictOf
  <2>2. jobStatus' \in [Jobs -> JobStates]
    BY SMTT(30), <1>4 DEF ReviewCompletes
  <2>3. seals' \in [Steps -> SUBSET Seal] /\ fresh' \in SUBSET Coordinators
    BY <1>4 DEF ReviewCompletes, Seal
  <2> QED BY <1>4, <2>1, <2>2, <2>3 DEF ReviewCompletes, StopHeartbeat
<1>5. CASE ReviewFails(w, s)
  <2>1. /\ reviewer' \in [Steps -> Coordinators \cup {NoOne}]
        /\ reviewLease' \in [Steps -> Lease]
    BY <1>5 DEF ReviewFails
  <2>2. jobStatus' \in [Jobs -> JobStates]
    BY <1>5 DEF ReviewFails
  <2>3. /\ pc' = [pc EXCEPT ![w] = "idle"] /\ task' = [task EXCEPT ![w] = NoOne]
        /\ beating' = beating \ {w} /\ fresh' = fresh \ {w}
        /\ UNCHANGED <<planner, plannerLease, iterations, stepVars, engVars, verVars, lockVars,
                       gitVars, seals>>
    BY <1>5 DEF ReviewFails, StopHeartbeat
  <2> QED BY <2>1, <2>2, <2>3
<1>6. CASE FinishReviewHandoff(w, s)
  BY <1>6 DEF FinishReviewHandoff, HandOff
<1> QED BY <1>1, <1>2, <1>3, <1>4, <1>5, <1>6 DEF Review

LEMMA ClaimOrchestrationTypes ==
  ASSUME TypeOK, NEW w \in Coordinators, NEW s \in Steps, NEW stepIs, NEW jobIn,
         NEW jobTo \in JobStates, NEW phase \in Phases, NEW label \in StepPcs,
         ClaimOrchestration(w, s, stepIs, jobIn, jobTo, phase, label)
  PROVE  TypeOK'
<1> DEFINE r == RepositoryOf[s]
           owner == <<w, phase, s>>
<1>1. r \in Repositories /\ owner \in LockOwners
  BY ConstantsAssumption DEF ConstantsAssumption, LockOwners
<1>2. /\ lockOwner' = [lockOwner EXCEPT ![r] = owner]
      /\ lockLease' = [lockLease EXCEPT ![r] = "live"]
  BY DEF ClaimOrchestration, AcquireLock, Tree
<1> HIDE DEF r, owner
<1>3. /\ lockOwner' \in [Repositories -> LockOwners \cup {NoOne}]
      /\ lockLease' \in [Repositories -> Lease]
  BY <1>1, <1>2 DEF TypeOK, Lease
<1>4. /\ pc' \in [Coordinators -> StepPcs \cup PlanningPcs \cup {"idle"}]
      /\ task' \in [Coordinators -> Steps \cup Jobs \cup {NoOne}]
      /\ jobStatus' \in [Jobs -> JobStates]
  BY ConstantsAssumption DEF ClaimOrchestration, Goto, SetJob, ConstantsAssumption, TypeOK
<1> QED
  BY <1>3, <1>4
  DEF ClaimOrchestration, StartHeartbeat, TypeOK, Lease, stepVars, engVars, revVars, gitVars,
      histVars

LEMMA OrchestrationTypes ==
  ASSUME TypeOK, NEW w \in Coordinators, NEW s \in Steps, Orchestration(w, s)
  PROVE  TypeOK'
<1> USE ConstantsAssumption DEF ConstantsAssumption, TypeOK, Lease, JobStates, StepStates,
        Goto, Idle, At, SetJob, SetStep, jobVars, stepVars, ownVars, engVars, revVars,
        verVars, lockVars, gitVars, histVars, StepPcs, EngineeringPcs, ReviewPcs, VerifyPcs,
        CheckpointPcs
<1>1. CASE ClaimVerification(w, s)
  BY <1>1, ClaimOrchestrationTypes DEF ClaimVerification, Phases
<1>2. CASE StartTests(w, s)
  BY <1>2 DEF StartTests
<1>3. CASE RecordVerification(w, s)
  <2>1. PICK stepTo \in {"checkpoint", "changes_requested", "blocked"},
             jobTo \in {"checkpointing", "running", "blocked"} :
          RecordPhase(w, s, stepTo, jobTo, "release_verify")
    BY <1>3 DEF RecordVerification
  <2>2. seals' \in [Steps -> SUBSET Seal] /\ fresh' \in SUBSET Coordinators
    BY <1>3 DEF RecordVerification, Seal
  <2>3. jobStatus' \in [Jobs -> JobStates]
    BY <2>1 DEF RecordPhase, HandOff
  <2> QED BY <2>1, <2>2, <2>3 DEF RecordPhase, StopHeartbeat
<1>4. CASE ClaimCheckpoint(w, s)
  BY <1>4, ClaimOrchestrationTypes DEF ClaimCheckpoint, Phases
<1>5. CASE FindCheckpoint(w, s)
  BY <1>5 DEF FindCheckpoint
<1>6. CASE GitCommit(w, s)
  BY <1>6 DEF GitCommit
<1>7. CASE GitRefuses(w, s)
  BY <1>7 DEF GitRefuses
<1>8. CASE RecordCheckpoint(w, s)
  <2>1. PICK stepTo \in {"complete", "changes_requested"},
             label \in {"completing", "release_checkpoint"} :
          RecordPhase(w, s, stepTo, "running", label)
    BY <1>8 DEF RecordCheckpoint
  <2>2. seals' \in [Steps -> SUBSET Seal] /\ fresh' \in SUBSET Coordinators
    BY <1>8 DEF RecordCheckpoint
  <2>3. jobStatus' \in [Jobs -> JobStates]
    BY <2>1 DEF RecordPhase, HandOff
  <2> QED BY <2>1, <2>2, <2>3 DEF RecordPhase, StopHeartbeat
<1>9. CASE CompleteSession(w, s)
  BY <1>9 DEF CompleteSession
<1>10. CASE RecordRefused(w, s)
  BY <1>10 DEF RecordRefused, StopHeartbeat
<1> QED BY <1>1, <1>2, <1>3, <1>4, <1>5, <1>6, <1>7, <1>8, <1>9, <1>10 DEF Orchestration

LEMMA RecoveryTypes ==
  ASSUME TypeOK, NEW w \in Coordinators, Recovery(w)
  PROVE  TypeOK'
<1> USE ConstantsAssumption DEF ConstantsAssumption, TypeOK, Lease, JobStates, StepStates,
        Goto, Idle, At, SetJob, SetStep, jobVars, stepVars, ownVars, engVars, revVars,
        verVars, lockVars, gitVars, histVars, StepPcs, EngineeringPcs, ReviewPcs, VerifyPcs,
        CheckpointPcs
<1>1. CASE RecoverExpired(w)
  BY <1>1 DEF RecoverExpired
<1>2. CASE RecoverExpiredPlanning(w)
  BY <1>2 DEF RecoverExpiredPlanning
<1>3. CASE \E j \in Jobs : EnforceIterationLimit(w, j)
  BY <1>3 DEF EnforceIterationLimit
<1> QED BY <1>1, <1>2, <1>3 DEF Recovery

LEMMA OperatorTypes ==
  ASSUME TypeOK, NEW j \in Jobs, Operate(j)
  PROVE  TypeOK'
<1>0. OperatorLeaves  BY DEF Operate
<1> USE <1>0, ConstantsAssumption DEF ConstantsAssumption, TypeOK, Lease, JobStates, StepStates,
        Goto, Idle, At, SetJob, SetStep, jobVars, stepVars, ownVars, engVars, revVars,
        verVars, lockVars, gitVars, histVars,
        ClearPlanner, OperatorLeaves
<1>1. CASE Pause(j)
  BY <1>1 DEF Pause
<1>2. CASE Resume(j)
  BY <1>2 DEF Resume, StepsOf, ClearOwners
<1>3. CASE Cancel(j)
  BY <1>3 DEF Cancel, Stop, ClearOwners
<1>4. CASE Remove(j)
  BY <1>4 DEF Remove, Stop, ClearOwners
<1>5. CASE PlannerCli(j)
  BY <1>5 DEF PlannerCli
<1>6. CASE RetryJob(j)
  BY <1>6 DEF RetryJob
<1>7. CASE RecoverJob(j)
  BY SMTT(30), <1>7 DEF RecoverJob
<1>8. CASE RerunVerification(j)
  BY <1>8 DEF RerunVerification, StepsOf
<1>9. CASE RefreshPlanning(j)
  BY <1>9 DEF RefreshPlanning
<1>10. CASE Answer(j)
  BY <1>10 DEF Answer
<1>11. CASE AnswerRequest(j)
  BY <1>11 DEF AnswerRequest, StepsOf
<1> QED BY <1>1, <1>2, <1>3, <1>4, <1>5, <1>6, <1>7, <1>8, <1>9, <1>10, <1>11 DEF Operate

LEMMA ClockTypes ==
  ASSUME TypeOK, Clock
  PROVE  TypeOK'
<1> USE ConstantsAssumption DEF ConstantsAssumption, TypeOK, Lease, JobStates, StepStates,
        Goto, Idle, At, SetJob, SetStep, jobVars, stepVars, ownVars, engVars, revVars,
        verVars, lockVars, gitVars, histVars, ClockLeaves
<1>1. CASE \E j \in Jobs : PlannerLeaseLapses(j)
  BY <1>1 DEF PlannerLeaseLapses
<1>2. CASE \E s \in Steps : EngineerLeaseLapses(s)
  BY <1>2 DEF EngineerLeaseLapses
<1>3. CASE \E s \in Steps : ReviewLeaseLapses(s)
  BY <1>3 DEF ReviewLeaseLapses
<1>4. CASE \E s \in Steps : VerifierLeaseLapses(s)
  BY <1>4 DEF VerifierLeaseLapses
<1>5. CASE \E r \in Repositories : LockLapses(r)
  BY <1>5 DEF LockLapses
<1> QED BY <1>1, <1>2, <1>3, <1>4, <1>5 DEF Clock

LEMMA HeartbeatTypes ==
  ASSUME TypeOK, NEW w \in Coordinators, Heartbeat(w)
  PROVE  TypeOK'
<1>1. ASSUME NEW lease, lease \in [Steps -> Lease], NEW s, NEW holds \in BOOLEAN
      PROVE  Renewed(lease, s, holds) \in [Steps -> Lease]
  BY <1>1 DEF Renewed, Lease
<1>2. ASSUME NEW lease, lease \in [Repositories -> Lease], NEW r, NEW holds \in BOOLEAN
      PROVE  Renewed(lease, r, holds) \in [Repositories -> Lease]
  BY <1>2 DEF Renewed, Lease
<1>3. /\ lockLease' \in [Repositories -> Lease]
      /\ engineerLease' \in [Steps -> Lease]
      /\ reviewLease' \in [Steps -> Lease]
      /\ verifierLease' \in [Steps -> Lease]
  BY <1>1, <1>2 DEF Heartbeat, EngineeringLeaseHolds, TypeOK
<1>4. beating' \in SUBSET Coordinators
  BY DEF Heartbeat, StopHeartbeat, TypeOK
<1> QED
  BY <1>3, <1>4 DEF Heartbeat, TypeOK, jobVars, stepVars, gitVars, histVars

LEMMA CrashTypes ==
  ASSUME TypeOK, NEW w \in Coordinators, Crash(w)
  PROVE  TypeOK'
BY DEF Crash, Idle, Goto, StopHeartbeat, TypeOK, jobVars, stepVars, ownVars, engVars, revVars,
   verVars, lockVars, gitVars

\* Every row, lease, lock and coordinator stays within its type, whatever the
\* constants: the labels that the hand-offs write are labels the schema has.
THEOREM TypesAreKept == Spec => []TypeOK
<1>1. Init => TypeOK
  BY ConstantsAssumption DEF Init, TypeOK, ConstantsAssumption, Lease, JobStates, StepStates,
     Seal, NoCommit
<1>2. TypeOK /\ [Next]_vars => TypeOK'
  <2> SUFFICES ASSUME TypeOK, [Next]_vars PROVE TypeOK'
    OBVIOUS
  <2>1. ASSUME NEW w \in Coordinators, Coordinate(w) PROVE TypeOK'
    BY <2>1, PlanningTypes, EngineeringTypes, ReviewTypes, OrchestrationTypes, RecoveryTypes
    DEF Coordinate
  <2>2. CASE UNCHANGED vars
    BY <2>2 DEF vars, jobVars, stepVars, ownVars, engVars, revVars, verVars, lockVars, gitVars,
       histVars, TypeOK
  <2> QED
    BY <2>1, <2>2, HeartbeatTypes, CrashTypes, OperatorTypes, ClockTypes DEF Next
<1> QED BY <1>1, <1>2, PTL DEF Spec

-----------------------------------------------------------------------------
(* Owners and their leases.  The invariant is inductive together with TypeOK. *)

LEMMA PlanningLeases ==
  ASSUME TypeOK, OwnersAreLeased, NEW w \in Coordinators, NEW j \in Jobs, Planning(w, j)
  PROVE  OwnersAreLeased'
<1> USE ConstantsAssumption DEF ConstantsAssumption, OwnersAreLeased, TypeOK, Goto, Idle, SetJob,
        SetStep, jobVars, stepVars, ownVars, engVars, revVars, verVars, lockVars, ClearPlanner
<1>1. CASE ClaimJob(w, j)
  BY <1>1 DEF ClaimJob
<1>2. CASE PlannerReads(w, j)
  BY <1>2 DEF PlannerReads
<1>3. CASE PlannerHeartbeat(w, j)
  BY <1>3 DEF PlannerHeartbeat, OwnsPlan
<1>4. CASE PlannerCreatesSteps(w, j)
  BY <1>4 DEF PlannerCreatesSteps, ApplyDecision
<1>5. CASE PlannerRetriesStep(w, j)
  BY <1>5 DEF PlannerRetriesStep, ApplyDecision, StepsOf
<1>6. CASE PlannerSettles(w, j)
  BY <1>6 DEF PlannerSettles, ApplyDecision
<1>7. CASE PlannerDefers(w, j)
  BY <1>7 DEF PlannerDefers
<1>8. CASE PlannerLosesLease(w, j)
  BY <1>8 DEF PlannerLosesLease
<1> QED BY <1>1, <1>2, <1>3, <1>4, <1>5, <1>6, <1>7, <1>8 DEF Planning

LEMMA EngineeringLeases ==
  ASSUME TypeOK, OwnersAreLeased, NEW w \in Coordinators, NEW s \in Steps, Engineering(w, s)
  PROVE  OwnersAreLeased'
<1> USE ConstantsAssumption DEF ConstantsAssumption, OwnersAreLeased, TypeOK, Goto, Idle, SetJob,
        SetStep, jobVars, stepVars, ownVars, engVars, revVars, verVars, lockVars
<1>1. CASE ClaimEngineering(w, s)
  BY <1>1 DEF ClaimEngineering, AcquireLock, Tree
<1>2. CASE EngineerTurns(w, s)
  BY <1>2 DEF EngineerTurns, EngineeringLeaseHolds
<1>3. CASE EngineerActs(w, s)
  BY <1>3 DEF EngineerActs
<1>4. CASE EngineerSeesControl(w, s)
  BY <1>4 DEF EngineerSeesControl
<1>5. CASE EngineerEnds(w, s)
  BY <1>5 DEF EngineerEnds, UpdateStep
<1>6. CASE EngineerLosesLease(w, s)
  BY <1>6 DEF EngineerLosesLease
<1>7. CASE FinishEngineeringHandoff(w, s)
  BY <1>7 DEF FinishEngineeringHandoff, HandOff
<1>8. CASE InspectTree(w, s)
  BY <1>8 DEF InspectTree
<1>9. CASE AbandonEngineering(w, s)
  BY <1>9 DEF AbandonEngineering, Abandon
<1>10. CASE ReleasePhase(w, s)
  BY <1>10 DEF ReleasePhase, ReleaseLock, Tree
<1> QED BY <1>1, <1>2, <1>3, <1>4, <1>5, <1>6, <1>7, <1>8, <1>9, <1>10 DEF Engineering

LEMMA ReviewLeases ==
  ASSUME TypeOK, OwnersAreLeased, NEW w \in Coordinators, NEW s \in Steps, Review(w, s)
  PROVE  OwnersAreLeased'
<1> USE ConstantsAssumption DEF ConstantsAssumption, OwnersAreLeased, TypeOK, Goto, Idle, SetJob,
        SetStep, jobVars, stepVars, ownVars, engVars, revVars, verVars, lockVars
<1>1. CASE NextReviewStep(w, s)
  BY <1>1 DEF NextReviewStep
<1>2. CASE ClaimReview(w, s)
  BY <1>2 DEF ClaimReview
<1>3. CASE CollectEvidence(w, s)
  BY <1>3 DEF CollectEvidence
<1>4. CASE ReviewCompletes(w, s)
  BY <1>4 DEF ReviewCompletes, VerdictOf
<1>5. CASE ReviewFails(w, s)
  BY <1>5 DEF ReviewFails
<1>6. CASE FinishReviewHandoff(w, s)
  BY <1>6 DEF FinishReviewHandoff, HandOff
<1> QED BY <1>1, <1>2, <1>3, <1>4, <1>5, <1>6 DEF Review

LEMMA OrchestrationLeases ==
  ASSUME TypeOK, OwnersAreLeased, NEW w \in Coordinators, NEW s \in Steps, Orchestration(w, s)
  PROVE  OwnersAreLeased'
<1> USE ConstantsAssumption DEF ConstantsAssumption, OwnersAreLeased, TypeOK, Goto, Idle, SetJob,
        SetStep, jobVars, stepVars, ownVars, engVars, revVars, verVars, lockVars
<1>1. CASE ClaimVerification(w, s)
  BY <1>1 DEF ClaimVerification, ClaimOrchestration, AcquireLock, Tree
<1>2. CASE StartTests(w, s)
  BY <1>2 DEF StartTests
<1>3. CASE RecordVerification(w, s)
  BY <1>3 DEF RecordVerification, RecordPhase, HandOff
<1>4. CASE ClaimCheckpoint(w, s)
  BY <1>4 DEF ClaimCheckpoint, ClaimOrchestration, AcquireLock, Tree
<1>5. CASE FindCheckpoint(w, s)
  BY <1>5 DEF FindCheckpoint
<1>6. CASE GitCommit(w, s)
  BY <1>6 DEF GitCommit
<1>7. CASE GitRefuses(w, s)
  BY <1>7 DEF GitRefuses
<1>8. CASE RecordCheckpoint(w, s)
  BY <1>8 DEF RecordCheckpoint, RecordPhase, HandOff
<1>9. CASE CompleteSession(w, s)
  BY <1>9 DEF CompleteSession
<1>10. CASE RecordRefused(w, s)
  BY <1>10 DEF RecordRefused
<1> QED BY <1>1, <1>2, <1>3, <1>4, <1>5, <1>6, <1>7, <1>8, <1>9, <1>10 DEF Orchestration

LEMMA RecoveryLeases ==
  ASSUME TypeOK, OwnersAreLeased, NEW w \in Coordinators, Recovery(w)
  PROVE  OwnersAreLeased'
<1> USE ConstantsAssumption DEF ConstantsAssumption, OwnersAreLeased, TypeOK, Goto, Idle, SetJob,
        SetStep, jobVars, stepVars, ownVars, engVars, revVars, verVars, lockVars
<1>1. CASE RecoverExpired(w)
  BY <1>1 DEF RecoverExpired
<1>2. CASE RecoverExpiredPlanning(w)
  BY <1>2 DEF RecoverExpiredPlanning
<1>3. CASE \E j \in Jobs : EnforceIterationLimit(w, j)
  BY <1>3 DEF EnforceIterationLimit
<1> QED BY <1>1, <1>2, <1>3 DEF Recovery

LEMMA OperatorLeases ==
  ASSUME TypeOK, OwnersAreLeased, NEW j \in Jobs, Operate(j)
  PROVE  OwnersAreLeased'
<1>0. OperatorLeaves  BY DEF Operate
<1> USE <1>0, ConstantsAssumption DEF ConstantsAssumption, OwnersAreLeased, TypeOK, Goto, Idle, SetJob,
        SetStep, jobVars, stepVars, ownVars, engVars, revVars, verVars, lockVars, ClearPlanner, OperatorLeaves
<1>1. CASE Pause(j)
  BY <1>1 DEF Pause
<1>2. CASE Resume(j)
  BY <1>2 DEF Resume, StepsOf, ClearOwners
<1>3. CASE Cancel(j)
  BY <1>3 DEF Cancel, Stop, StepsOf, ClearOwners
<1>4. CASE Remove(j)
  BY <1>4 DEF Remove, Stop, StepsOf, ClearOwners
<1>5. CASE PlannerCli(j)
  BY <1>5 DEF PlannerCli
<1>6. CASE RetryJob(j)
  BY <1>6 DEF RetryJob, StepsOf
<1>7. CASE RecoverJob(j)
  BY <1>7 DEF RecoverJob
<1>8. CASE RerunVerification(j)
  BY <1>8 DEF RerunVerification, StepsOf
<1>9. CASE RefreshPlanning(j)
  BY <1>9 DEF RefreshPlanning
<1>10. CASE Answer(j)
  BY <1>10 DEF Answer
<1>11. CASE AnswerRequest(j)
  BY <1>11 DEF AnswerRequest, StepsOf
<1> QED BY <1>1, <1>2, <1>3, <1>4, <1>5, <1>6, <1>7, <1>8, <1>9, <1>10, <1>11 DEF Operate

LEMMA ClockLeases ==
  ASSUME TypeOK, OwnersAreLeased, Clock
  PROVE  OwnersAreLeased'
<1> USE ConstantsAssumption DEF ConstantsAssumption, OwnersAreLeased, TypeOK, Goto, Idle, SetJob,
        SetStep, jobVars, stepVars, ownVars, engVars, revVars, verVars, lockVars, ClockLeaves
<1>1. CASE \E j \in Jobs : PlannerLeaseLapses(j)
  BY <1>1 DEF PlannerLeaseLapses
<1>2. CASE \E s \in Steps : EngineerLeaseLapses(s)
  BY <1>2 DEF EngineerLeaseLapses
<1>3. CASE \E s \in Steps : ReviewLeaseLapses(s)
  BY <1>3 DEF ReviewLeaseLapses
<1>4. CASE \E s \in Steps : VerifierLeaseLapses(s)
  BY <1>4 DEF VerifierLeaseLapses
<1>5. CASE \E r \in Repositories : LockLapses(r)
  BY <1>5 DEF LockLapses
<1> QED BY <1>1, <1>2, <1>3, <1>4, <1>5 DEF Clock

LEMMA HeartbeatLeases ==
  ASSUME TypeOK, OwnersAreLeased, NEW w \in Coordinators, Heartbeat(w)
  PROVE  OwnersAreLeased'
BY DEF Heartbeat, Renewed, TypeOK, OwnersAreLeased, jobVars, stepVars

LEMMA CrashLeases ==
  ASSUME OwnersAreLeased, NEW w \in Coordinators, Crash(w)
  PROVE  OwnersAreLeased'
BY DEF Crash, OwnersAreLeased, jobVars, stepVars, ownVars, engVars, revVars, verVars, lockVars

\* No owner without a lease, and no planning job or running step without an
\* owner: whatever crashes, stalls and operations happen, what a dead worker
\* owned is seen to expire.
THEOREM OwnersStayLeased == Spec => []OwnersAreLeased
<1>1. Init => OwnersAreLeased
  BY DEF Init, OwnersAreLeased
<1>2. TypeOK /\ OwnersAreLeased /\ [Next]_vars => OwnersAreLeased'
  <2> SUFFICES ASSUME TypeOK, OwnersAreLeased, [Next]_vars PROVE OwnersAreLeased'
    OBVIOUS
  <2>1. ASSUME NEW w \in Coordinators, Coordinate(w) PROVE OwnersAreLeased'
    BY <2>1, PlanningLeases, EngineeringLeases, ReviewLeases, OrchestrationLeases,
       RecoveryLeases DEF Coordinate
  <2>2. CASE UNCHANGED vars
    BY <2>2 DEF vars, jobVars, stepVars, ownVars, engVars, revVars, verVars, lockVars,
       OwnersAreLeased
  <2> QED
    BY <2>1, <2>2, HeartbeatLeases, CrashLeases, OperatorLeases, ClockLeases DEF Next
<1> QED BY <1>1, <1>2, TypesAreKept, PTL DEF Spec

-----------------------------------------------------------------------------
(* Steps exist before anybody works on them.                                *)

\* A step the planner has not created is in nobody's hands.
StepsExist ==
  \A s \in Steps : stepStatus[s] = "absent" =>
    /\ engineer[s] = NoOne /\ verifier[s] = NoOne
    /\ \A w \in Coordinators : pc[w] \in StepPcs => task[w] # s

\* Every step but the planner's leaves the set of created steps alone, charges
\* no iteration and puts no job into planning.
Uncharged ==
  /\ \A s \in Steps : stepStatus'[s] = "absent" <=> stepStatus[s] = "absent"
  /\ iterations' = iterations
  /\ \A j \in Jobs : jobStatus'[j] = "planning" => jobStatus[j] = "planning"

LEMMA EngineeringExists ==
  ASSUME TypeOK, StepsExist, NEW w \in Coordinators, NEW s \in Steps, Engineering(w, s)
  PROVE  StepsExist' /\ Uncharged
<1> USE ConstantsAssumption DEF TypeOK, StepStates, StepPcs, EngineeringPcs, ReviewPcs, VerifyPcs,
        CheckpointPcs, PlanningPcs, Goto, Idle, At, SetJob, SetStep, jobVars, stepVars, ownVars,
        engVars, revVars, verVars,
        StepsExist, Uncharged
<1>1. CASE ClaimEngineering(w, s)
  BY <1>1 DEF ClaimEngineering
<1>2. CASE EngineerTurns(w, s)
  BY <1>2 DEF EngineerTurns
<1>3. CASE EngineerActs(w, s)
  BY <1>3 DEF EngineerActs
<1>4. CASE EngineerSeesControl(w, s)
  BY <1>4 DEF EngineerSeesControl
<1>5. CASE EngineerEnds(w, s)
  BY <1>5 DEF EngineerEnds, UpdateStep
<1>6. CASE EngineerLosesLease(w, s)
  BY <1>6 DEF EngineerLosesLease
<1>7. CASE FinishEngineeringHandoff(w, s)
  BY <1>7 DEF FinishEngineeringHandoff, HandOff
<1>8. CASE InspectTree(w, s)
  BY <1>8 DEF InspectTree
<1>9. CASE AbandonEngineering(w, s)
  BY <1>9 DEF AbandonEngineering, Abandon
<1>10. CASE ReleasePhase(w, s)
  BY <1>10 DEF ReleasePhase
<1> QED BY <1>1, <1>2, <1>3, <1>4, <1>5, <1>6, <1>7, <1>8, <1>9, <1>10 DEF Engineering

LEMMA ReviewExists ==
  ASSUME TypeOK, StepsExist, NEW w \in Coordinators, NEW s \in Steps, Review(w, s)
  PROVE  StepsExist' /\ Uncharged
<1> USE ConstantsAssumption DEF TypeOK, StepStates, StepPcs, EngineeringPcs, ReviewPcs, VerifyPcs,
        CheckpointPcs, PlanningPcs, Goto, Idle, At, SetJob, SetStep, jobVars, stepVars, ownVars,
        engVars, revVars, verVars,
        StepsExist, Uncharged
<1>1. CASE NextReviewStep(w, s)
  BY <1>1 DEF NextReviewStep
<1>2. CASE ClaimReview(w, s)
  BY <1>2 DEF ClaimReview
<1>3. CASE CollectEvidence(w, s)
  BY <1>3 DEF CollectEvidence
<1>4. CASE ReviewCompletes(w, s)
  BY <1>4 DEF ReviewCompletes, VerdictOf
<1>5. CASE ReviewFails(w, s)
  BY <1>5 DEF ReviewFails
<1>6. CASE FinishReviewHandoff(w, s)
  BY <1>6 DEF FinishReviewHandoff, HandOff
<1> QED BY <1>1, <1>2, <1>3, <1>4, <1>5, <1>6 DEF Review

LEMMA OrchestrationExists ==
  ASSUME TypeOK, StepsExist, NEW w \in Coordinators, NEW s \in Steps, Orchestration(w, s)
  PROVE  StepsExist' /\ Uncharged
<1> USE ConstantsAssumption DEF TypeOK, StepStates, StepPcs, EngineeringPcs, ReviewPcs, VerifyPcs,
        CheckpointPcs, PlanningPcs, Goto, Idle, At, SetJob, SetStep, jobVars, stepVars, ownVars,
        engVars, revVars, verVars,
        StepsExist, Uncharged
<1>1. CASE ClaimVerification(w, s)
  BY <1>1 DEF ClaimVerification, ClaimOrchestration
<1>2. CASE StartTests(w, s)
  BY <1>2 DEF StartTests
<1>3. CASE RecordVerification(w, s)
  BY <1>3 DEF RecordVerification, RecordPhase, HandOff
<1>4. CASE ClaimCheckpoint(w, s)
  BY <1>4 DEF ClaimCheckpoint, ClaimOrchestration
<1>5. CASE FindCheckpoint(w, s)
  BY <1>5 DEF FindCheckpoint
<1>6. CASE GitCommit(w, s)
  BY <1>6 DEF GitCommit
<1>7. CASE GitRefuses(w, s)
  BY <1>7 DEF GitRefuses
<1>8. CASE RecordCheckpoint(w, s)
  BY <1>8 DEF RecordCheckpoint, RecordPhase, HandOff
<1>9. CASE CompleteSession(w, s)
  BY <1>9 DEF CompleteSession
<1>10. CASE RecordRefused(w, s)
  BY <1>10 DEF RecordRefused
<1> QED BY <1>1, <1>2, <1>3, <1>4, <1>5, <1>6, <1>7, <1>8, <1>9, <1>10 DEF Orchestration

LEMMA RecoveryExists ==
  ASSUME TypeOK, StepsExist, NEW w \in Coordinators, Recovery(w)
  PROVE  StepsExist' /\ Uncharged
<1> USE ConstantsAssumption DEF TypeOK, StepStates, StepPcs, EngineeringPcs, ReviewPcs, VerifyPcs,
        CheckpointPcs, PlanningPcs, Goto, Idle, At, SetJob, SetStep, jobVars, stepVars, ownVars,
        engVars, revVars, verVars,
        StepsExist, Uncharged
<1>1. CASE RecoverExpired(w)
  BY SMTT(30), <1>1 DEF RecoverExpired, Stale
<1>2. CASE RecoverExpiredPlanning(w)
  BY <1>2 DEF RecoverExpiredPlanning
<1>3. CASE \E j \in Jobs : EnforceIterationLimit(w, j)
  BY <1>3 DEF EnforceIterationLimit
<1> QED BY <1>1, <1>2, <1>3 DEF Recovery

LEMMA OperatorExists ==
  ASSUME TypeOK, StepsExist, NEW j \in Jobs, Operate(j)
  PROVE  StepsExist' /\ Uncharged
<1>0. OperatorLeaves  BY DEF Operate
<1> USE <1>0, ConstantsAssumption DEF TypeOK, StepStates, StepPcs, EngineeringPcs, ReviewPcs, VerifyPcs,
        CheckpointPcs, PlanningPcs, Goto, Idle, At, SetJob, SetStep, jobVars, stepVars, ownVars,
        engVars, revVars, verVars,
        StepsExist, Uncharged, ClearPlanner, OperatorLeaves
<1>1. CASE Pause(j)
  BY <1>1 DEF Pause
<1>2. CASE Resume(j)
  BY <1>2 DEF Resume, StepsOf, ClearOwners
<1>3. CASE Cancel(j)
  BY <1>3 DEF Cancel, Stop, StepsOf, ClearOwners
<1>4. CASE Remove(j)
  BY <1>4 DEF Remove, Stop, StepsOf, ClearOwners
<1>5. CASE PlannerCli(j)
  BY <1>5 DEF PlannerCli
<1>6. CASE RetryJob(j)
  BY <1>6 DEF RetryJob, StepsOf
<1>7. CASE RecoverJob(j)
  BY <1>7 DEF RecoverJob
<1>8. CASE RerunVerification(j)
  BY <1>8 DEF RerunVerification, StepsOf
<1>9. CASE RefreshPlanning(j)
  BY <1>9 DEF RefreshPlanning
<1>10. CASE Answer(j)
  BY <1>10 DEF Answer
<1>11. CASE AnswerRequest(j)
  BY <1>11 DEF AnswerRequest, StepsOf
<1> QED BY <1>1, <1>2, <1>3, <1>4, <1>5, <1>6, <1>7, <1>8, <1>9, <1>10, <1>11 DEF Operate

LEMMA ClockExists ==
  ASSUME TypeOK, StepsExist, Clock
  PROVE  StepsExist' /\ Uncharged
<1> USE ConstantsAssumption DEF TypeOK, StepStates, StepPcs, EngineeringPcs, ReviewPcs, VerifyPcs,
        CheckpointPcs, PlanningPcs, Goto, Idle, At, SetJob, SetStep, jobVars, stepVars, ownVars,
        engVars, revVars, verVars,
        StepsExist, Uncharged, ClockLeaves
<1>1. CASE \E j \in Jobs : PlannerLeaseLapses(j)
  BY <1>1 DEF PlannerLeaseLapses
<1>2. CASE \E s \in Steps : EngineerLeaseLapses(s)
  BY <1>2 DEF EngineerLeaseLapses
<1>3. CASE \E s \in Steps : ReviewLeaseLapses(s)
  BY <1>3 DEF ReviewLeaseLapses
<1>4. CASE \E s \in Steps : VerifierLeaseLapses(s)
  BY <1>4 DEF VerifierLeaseLapses
<1>5. CASE \E r \in Repositories : LockLapses(r)
  BY <1>5 DEF LockLapses
<1> QED BY <1>1, <1>2, <1>3, <1>4, <1>5 DEF Clock

LEMMA HeartbeatExists ==
  ASSUME StepsExist, NEW w \in Coordinators, Heartbeat(w)
  PROVE  StepsExist' /\ Uncharged
BY DEF Heartbeat, StepsExist, Uncharged, jobVars, stepVars

LEMMA CrashExists ==
  ASSUME TypeOK, StepsExist, NEW w \in Coordinators, Crash(w)
  PROVE  StepsExist' /\ Uncharged
BY ConstantsAssumption
DEF Crash, Idle, Goto, ConstantsAssumption, TypeOK, StepsExist, Uncharged, jobVars, stepVars,
    ownVars, engVars, verVars

LEMMA PlanningExists ==
  ASSUME TypeOK, StepsExist, NEW w \in Coordinators, NEW j \in Jobs, Planning(w, j)
  PROVE  StepsExist'
<1> USE ConstantsAssumption DEF TypeOK, StepStates, StepPcs, EngineeringPcs, ReviewPcs, VerifyPcs,
        CheckpointPcs, PlanningPcs, Goto, Idle, At, SetJob, SetStep, jobVars, stepVars, ownVars,
        engVars, revVars, verVars,
        StepsExist
<1>1. CASE ClaimJob(w, j)
  BY <1>1 DEF ClaimJob
<1>2. CASE PlannerReads(w, j)
  BY <1>2 DEF PlannerReads
<1>3. CASE PlannerHeartbeat(w, j)
  BY <1>3 DEF PlannerHeartbeat
<1>4. CASE PlannerCreatesSteps(w, j)
  BY <1>4 DEF PlannerCreatesSteps, ApplyDecision
<1>5. CASE PlannerRetriesStep(w, j)
  BY <1>5 DEF PlannerRetriesStep, ApplyDecision, StepsOf
<1>6. CASE PlannerSettles(w, j)
  BY <1>6 DEF PlannerSettles, ApplyDecision
<1>7. CASE PlannerDefers(w, j)
  BY <1>7 DEF PlannerDefers
<1>8. CASE PlannerLosesLease(w, j)
  BY <1>8 DEF PlannerLosesLease
<1> QED BY <1>1, <1>2, <1>3, <1>4, <1>5, <1>6, <1>7, <1>8 DEF Planning

-----------------------------------------------------------------------------
(* The budget.  A job in planning has an iteration left to spend, so that   *)
(* the retry and the settling decisions may cost one.                       *)

PlanningIsPaid == \A j \in Jobs : jobStatus[j] = "planning" => iterations[j] < MaxIterations

LEMMA StepsOfFinite ==
  ASSUME NEW j PROVE IsFiniteSet(StepsOf(j)) /\ Cardinality(StepsOf(j)) \in Nat
<1>1. IsFiniteSet(StepsOf(j))
  BY ConstantsAssumption, FS_Subset DEF ConstantsAssumption, StepsOf
<1> QED BY <1>1, FS_CardinalityType

LEMMA UnchargedKeepsBudget ==
  ASSUME BudgetIsKept, PlanningIsPaid, Uncharged
  PROVE  BudgetIsKept' /\ PlanningIsPaid'
<1>1. \A j \in Jobs : StepsOf(j)' = StepsOf(j)
  BY DEF Uncharged, StepsOf
<1> QED BY <1>1 DEF BudgetIsKept, PlanningIsPaid, Uncharged

\* The steps of a package are new, and they are what the job is charged.
LEMMA PackageIsPaid ==
  ASSUME TypeOK, BudgetIsKept, PlanningIsPaid, NEW w \in Coordinators, NEW j \in Jobs,
         PlannerCreatesSteps(w, j)
  PROVE  BudgetIsKept' /\ PlanningIsPaid'
<1>1. PICK package \in SUBSET {s \in Steps : JobOf[s] = j /\ stepStatus[s] = "absent"} :
        /\ Cardinality(package) \in 1..5
        /\ Cardinality(package) <= MaxIterations - iterations[j]
        /\ stepStatus' = [s \in Steps |-> IF s \in package THEN "queued" ELSE stepStatus[s]]
        /\ ApplyDecision(w, j, "running", Cardinality(package))
  BY DEF PlannerCreatesSteps
<1>2. /\ iterations' = [iterations EXCEPT ![j] = @ + Cardinality(package)]
      /\ jobStatus' = [jobStatus EXCEPT ![j] = "running"]
  BY <1>1 DEF ApplyDecision, SetJob
<1>3. \A i \in Jobs \ {j} : StepsOf(i)' = StepsOf(i)
  BY <1>1 DEF StepsOf, TypeOK
<1>4. StepsOf(j)' = StepsOf(j) \cup package /\ StepsOf(j) \cap package = {}
  BY <1>1 DEF StepsOf, TypeOK
<1>5. IsFiniteSet(package)
  BY <1>1, ConstantsAssumption, FS_Subset DEF ConstantsAssumption
<1>6. Cardinality(StepsOf(j)') = Cardinality(StepsOf(j)) + Cardinality(package)
  <2>1. Cardinality(StepsOf(j) \cup package)
          = Cardinality(StepsOf(j)) + Cardinality(package) - Cardinality({})
    BY <1>4, <1>5, StepsOfFinite, FS_Union
  <2> QED BY <1>1, <1>4, <2>1, StepsOfFinite, FS_EmptySet
<1>7. /\ \A i \in Jobs : iterations[i] \in Nat /\ Cardinality(StepsOf(i)) \in Nat
      /\ MaxIterations \in Nat
  BY StepsOfFinite, ConstantsAssumption DEF TypeOK, ConstantsAssumption
<1>8. \A i \in Jobs : /\ Cardinality(StepsOf(i)') <= iterations'[i]
                      /\ iterations'[i] <= MaxIterations
  BY <1>1, <1>2, <1>3, <1>6, <1>7 DEF BudgetIsKept, TypeOK
<1> QED BY <1>2, <1>8 DEF BudgetIsKept, PlanningIsPaid, TypeOK

LEMMA PlanningKeepsBudget ==
  ASSUME TypeOK, BudgetIsKept, PlanningIsPaid, NEW w \in Coordinators, NEW j \in Jobs,
         Planning(w, j)
  PROVE  BudgetIsKept' /\ PlanningIsPaid'
<1> USE DEF SetJob, SetStep, TypeOK, jobVars, stepVars
<1>1. CASE ClaimJob(w, j)
  <2>1. \A i \in Jobs : StepsOf(i)' = StepsOf(i)
    BY <1>1 DEF ClaimJob, StepsOf
  <2> QED BY <1>1, <2>1 DEF ClaimJob, BudgetIsKept, PlanningIsPaid
<1>2. CASE \/ PlannerReads(w, j) \/ PlannerHeartbeat(w, j) \/ PlannerDefers(w, j)
           \/ PlannerLosesLease(w, j)
  <2>1. Uncharged
    BY <1>2 DEF PlannerReads, PlannerHeartbeat, PlannerDefers, PlannerLosesLease, Uncharged
  <2> QED BY <2>1, UnchargedKeepsBudget
<1>3. CASE PlannerCreatesSteps(w, j)
  BY <1>3, PackageIsPaid
<1>4. CASE PlannerRetriesStep(w, j) \/ PlannerSettles(w, j)
  <2>1. PICK status \in {"running", "complete", "blocked", "reviewing"} :
          ApplyDecision(w, j, status, 1)
    BY <1>4 DEF PlannerRetriesStep, PlannerSettles
  <2>2. \A i \in Jobs : StepsOf(i)' = StepsOf(i)
    BY <1>4 DEF PlannerRetriesStep, PlannerSettles, StepsOf
  <2>3. iterations[j] < MaxIterations
    BY <2>1 DEF ApplyDecision, OwnsPlan, PlanningIsPaid
  <2>4. /\ \A i \in Jobs : iterations[i] \in Nat /\ Cardinality(StepsOf(i)) \in Nat
        /\ MaxIterations \in Nat
    BY StepsOfFinite, ConstantsAssumption DEF ConstantsAssumption
  <2>5. /\ iterations' = [iterations EXCEPT ![j] = @ + 1]
        /\ jobStatus' = [jobStatus EXCEPT ![j] = status]
    BY <2>1 DEF ApplyDecision
  <2> QED BY <2>2, <2>3, <2>4, <2>5 DEF BudgetIsKept, PlanningIsPaid
<1> QED BY <1>1, <1>2, <1>3, <1>4 DEF Planning

\* A job never has more steps than it has spent iterations, and never spends
\* more than its ceiling, for every number of jobs, steps and coordinators.
THEOREM BudgetStaysKept == Spec => []BudgetIsKept
<1> DEFINE Budget == BudgetIsKept /\ PlanningIsPaid /\ StepsExist
<1>1. Init => Budget
  <2> SUFFICES ASSUME Init PROVE Budget
    OBVIOUS
  <2>1. \A j \in Jobs : StepsOf(j) = {}
    BY DEF Init, StepsOf
  <2>2. BudgetIsKept
    <3>1. \A j \in Jobs : Cardinality(StepsOf(j)) = 0
      BY <2>1, FS_EmptySet
    <3>2. \A j \in Jobs : iterations[j] = 0 /\ MaxIterations \in Nat
      BY ConstantsAssumption DEF Init, ConstantsAssumption
    <3> QED BY <3>1, <3>2 DEF BudgetIsKept
  <2> QED
    BY <2>2, ConstantsAssumption
    DEF Init, PlanningIsPaid, StepsExist, ConstantsAssumption, StepPcs, EngineeringPcs,
        ReviewPcs, VerifyPcs, CheckpointPcs
<1>2. TypeOK /\ Budget /\ [Next]_vars => Budget'
  <2> SUFFICES ASSUME TypeOK, Budget, [Next]_vars PROVE Budget'
    OBVIOUS
  <2>1. ASSUME NEW w \in Coordinators, Coordinate(w) PROVE Budget'
    BY <2>1, PlanningExists, PlanningKeepsBudget, EngineeringExists, ReviewExists,
       OrchestrationExists, RecoveryExists, UnchargedKeepsBudget DEF Coordinate
  <2>2. CASE UNCHANGED vars
    <3>1. StepsExist' /\ Uncharged
      BY <2>2 DEF vars, jobVars, stepVars, ownVars, engVars, verVars, StepsExist, Uncharged
    <3> QED BY <3>1, UnchargedKeepsBudget
  <2> QED
    BY <2>1, <2>2, HeartbeatExists, CrashExists, OperatorExists, ClockExists,
       UnchargedKeepsBudget DEF Next
<1>3. Budget => BudgetIsKept
  OBVIOUS
<1> QED BY <1>1, <1>2, <1>3, TypesAreKept, PTL DEF Spec

-----------------------------------------------------------------------------
(* A step completes only through its commit.  The record of a checkpoint    *)
(* trusts the coordinator's result, so the invariant says what a result of  *)
(* success stands for.                                                      *)

\* A coordinator that reports a commit has one.
ReportIsTrue ==
  \A w \in Coordinators : pc[w] = "committed" =>
    task[w] \in Steps /\ commit[task[w]] # NoCommit

\* Every action but three completes no step, leaves history alone and brings
\* no coordinator to report a commit.
Uncompleted ==
  /\ commit' = commit
  /\ \A s \in Steps : stepStatus'[s] = "complete" => stepStatus[s] = "complete"
  /\ \A w \in Coordinators : pc'[w] = "committed" => pc[w] = "committed" /\ task'[w] = task[w]

LEMMA UncompletedIsCommitted ==
  ASSUME CompleteIsCommitted, ReportIsTrue, Uncompleted
  PROVE  CompleteIsCommitted' /\ ReportIsTrue'
BY DEF CompleteIsCommitted, ReportIsTrue, Uncompleted

LEMMA PlanningCompletesNone ==
  ASSUME TypeOK, NEW w \in Coordinators, NEW j \in Jobs, Planning(w, j)
  PROVE  Uncompleted
<1> USE ConstantsAssumption DEF TypeOK, Goto, Idle, At, SetJob, SetStep, jobVars, stepVars,
        gitVars, Uncompleted
<1>1. CASE ClaimJob(w, j)
  BY <1>1 DEF ClaimJob
<1>2. CASE PlannerReads(w, j)
  BY <1>2 DEF PlannerReads
<1>3. CASE PlannerHeartbeat(w, j)
  BY <1>3 DEF PlannerHeartbeat
<1>4. CASE PlannerCreatesSteps(w, j)
  BY <1>4 DEF PlannerCreatesSteps, ApplyDecision
<1>5. CASE PlannerRetriesStep(w, j)
  BY <1>5 DEF PlannerRetriesStep, ApplyDecision, StepsOf
<1>6. CASE PlannerSettles(w, j)
  BY <1>6 DEF PlannerSettles, ApplyDecision
<1>7. CASE PlannerDefers(w, j)
  BY <1>7 DEF PlannerDefers
<1>8. CASE PlannerLosesLease(w, j)
  BY <1>8 DEF PlannerLosesLease
<1> QED BY <1>1, <1>2, <1>3, <1>4, <1>5, <1>6, <1>7, <1>8 DEF Planning

LEMMA EngineeringCompletesNone ==
  ASSUME TypeOK, NEW w \in Coordinators, NEW s \in Steps, Engineering(w, s)
  PROVE  Uncompleted
<1> USE ConstantsAssumption DEF TypeOK, Goto, Idle, At, SetJob, SetStep, jobVars, stepVars,
        gitVars, Uncompleted
<1>1. CASE ClaimEngineering(w, s)
  BY <1>1 DEF ClaimEngineering
<1>2. CASE EngineerTurns(w, s)
  BY <1>2 DEF EngineerTurns
<1>3. CASE EngineerActs(w, s)
  BY <1>3 DEF EngineerActs
<1>4. CASE EngineerSeesControl(w, s)
  BY <1>4 DEF EngineerSeesControl
<1>5. CASE EngineerEnds(w, s)
  BY <1>5 DEF EngineerEnds, UpdateStep
<1>6. CASE EngineerLosesLease(w, s)
  BY <1>6 DEF EngineerLosesLease
<1>7. CASE FinishEngineeringHandoff(w, s)
  BY <1>7 DEF FinishEngineeringHandoff, HandOff
<1>8. CASE InspectTree(w, s)
  BY <1>8 DEF InspectTree
<1>9. CASE AbandonEngineering(w, s)
  BY <1>9 DEF AbandonEngineering, Abandon
<1>10. CASE ReleasePhase(w, s)
  BY <1>10 DEF ReleasePhase
<1> QED BY <1>1, <1>2, <1>3, <1>4, <1>5, <1>6, <1>7, <1>8, <1>9, <1>10 DEF Engineering

LEMMA ReviewCompletesNone ==
  ASSUME TypeOK, NEW w \in Coordinators, NEW s \in Steps, Review(w, s)
  PROVE  Uncompleted
<1> USE ConstantsAssumption DEF TypeOK, Goto, Idle, At, SetJob, SetStep, jobVars, stepVars,
        gitVars, Uncompleted
<1>1. CASE NextReviewStep(w, s)
  BY <1>1 DEF NextReviewStep
<1>2. CASE ClaimReview(w, s)
  BY <1>2 DEF ClaimReview
<1>3. CASE CollectEvidence(w, s)
  BY <1>3 DEF CollectEvidence
<1>4. CASE ReviewCompletes(w, s)
  BY <1>4 DEF ReviewCompletes, VerdictOf
<1>5. CASE ReviewFails(w, s)
  BY <1>5 DEF ReviewFails
<1>6. CASE FinishReviewHandoff(w, s)
  BY <1>6 DEF FinishReviewHandoff
<1> QED BY <1>1, <1>2, <1>3, <1>4, <1>5, <1>6 DEF Review

LEMMA RecoveryCompletesNone ==
  ASSUME TypeOK, NEW w \in Coordinators, Recovery(w)
  PROVE  Uncompleted
<1> USE ConstantsAssumption DEF TypeOK, Goto, Idle, At, SetJob, SetStep, jobVars, stepVars,
        gitVars, Uncompleted
<1>1. CASE RecoverExpired(w)
  BY <1>1 DEF RecoverExpired
<1>2. CASE RecoverExpiredPlanning(w)
  BY <1>2 DEF RecoverExpiredPlanning
<1>3. CASE \E j \in Jobs : EnforceIterationLimit(w, j)
  BY <1>3 DEF EnforceIterationLimit
<1> QED BY <1>1, <1>2, <1>3 DEF Recovery

LEMMA OperatorCompletesNone ==
  ASSUME TypeOK, NEW j \in Jobs, Operate(j)
  PROVE  Uncompleted
<1>0. OperatorLeaves  BY DEF Operate
<1> USE <1>0, ConstantsAssumption DEF TypeOK, Goto, Idle, At, SetJob, SetStep, jobVars, stepVars,
        gitVars, Uncompleted, OperatorLeaves
<1>1. CASE Pause(j)
  BY <1>1 DEF Pause
<1>2. CASE Resume(j)
  BY <1>2 DEF Resume, StepsOf
<1>3. CASE Cancel(j)
  BY <1>3 DEF Cancel, Stop
<1>4. CASE Remove(j)
  BY <1>4 DEF Remove, Stop
<1>5. CASE PlannerCli(j)
  BY <1>5 DEF PlannerCli
<1>6. CASE RetryJob(j)
  BY <1>6 DEF RetryJob, StepsOf
<1>7. CASE RecoverJob(j)
  BY <1>7 DEF RecoverJob
<1>8. CASE RerunVerification(j)
  BY <1>8 DEF RerunVerification, StepsOf
<1>9. CASE RefreshPlanning(j)
  BY <1>9 DEF RefreshPlanning
<1>10. CASE Answer(j)
  BY <1>10 DEF Answer
<1>11. CASE AnswerRequest(j)
  BY <1>11 DEF AnswerRequest, StepsOf
<1> QED BY <1>1, <1>2, <1>3, <1>4, <1>5, <1>6, <1>7, <1>8, <1>9, <1>10, <1>11 DEF Operate

LEMMA ClockCompletesNone ==
  ASSUME Clock
  PROVE  Uncompleted
<1>1. ClockLeaves
  BY DEF Clock, PlannerLeaseLapses, EngineerLeaseLapses, ReviewLeaseLapses, VerifierLeaseLapses,
         LockLapses
<1> QED BY <1>1 DEF ClockLeaves, stepVars, gitVars, Uncompleted

LEMMA HeartbeatCompletesNone ==
  ASSUME NEW w \in Coordinators, Heartbeat(w)
  PROVE  Uncompleted
BY DEF Heartbeat, stepVars, gitVars, Uncompleted

LEMMA CrashCompletesNone ==
  ASSUME TypeOK, NEW w \in Coordinators, Crash(w)
  PROVE  Uncompleted
BY DEF Crash, Idle, Goto, TypeOK, stepVars, gitVars, Uncompleted

\* The three exceptions: the marker is found, the commit is made, and the
\* report of a commit completes the step.
LEMMA OrchestrationIsCommitted ==
  ASSUME TypeOK, CompleteIsCommitted, ReportIsTrue,
         NEW w \in Coordinators, NEW s \in Steps, Orchestration(w, s)
  PROVE  CompleteIsCommitted' /\ ReportIsTrue'
<1> USE DEF TypeOK, Goto, Idle, At, SetJob, SetStep, jobVars, stepVars, gitVars
<1>1. CASE ClaimVerification(w, s)
  <2>1. Uncompleted
    BY <1>1 DEF Uncompleted, ClaimVerification, ClaimOrchestration
  <2> QED BY <2>1, UncompletedIsCommitted
<1>2. CASE StartTests(w, s)
  <2>1. Uncompleted
    BY <1>2 DEF Uncompleted, StartTests
  <2> QED BY <2>1, UncompletedIsCommitted
<1>3. CASE RecordVerification(w, s)
  <2>1. Uncompleted
    BY <1>3 DEF Uncompleted, RecordVerification, RecordPhase
  <2> QED BY <2>1, UncompletedIsCommitted
<1>4. CASE ClaimCheckpoint(w, s)
  <2>1. Uncompleted
    BY <1>4 DEF Uncompleted, ClaimCheckpoint, ClaimOrchestration
  <2> QED BY <2>1, UncompletedIsCommitted
<1>5. CASE GitRefuses(w, s)
  <2>1. Uncompleted
    BY <1>5 DEF Uncompleted, GitRefuses
  <2> QED BY <2>1, UncompletedIsCommitted
<1>6. CASE CompleteSession(w, s)
  <2>1. Uncompleted
    BY <1>6 DEF Uncompleted, CompleteSession
  <2> QED BY <2>1, UncompletedIsCommitted
<1>7. CASE RecordRefused(w, s)
  <2>1. Uncompleted
    BY <1>7 DEF Uncompleted, RecordRefused
  <2> QED BY <2>1, UncompletedIsCommitted
<1>8. CASE FindCheckpoint(w, s)
  BY <1>8 DEF FindCheckpoint, CompleteIsCommitted, ReportIsTrue
<1>9. CASE GitCommit(w, s)
  <2>1. seals[s] # NoCommit
    BY DEF Seal, NoCommit
  <2>2. /\ commit' = [commit EXCEPT ![s] = seals[s]]
        /\ stepStatus' = stepStatus
        /\ pc' = [pc EXCEPT ![w] = "committed"]
        /\ task' = [task EXCEPT ![w] = s]
    BY <1>9 DEF GitCommit
  <2> QED BY <2>1, <2>2 DEF CompleteIsCommitted, ReportIsTrue
<1>10. CASE RecordCheckpoint(w, s)
  <2>1. \/ RecordPhase(w, s, "complete", "running", "completing")
        \/ RecordPhase(w, s, "changes_requested", "running", "release_checkpoint")
    BY <1>10 DEF RecordCheckpoint
  <2>2. \/ stepStatus' = [stepStatus EXCEPT ![s] = "changes_requested"]
        \/ stepStatus' = [stepStatus EXCEPT ![s] = "complete"] /\ commit[s] # NoCommit
    BY <1>10 DEF RecordCheckpoint, RecordPhase, ReportIsTrue
  <2>3. /\ commit' = commit
        /\ pc'[w] # "committed"
        /\ \A v \in Coordinators : v # w => pc'[v] = pc[v] /\ task'[v] = task[v]
    BY <2>1 DEF RecordPhase
  <2> QED BY <2>2, <2>3 DEF CompleteIsCommitted, ReportIsTrue
<1> QED BY <1>1, <1>2, <1>3, <1>4, <1>5, <1>6, <1>7, <1>8, <1>9, <1>10 DEF Orchestration

\* A complete step has its commit, for any number of coordinators, whatever
\* crashes, stalls, lost leases and operations happen.
THEOREM CompleteStaysCommitted == Spec => []CompleteIsCommitted
<1> DEFINE Committed == CompleteIsCommitted /\ ReportIsTrue
<1>1. Init => Committed
  BY DEF Init, CompleteIsCommitted, ReportIsTrue
<1>2. TypeOK /\ Committed /\ [Next]_vars => Committed'
  <2> SUFFICES ASSUME TypeOK, Committed, [Next]_vars PROVE Committed'
    OBVIOUS
  <2>1. ASSUME NEW w \in Coordinators, Coordinate(w) PROVE Committed'
    BY <2>1, PlanningCompletesNone, EngineeringCompletesNone, ReviewCompletesNone,
       RecoveryCompletesNone, OrchestrationIsCommitted, UncompletedIsCommitted DEF Coordinate
  <2>2. CASE UNCHANGED vars
    <3>1. Uncompleted
      BY <2>2 DEF vars, stepVars, gitVars, Uncompleted
    <3> QED BY <3>1, UncompletedIsCommitted
  <2> QED
    BY <2>1, <2>2, HeartbeatCompletesNone, CrashCompletesNone, OperatorCompletesNone,
       ClockCompletesNone, UncompletedIsCommitted DEF Next
<1>3. Committed => CompleteIsCommitted
  OBVIOUS
<1> QED BY <1>1, <1>2, <1>3, TypesAreKept, PTL DEF Spec
=============================================================================
