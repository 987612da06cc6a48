--------------------------- MODULE Delivery_proofs ---------------------------
(***************************************************************************)
(* What StepWorkflow delivers, as long as no lease runs out under a        *)
(* heartbeat that still runs (~Stalls): complete steps and complete jobs   *)
(* keep what they stand for, and the workflow implements Delivery.         *)
(***************************************************************************)
EXTENDS StepWorkflow_proofs

-----------------------------------------------------------------------------
(* Who is in a phase, and what the step is then                            *)

\* A review at work is on a step in "review" under its reviewer's live lease,
\* unless an operator has cancelled the step under it.
ReviewHolds(w) ==
  \/ stepStatus[task[w]] = "cancelled"
  \/ /\ stepStatus[task[w]] = "review"
     /\ reviewer[task[w]] = w /\ reviewLease[task[w]] = "live" /\ w \in beating

\* The writes of the other phases are fenced, so they need no lease: whoever
\* is still the owner of the row finds the step as the phase began.
PhaseFits(w) ==
  /\ pc[w] \in ReviewPcs => ReviewHolds(w)
  /\ pc[w] \in EngineeringPcs /\ engineer[task[w]] = w => stepStatus[task[w]] = "running"
  /\ pc[w] \in VerifyPcs /\ verifier[task[w]] = w => stepStatus[task[w]] = "verification"
  /\ pc[w] \in CheckpointPcs /\ verifier[task[w]] = w => stepStatus[task[w]] = "checkpoint"

PhaseInv ==
  /\ \A w \in Coordinators : pc[w] \in StepPcs => task[w] \in Steps
  /\ \A w \in Coordinators : PhaseFits(w)
  /\ \A v, w \in Coordinators :
       pc[v] \in ReviewPcs /\ pc[w] \in ReviewPcs /\ task[v] = task[w] => v = w

\* What is complete stays so, with its verdict.
CompleteStays ==
  \A s \in Steps :
    stepStatus[s] = "complete" => stepStatus'[s] = "complete" /\ approval'[s] = approval[s]

LEMMA EngineeringPhases ==
  ASSUME TypeOK, PhaseInv, NEW w \in Coordinators, NEW s \in Steps, Engineering(w, s)
  PROVE  PhaseInv' /\ CompleteStays
<1> USE ConstantsAssumption DEF ConstantsAssumption, TypeOK, PhaseInv, PhaseFits, ReviewHolds,
        CompleteStays, StepPcs, EngineeringPcs, ReviewPcs, VerifyPcs, CheckpointPcs, Goto, Idle,
        At, SetStep, stepVars, ownVars, engVars, revVars, verVars
<1>1. CASE ClaimEngineering(w, s)
  BY <1>1 DEF ClaimEngineering, StartHeartbeat
<1>2. CASE EngineerTurns(w, s)
  BY <1>2 DEF EngineerTurns, EngineeringLeaseHolds
<1>3. CASE EngineerActs(w, s)
  BY <1>3 DEF EngineerActs
<1>4. CASE EngineerSeesControl(w, s)
  BY <1>4 DEF EngineerSeesControl
<1>5. CASE EngineerEnds(w, s)
  <2>1. PICK status \in {"queued", "review", "blocked", "failed"} :
          UpdateStep(w, s, status) /\ pc[w] \in EngineeringPcs /\ task[w] = s
    BY <1>5 DEF EngineerEnds
  <2> QED BY <2>1 DEF UpdateStep, StopHeartbeat
<1>6. CASE EngineerLosesLease(w, s)
  BY <1>6 DEF EngineerLosesLease, StopHeartbeat
<1>7. CASE FinishEngineeringHandoff(w, s)
  BY <1>7 DEF FinishEngineeringHandoff
<1>8. CASE InspectTree(w, s)
  BY <1>8 DEF InspectTree
<1>9. CASE AbandonEngineering(w, s)
  <2>1. /\ UNCHANGED <<approval, revVars, verVars, beating>> /\ task[w] = s
        /\ \/ UNCHANGED <<stepStatus, engVars>>
           \/ /\ stepStatus[s] = "running" /\ engineer' = [engineer EXCEPT ![s] = NoOne]
              /\ \E status \in {"queued", "blocked"} :
                   stepStatus' = [stepStatus EXCEPT ![s] = status]
    BY <1>9 DEF AbandonEngineering, Abandon
  <2>2. pc'[w] \in {"idle", "release_engineering"}
    BY <1>9 DEF AbandonEngineering
  <2>3. /\ pc'[w] = "release_engineering" => task'[w] = s
        /\ \A v \in Coordinators : v # w => pc'[v] = pc[v] /\ task'[v] = task[v]
    BY <1>9 DEF AbandonEngineering
  <2>4. \A v \in Coordinators : v # w => PhaseFits(v)'
    <3>1. \A v \in Coordinators : v # w => pc'[v] = pc[v] /\ task'[v] = task[v]
      BY <2>3
    <3> QED BY <2>1, <3>1
  <2>5. CompleteStays
    BY <2>1
  <2>6. PhaseFits(w)'
    BY <2>2
  <2>7. /\ \A v \in Coordinators : pc'[v] \in StepPcs => task'[v] \in Steps
        /\ \A v, u \in Coordinators :
             pc'[v] \in ReviewPcs /\ pc'[u] \in ReviewPcs /\ task'[v] = task'[u] => v = u
    BY <2>2, <2>3
  <2> QED BY <2>4, <2>5, <2>6, <2>7
<1>10. CASE ReleasePhase(w, s)
  BY <1>10 DEF ReleasePhase
<1> QED BY <1>1, <1>2, <1>3, <1>4, <1>5, <1>6, <1>7, <1>8, <1>9, <1>10 DEF Engineering

LEMMA ReviewPhases ==
  ASSUME TypeOK, PhaseInv, NEW w \in Coordinators, NEW s \in Steps, Review(w, s)
  PROVE  PhaseInv' /\ CompleteStays
<1> USE ConstantsAssumption DEF ConstantsAssumption, TypeOK, PhaseInv, PhaseFits, ReviewHolds,
        CompleteStays, StepPcs, EngineeringPcs, ReviewPcs, VerifyPcs, CheckpointPcs, Goto, Idle,
        At, SetStep, stepVars, ownVars, engVars, revVars, verVars
<1>1. CASE NextReviewStep(w, s)
  BY <1>1 DEF NextReviewStep
<1>2. CASE ClaimReview(w, s)
  <2>1. CASE Reviewable(s)
    <3>1. /\ stepStatus[s] = "review" /\ reviewLease[s] # "live"
          /\ UNCHANGED <<stepVars, engVars, verVars>>
          /\ reviewer' = [reviewer EXCEPT ![s] = w]
          /\ reviewLease' = [reviewLease EXCEPT ![s] = "live"]
          /\ pc' = [pc EXCEPT ![w] = "collecting"] /\ task' = [task EXCEPT ![w] = s]
          /\ beating' = beating \cup {w} /\ pc[w] = "review_selected"
      BY <1>2, <2>1 DEF ClaimReview, Reviewable, Lapsed, StartHeartbeat
    <3>2. \A v \in Coordinators : v # w /\ pc[v] \in ReviewPcs => task[v] # s
      BY <3>1
    <3> QED BY <3>1, <3>2
  <2>2. CASE ~Reviewable(s)
    BY <1>2, <2>2 DEF ClaimReview
  <2> QED BY <2>1, <2>2
<1>3. CASE CollectEvidence(w, s)
  BY <1>3 DEF CollectEvidence
<1>4. CASE ReviewCompletes(w, s)
  <2>1. PICK status \in DOMAIN VerdictOf :
          /\ stepStatus' = [stepStatus EXCEPT ![s] = status]
          /\ approval' = [approval EXCEPT ![s] = (VerdictOf[status] = "approved")]
          /\ reviewer' = [reviewer EXCEPT ![s] = NoOne]
          /\ reviewLease' = [reviewLease EXCEPT ![s] = "none"]
          /\ UNCHANGED <<engVars, verVars>> /\ beating' = beating \ {w}
          /\ pc' = [pc EXCEPT ![w] = "reviewed"] /\ task' = [task EXCEPT ![w] = s]
          /\ pc[w] = "judging" /\ task[w] = s
    BY <1>4 DEF ReviewCompletes, StopHeartbeat
  <2>2. stepStatus[s] \in {"review", "cancelled"}
    BY <2>1
  <2>3. \A v \in Coordinators : v # w /\ pc[v] \in ReviewPcs => task[v] # s
    BY <2>1
  <2>4. \A v \in Coordinators : v # w => PhaseFits(v)'
    BY <2>1, <2>2, <2>3
  <2>5. CompleteStays
    BY <2>1, <2>2
  <2> QED BY <2>1, <2>4, <2>5
<1>5. CASE ReviewFails(w, s)
  <2>1. /\ UNCHANGED <<stepVars, engVars, verVars>> /\ beating' = beating \ {w}
        /\ pc' = [pc EXCEPT ![w] = "idle"] /\ task' = [task EXCEPT ![w] = NoOne]
        /\ pc[w] \in ReviewPcs /\ task[w] = s
        /\ \A t \in Steps : t # s => reviewer'[t] = reviewer[t] /\ reviewLease'[t] = reviewLease[t]
    BY <1>5 DEF ReviewFails, StopHeartbeat
  <2>2. \A v \in Coordinators : v # w /\ pc[v] \in ReviewPcs => task[v] # s
    BY <2>1
  <2> QED BY <2>1, <2>2
<1>6. CASE FinishReviewHandoff(w, s)
  BY <1>6 DEF FinishReviewHandoff
<1> QED BY <1>1, <1>2, <1>3, <1>4, <1>5, <1>6 DEF Review

LEMMA PlanningPhases ==
  ASSUME TypeOK, PhaseInv, NEW w \in Coordinators, NEW j \in Jobs, Planning(w, j)
  PROVE  PhaseInv' /\ CompleteStays
<1> USE ConstantsAssumption DEF ConstantsAssumption, TypeOK, PhaseInv, PhaseFits, ReviewHolds,
        CompleteStays, StepPcs, EngineeringPcs, ReviewPcs, VerifyPcs, CheckpointPcs, PlanningPcs,
        Goto, Idle, At, SetStep, stepVars, ownVars, engVars, revVars, verVars
<1>1. CASE ClaimJob(w, j)
  BY <1>1 DEF ClaimJob
<1>2. CASE PlannerReads(w, j)
  BY <1>2 DEF PlannerReads
<1>3. CASE PlannerHeartbeat(w, j)
  BY <1>3 DEF PlannerHeartbeat
<1>4. CASE PlannerCreatesSteps(w, j)
  BY <1>4 DEF PlannerCreatesSteps, ApplyDecision
<1>5. CASE PlannerRetriesStep(w, j)
  BY <1>5 DEF PlannerRetriesStep, ApplyDecision, StepsOf
<1>6. CASE PlannerSettles(w, j)
  BY <1>6 DEF PlannerSettles, ApplyDecision
<1>7. CASE PlannerDefers(w, j)
  BY <1>7 DEF PlannerDefers
<1>8. CASE PlannerLosesLease(w, j)
  BY <1>8 DEF PlannerLosesLease
<1> QED BY <1>1, <1>2, <1>3, <1>4, <1>5, <1>6, <1>7, <1>8 DEF Planning

LEMMA RecoveryPhases ==
  ASSUME TypeOK, PhaseInv, NEW w \in Coordinators, Recovery(w)
  PROVE  PhaseInv' /\ CompleteStays
<1> USE ConstantsAssumption DEF ConstantsAssumption, TypeOK, PhaseInv, PhaseFits, ReviewHolds,
        CompleteStays, StepPcs, EngineeringPcs, ReviewPcs, VerifyPcs, CheckpointPcs,
        Goto, Idle, At, SetStep, stepVars, ownVars, engVars, revVars, verVars
<1>1. CASE RecoverExpired(w)
  BY SMTT(60), <1>1 DEF RecoverExpired, Stale
<1>2. CASE RecoverExpiredPlanning(w)
  BY <1>2 DEF RecoverExpiredPlanning
<1>3. CASE \E j \in Jobs : EnforceIterationLimit(w, j)
  BY <1>3 DEF EnforceIterationLimit
<1> QED BY <1>1, <1>2, <1>3 DEF Recovery

\* Without stalls the lease of a review at work does not run out.
LEMMA ClockPhases ==
  ASSUME TypeOK, PhaseInv, ~Stalls, Clock
  PROVE  PhaseInv' /\ CompleteStays
<1> USE ConstantsAssumption DEF ConstantsAssumption, TypeOK, PhaseInv, PhaseFits, ReviewHolds,
        CompleteStays, StepPcs, EngineeringPcs, ReviewPcs, VerifyPcs, CheckpointPcs, ClockLeaves,
        stepVars
<1>1. CASE \E j \in Jobs : PlannerLeaseLapses(j)
  BY <1>1 DEF PlannerLeaseLapses
<1>2. CASE \E s \in Steps : EngineerLeaseLapses(s)
  BY <1>2 DEF EngineerLeaseLapses
<1>3. ASSUME NEW s \in Steps, ReviewLeaseLapses(s) PROVE PhaseInv' /\ CompleteStays
  <2>1. \A v \in Coordinators :
          pc[v] \in ReviewPcs /\ task[v] = s => ~(reviewer[s] = v /\ v \in beating)
    BY <1>3 DEF ReviewLeaseLapses, MayLapse, Attended, PcsOf
  <2> QED BY <1>3, <2>1 DEF ReviewLeaseLapses
<1>4. CASE \E s \in Steps : VerifierLeaseLapses(s)
  BY <1>4 DEF VerifierLeaseLapses
<1>5. CASE \E r \in Repositories : LockLapses(r)
  BY <1>5 DEF LockLapses
<1> QED BY <1>1, <1>2, <1>3, <1>4, <1>5 DEF Clock

\* A heartbeat of a review goes on as long as its lease holds.
LEMMA HeartbeatPhases ==
  ASSUME TypeOK, PhaseInv, NEW w \in Coordinators, Heartbeat(w)
  PROVE  PhaseInv' /\ CompleteStays
<1>1. /\ UNCHANGED <<stepStatus, approval, engineer, reviewer, verifier, pc, task>>
      /\ \A s \in Steps : reviewLease[s] = "live" => reviewLease'[s] = "live"
      /\ beating' \in {beating, beating \ {w}}
  BY DEF Heartbeat, Renewed, StopHeartbeat, stepVars, TypeOK
<1>2. pc[w] \in ReviewPcs /\ reviewer[task[w]] = w /\ stepStatus[task[w]] = "review"
        => beating' = beating
  BY DEF Heartbeat, PhaseOf, ReviewPcs, EngineeringPcs, VerifyPcs
<1>3. \A v \in Coordinators : PhaseFits(v)'
  BY <1>1, <1>2 DEF PhaseInv, PhaseFits, ReviewHolds, StepPcs, ReviewPcs
<1> QED BY <1>1, <1>3 DEF PhaseInv, CompleteStays

LEMMA CrashPhases ==
  ASSUME TypeOK, PhaseInv, NEW w \in Coordinators, Crash(w)
  PROVE  PhaseInv' /\ CompleteStays
BY DEF Crash, Idle, Goto, StopHeartbeat, TypeOK, PhaseInv, PhaseFits, ReviewHolds, CompleteStays,
   StepPcs, EngineeringPcs, ReviewPcs, VerifyPcs, CheckpointPcs, stepVars, ownVars, engVars,
   revVars, verVars

\* Verdicts of verification and checkpoint are fenced by the verifier's column:
\* whoever still owns it finds the step in the phase's own status.
LEMMA OrchestrationPhases ==
  ASSUME TypeOK, PhaseInv, NEW w \in Coordinators, NEW s \in Steps, Orchestration(w, s)
  PROVE  PhaseInv' /\ CompleteStays
<1> USE ConstantsAssumption DEF ConstantsAssumption, TypeOK, PhaseInv, PhaseFits, ReviewHolds,
        CompleteStays, StepPcs, EngineeringPcs, ReviewPcs, VerifyPcs, CheckpointPcs, Goto, Idle,
        At, SetStep, stepVars, ownVars, engVars, revVars, verVars
<1>1. CASE ClaimVerification(w, s)
  BY <1>1 DEF ClaimVerification, ClaimOrchestration, StartHeartbeat
<1>2. CASE StartTests(w, s)
  BY <1>2 DEF StartTests
<1>3. CASE RecordVerification(w, s)
  <2>1. PICK stepTo \in {"checkpoint", "changes_requested", "blocked"},
             jobTo \in {"checkpointing", "running", "blocked"} :
          RecordPhase(w, s, stepTo, jobTo, "release_verify")
    BY <1>3 DEF RecordVerification
  <2>2. stepStatus[s] = "verification"
    BY <1>3, <2>1 DEF RecordVerification, RecordPhase
  <2> QED BY <2>1, <2>2 DEF RecordPhase, StopHeartbeat
<1>4. CASE ClaimCheckpoint(w, s)
  BY <1>4 DEF ClaimCheckpoint, ClaimOrchestration, StartHeartbeat
<1>5. CASE FindCheckpoint(w, s)
  BY <1>5 DEF FindCheckpoint
<1>6. CASE GitCommit(w, s)
  BY <1>6 DEF GitCommit
<1>7. CASE GitRefuses(w, s)
  BY <1>7 DEF GitRefuses
<1>8. CASE RecordCheckpoint(w, s)
  <2>1. PICK stepTo \in {"complete", "changes_requested"},
             label \in {"completing", "release_checkpoint"} :
          RecordPhase(w, s, stepTo, "running", label)
    BY <1>8 DEF RecordCheckpoint
  <2>2. stepStatus[s] = "checkpoint"
    BY <1>8, <2>1 DEF RecordCheckpoint, RecordPhase
  <2> QED BY <2>1, <2>2 DEF RecordPhase, StopHeartbeat
<1>9. CASE CompleteSession(w, s)
  BY <1>9 DEF CompleteSession
<1>10. CASE RecordRefused(w, s)
  BY <1>10 DEF RecordRefused, StopHeartbeat
<1> QED BY <1>1, <1>2, <1>3, <1>4, <1>5, <1>6, <1>7, <1>8, <1>9, <1>10 DEF Orchestration

\* An operation that takes a step out of a phase clears the phase's owner, and
\* under a review it can only cancel the step.
LEMMA OperatorPhases ==
  ASSUME TypeOK, PhaseInv, NEW j \in Jobs, Operate(j)
  PROVE  PhaseInv' /\ CompleteStays
<1>0. OperatorLeaves  BY DEF Operate
<1> USE <1>0, ConstantsAssumption DEF ConstantsAssumption, TypeOK, PhaseInv, PhaseFits,
        ReviewHolds, CompleteStays, StepPcs, EngineeringPcs, ReviewPcs, VerifyPcs, CheckpointPcs,
        SetStep, stepVars, ownVars, engVars, revVars, verVars, OperatorLeaves
<1>1. CASE Pause(j)
  BY <1>1 DEF Pause
<1>2. CASE Resume(j)
  BY <1>2 DEF Resume, StepsOf, ClearOwners
<1>3. CASE Cancel(j)
  BY <1>3 DEF Cancel, Stop, ClearOwners
<1>4. CASE Remove(j)
  BY <1>4 DEF Remove, Stop, ClearOwners
<1>5. CASE PlannerCli(j)
  BY <1>5 DEF PlannerCli
<1>6. CASE RetryJob(j)
  BY <1>6 DEF RetryJob, StepsOf
<1>7. CASE RecoverJob(j)
  BY SMTT(30), <1>7 DEF RecoverJob
<1>8. CASE RerunVerification(j)
  BY <1>8 DEF RerunVerification, StepsOf
<1>9. CASE RefreshPlanning(j)
  BY <1>9 DEF RefreshPlanning
<1>10. CASE Answer(j)
  BY <1>10 DEF Answer
<1>11. CASE AnswerRequest(j)
  BY <1>11 DEF AnswerRequest, StepsOf
<1> QED BY <1>1, <1>2, <1>3, <1>4, <1>5, <1>6, <1>7, <1>8, <1>9, <1>10, <1>11 DEF Operate

LEMMA StepPhases ==
  ASSUME TypeOK, PhaseInv, ~Stalls, [Next]_vars
  PROVE  PhaseInv' /\ CompleteStays
<1>1. ASSUME NEW w \in Coordinators, Coordinate(w) PROVE PhaseInv' /\ CompleteStays
  BY <1>1, PlanningPhases, EngineeringPhases, ReviewPhases, OrchestrationPhases, RecoveryPhases
  DEF Coordinate
<1>2. CASE UNCHANGED vars
  BY <1>2 DEF vars, stepVars, ownVars, engVars, revVars, verVars, PhaseInv, PhaseFits,
     ReviewHolds, CompleteStays
<1> QED
  BY <1>1, <1>2, HeartbeatPhases, CrashPhases, OperatorPhases, ClockPhases DEF Next

LEMMA PhasesHold == ~Stalls /\ Spec => []PhaseInv
<1>1. Init => PhaseInv
  BY ConstantsAssumption
  DEF ConstantsAssumption, Init, PhaseInv, PhaseFits, StepPcs, EngineeringPcs, ReviewPcs, VerifyPcs,
      CheckpointPcs
<1>2. ~Stalls /\ TypeOK /\ PhaseInv /\ [Next]_vars => PhaseInv'
  BY StepPhases
<1>3. CASE Stalls
  BY <1>3, PTL
<1>4. CASE ~Stalls
  <2>1. TypeOK /\ PhaseInv /\ [Next]_vars => PhaseInv'
    BY <1>2, <1>4
  <2> QED BY <1>1, <2>1, TypesAreKept, PTL DEF Spec
<1> QED BY <1>3, <1>4

\* Of CompleteIsFinal: a step that was recorded complete never leaves that
\* status, whatever coordinators crash and whatever the operator orders, if
\* no lease runs out under a heartbeat that still runs.  The late verdict of a
\* review and the late outcome of an engineer are the writes that could.
THEOREM CompleteStaysFinal == ~Stalls /\ Spec => CompleteIsFinal
<1>1. CASE Stalls
  BY <1>1, PTL
<1>2. CASE ~Stalls
  <2>1. TypeOK /\ PhaseInv /\ [Next]_vars =>
          [\A s \in Steps : stepStatus[s] = "complete" => stepStatus'[s] = "complete"]_vars
    BY <1>2, StepPhases DEF CompleteStays
  <2>2. Spec => []PhaseInv
    BY <1>2, PhasesHold, PTL
  <2> QED BY <2>1, <2>2, TypesAreKept, PTL DEF Spec, CompleteIsFinal
<1> QED BY <1>1, <1>2

-----------------------------------------------------------------------------
(* Complete jobs.  A planner judges completion before it asks the model; the *)
(* invariant says that the judgement still holds while it owns the plan.     *)

CompletionKnown ==
  \A w \in Coordinators, j \in Jobs :
    pc[w] = "deciding_complete" /\ task[w] = j /\ OwnsPlan(w, j) => CompletionSupported(j)

\* Only a planner completes a job, takes one over or judges completion, and
\* nobody takes a commit out of history.
Unsettled ==
  /\ \A j \in Jobs : jobStatus'[j] = "complete" => jobStatus[j] = "complete"
  /\ \A j \in Jobs : planner'[j] \in {planner[j], NoOne}
  /\ \A w \in Coordinators :
       pc'[w] = "deciding_complete" => pc[w] = "deciding_complete" /\ task'[w] = task[w]
  /\ \A s \in Steps : commit[s] # NoCommit => commit'[s] # NoCommit

LEMMA EngineeringSettlesNone ==
  ASSUME TypeOK, NEW w \in Coordinators, NEW s \in Steps, Engineering(w, s)
  PROVE  Unsettled
<1> USE ConstantsAssumption DEF ConstantsAssumption, TypeOK, Goto, Idle, At, SetJob, jobVars,
        gitVars, Unsettled
<1>1. CASE ClaimEngineering(w, s)
  BY <1>1 DEF ClaimEngineering
<1>2. CASE EngineerTurns(w, s)
  BY <1>2 DEF EngineerTurns
<1>3. CASE EngineerActs(w, s)
  BY <1>3 DEF EngineerActs
<1>4. CASE EngineerSeesControl(w, s)
  BY <1>4 DEF EngineerSeesControl
<1>5. CASE EngineerEnds(w, s)
  BY <1>5 DEF EngineerEnds, UpdateStep
<1>6. CASE EngineerLosesLease(w, s)
  BY <1>6 DEF EngineerLosesLease
<1>7. CASE FinishEngineeringHandoff(w, s)
  BY <1>7 DEF FinishEngineeringHandoff, HandOff
<1>8. CASE InspectTree(w, s)
  BY <1>8 DEF InspectTree
<1>9. CASE AbandonEngineering(w, s)
  BY <1>9 DEF AbandonEngineering, Abandon
<1>10. CASE ReleasePhase(w, s)
  BY <1>10 DEF ReleasePhase
<1> QED BY <1>1, <1>2, <1>3, <1>4, <1>5, <1>6, <1>7, <1>8, <1>9, <1>10 DEF Engineering

LEMMA ReviewSettlesNone ==
  ASSUME TypeOK, NEW w \in Coordinators, NEW s \in Steps, Review(w, s)
  PROVE  Unsettled
<1> USE ConstantsAssumption DEF ConstantsAssumption, TypeOK, Goto, Idle, At, SetJob, jobVars,
        gitVars, Unsettled
<1>1. CASE NextReviewStep(w, s)
  BY <1>1 DEF NextReviewStep
<1>2. CASE ClaimReview(w, s)
  BY <1>2 DEF ClaimReview
<1>3. CASE CollectEvidence(w, s)
  BY <1>3 DEF CollectEvidence
<1>4. CASE ReviewCompletes(w, s)
  BY <1>4 DEF ReviewCompletes
<1>5. CASE ReviewFails(w, s)
  BY <1>5 DEF ReviewFails
<1>6. CASE FinishReviewHandoff(w, s)
  BY <1>6 DEF FinishReviewHandoff, HandOff
<1> QED BY <1>1, <1>2, <1>3, <1>4, <1>5, <1>6 DEF Review

LEMMA OrchestrationSettlesNone ==
  ASSUME TypeOK, NEW w \in Coordinators, NEW s \in Steps, Orchestration(w, s)
  PROVE  Unsettled
<1> USE ConstantsAssumption DEF ConstantsAssumption, TypeOK, Goto, Idle, At, SetJob, jobVars,
        gitVars, Unsettled
<1>1. CASE ClaimVerification(w, s)
  BY <1>1 DEF ClaimVerification, ClaimOrchestration
<1>2. CASE StartTests(w, s)
  BY <1>2 DEF StartTests
<1>3. CASE RecordVerification(w, s)
  <2>1. PICK stepTo \in {"checkpoint", "changes_requested", "blocked"},
             jobTo \in {"checkpointing", "running", "blocked"} :
          RecordPhase(w, s, stepTo, jobTo, "release_verify")
    BY <1>3 DEF RecordVerification
  <2> QED BY <2>1 DEF RecordPhase, HandOff
<1>4. CASE ClaimCheckpoint(w, s)
  BY <1>4 DEF ClaimCheckpoint, ClaimOrchestration
<1>5. CASE FindCheckpoint(w, s)
  BY <1>5 DEF FindCheckpoint
<1>6. CASE GitCommit(w, s)
  <2>1. seals[s] # NoCommit
    BY DEF Seal, NoCommit
  <2>2. /\ commit' = [commit EXCEPT ![s] = seals[s]] /\ UNCHANGED jobVars
        /\ pc' = [pc EXCEPT ![w] = "committed"] /\ task' = [task EXCEPT ![w] = s]
    BY <1>6 DEF GitCommit
  <2> QED BY <2>1, <2>2
<1>7. CASE GitRefuses(w, s)
  BY <1>7 DEF GitRefuses
<1>8. CASE RecordCheckpoint(w, s)
  <2>1. PICK stepTo \in {"complete", "changes_requested"},
             label \in {"completing", "release_checkpoint"} :
          RecordPhase(w, s, stepTo, "running", label)
    BY <1>8 DEF RecordCheckpoint
  <2> QED BY <2>1 DEF RecordPhase, HandOff
<1>9. CASE CompleteSession(w, s)
  BY <1>9 DEF CompleteSession
<1>10. CASE RecordRefused(w, s)
  BY <1>10 DEF RecordRefused
<1> QED BY <1>1, <1>2, <1>3, <1>4, <1>5, <1>6, <1>7, <1>8, <1>9, <1>10 DEF Orchestration

LEMMA RecoverySettlesNone ==
  ASSUME TypeOK, NEW w \in Coordinators, Recovery(w)
  PROVE  Unsettled
<1> USE ConstantsAssumption DEF ConstantsAssumption, TypeOK, Goto, Idle, At, SetJob, jobVars,
        gitVars, Unsettled
<1>1. CASE RecoverExpired(w)
  BY <1>1 DEF RecoverExpired
<1>2. CASE RecoverExpiredPlanning(w)
  BY <1>2 DEF RecoverExpiredPlanning
<1>3. CASE \E j \in Jobs : EnforceIterationLimit(w, j)
  BY <1>3 DEF EnforceIterationLimit
<1> QED BY <1>1, <1>2, <1>3 DEF Recovery

LEMMA OperatorSettlesNone ==
  ASSUME TypeOK, NEW j \in Jobs, Operate(j)
  PROVE  Unsettled
<1>0. OperatorLeaves  BY DEF Operate
<1> USE <1>0 DEF TypeOK, SetJob, ClearPlanner, OperatorLeaves, gitVars, Unsettled
<1>1. CASE Pause(j)
  BY <1>1 DEF Pause
<1>2. CASE Resume(j)
  BY <1>2 DEF Resume
<1>3. CASE Cancel(j)
  BY <1>3 DEF Cancel, Stop
<1>4. CASE Remove(j)
  BY <1>4 DEF Remove, Stop
<1>5. CASE PlannerCli(j)
  BY <1>5 DEF PlannerCli
<1>6. CASE RetryJob(j)
  BY <1>6 DEF RetryJob
<1>7. CASE RecoverJob(j)
  BY <1>7 DEF RecoverJob
<1>8. CASE RerunVerification(j)
  BY <1>8 DEF RerunVerification
<1>9. CASE RefreshPlanning(j)
  BY <1>9 DEF RefreshPlanning
<1>10. CASE Answer(j)
  BY <1>10 DEF Answer
<1>11. CASE AnswerRequest(j)
  BY <1>11 DEF AnswerRequest
<1> QED BY <1>1, <1>2, <1>3, <1>4, <1>5, <1>6, <1>7, <1>8, <1>9, <1>10, <1>11 DEF Operate

LEMMA ClockSettlesNone ==
  ASSUME Clock
  PROVE  Unsettled
<1>1. ClockLeaves
  BY DEF Clock, PlannerLeaseLapses, EngineerLeaseLapses, ReviewLeaseLapses, VerifierLeaseLapses,
         LockLapses
<1> QED BY <1>1 DEF ClockLeaves, gitVars, Unsettled

LEMMA HeartbeatSettlesNone ==
  ASSUME NEW w \in Coordinators, Heartbeat(w)
  PROVE  Unsettled
BY DEF Heartbeat, jobVars, gitVars, Unsettled

LEMMA CrashSettlesNone ==
  ASSUME TypeOK, NEW w \in Coordinators, Crash(w)
  PROVE  Unsettled
BY DEF Crash, Idle, Goto, TypeOK, jobVars, gitVars, Unsettled

LEMMA UnsettledStaysEarned ==
  ASSUME JobCompleteIsEarned, CompletionKnown, CompleteStays, Uncharged, Unsettled,
         NoOne \notin Coordinators
  PROVE  JobCompleteIsEarned' /\ CompletionKnown'
<1>1. \A j \in Jobs : CompletionSupported(j) => CompletionSupported(j)'
  BY DEF CompletionSupported, StepsOf, CompleteStays, Uncharged, Unsettled
<1>2. JobCompleteIsEarned'
  BY DEF JobCompleteIsEarned, StepsOf, CompleteStays, Uncharged, Unsettled
<1>3. CompletionKnown'
  BY <1>1 DEF CompletionKnown, OwnsPlan, Uncharged, Unsettled
<1> QED BY <1>2, <1>3

\* The decision to complete is taken only while the plan is owned, so what was
\* judged before the model was asked still holds.
LEMMA PlanningStaysEarned ==
  ASSUME TypeOK, JobCompleteIsEarned, CompletionKnown, NEW w \in Coordinators, NEW j \in Jobs,
         Planning(w, j)
  PROVE  JobCompleteIsEarned' /\ CompletionKnown'
<1> USE ConstantsAssumption DEF ConstantsAssumption, TypeOK, JobCompleteIsEarned, CompletionKnown,
        CompletionSupported, StepsOf, OwnsPlan, PlanningPcs, Goto, Idle, At, SetJob, SetStep,
        jobVars, stepVars, gitVars, ClearPlanner
<1>1. CASE ClaimJob(w, j)
  BY <1>1 DEF ClaimJob
<1>2. CASE PlannerReads(w, j)
  BY <1>2 DEF PlannerReads
<1>3. CASE PlannerHeartbeat(w, j)
  BY <1>3 DEF PlannerHeartbeat
<1>4. CASE PlannerCreatesSteps(w, j)
  BY <1>4 DEF PlannerCreatesSteps, ApplyDecision
<1>5. CASE PlannerRetriesStep(w, j)
  BY <1>5 DEF PlannerRetriesStep, ApplyDecision
<1>6. CASE PlannerSettles(w, j)
  BY <1>6 DEF PlannerSettles, ApplyDecision
<1>7. CASE PlannerDefers(w, j)
  BY <1>7 DEF PlannerDefers
<1>8. CASE PlannerLosesLease(w, j)
  BY <1>8 DEF PlannerLosesLease
<1> QED BY <1>1, <1>2, <1>3, <1>4, <1>5, <1>6, <1>7, <1>8 DEF Planning

LEMMA StepsStayExisting == Spec => []StepsExist
<1>1. Init => StepsExist
  BY ConstantsAssumption
  DEF Init, StepsExist, ConstantsAssumption, StepPcs, EngineeringPcs, ReviewPcs, VerifyPcs,
      CheckpointPcs
<1>2. TypeOK /\ StepsExist /\ [Next]_vars => StepsExist'
  <2> SUFFICES ASSUME TypeOK, StepsExist, [Next]_vars PROVE StepsExist'
    OBVIOUS
  <2>1. ASSUME NEW w \in Coordinators, Coordinate(w) PROVE StepsExist'
    BY <2>1, PlanningExists, EngineeringExists, ReviewExists, OrchestrationExists,
       RecoveryExists DEF Coordinate
  <2>2. CASE UNCHANGED vars
    BY <2>2 DEF vars, stepVars, ownVars, engVars, verVars, StepsExist
  <2> QED
    BY <2>1, <2>2, HeartbeatExists, CrashExists, OperatorExists, ClockExists DEF Next
<1> QED BY <1>1, <1>2, TypesAreKept, PTL DEF Spec

LEMMA StepStaysEarned ==
  ASSUME TypeOK, StepsExist, PhaseInv, ~Stalls, JobCompleteIsEarned, CompletionKnown, [Next]_vars
  PROVE  JobCompleteIsEarned' /\ CompletionKnown'
<1>1. CompleteStays
  BY StepPhases
<1>2. NoOne \notin Coordinators
  BY ConstantsAssumption DEF ConstantsAssumption
<1>3. CASE \E w \in Coordinators, j \in Jobs : Planning(w, j)
  BY <1>3, PlanningStaysEarned
<1>4. ASSUME Uncharged, Unsettled PROVE JobCompleteIsEarned' /\ CompletionKnown'
  BY <1>1, <1>2, <1>4, UnsettledStaysEarned
<1>5. ASSUME NEW w \in Coordinators, Coordinate(w) PROVE JobCompleteIsEarned' /\ CompletionKnown'
  <2>1. CASE \E s \in Steps : Engineering(w, s)
    BY <2>1, <1>4, EngineeringExists, EngineeringSettlesNone
  <2>2. CASE \E s \in Steps : Review(w, s)
    BY <2>2, <1>4, ReviewExists, ReviewSettlesNone
  <2>3. CASE \E s \in Steps : Orchestration(w, s)
    BY <2>3, <1>4, OrchestrationExists, OrchestrationSettlesNone
  <2>4. CASE Recovery(w)
    BY <2>4, <1>4, RecoveryExists, RecoverySettlesNone
  <2> QED BY <1>3, <1>5, <2>1, <2>2, <2>3, <2>4 DEF Coordinate
<1>6. CASE \E w \in Coordinators : Heartbeat(w) \/ Crash(w)
  BY <1>6, <1>4, HeartbeatExists, HeartbeatSettlesNone, CrashExists, CrashSettlesNone
<1>7. CASE \E j \in Jobs : Operate(j)
  BY <1>7, <1>4, OperatorExists, OperatorSettlesNone
<1>8. CASE Clock
  BY <1>8, <1>4, ClockExists, ClockSettlesNone
<1>9. CASE UNCHANGED vars
  <2>1. Uncharged /\ Unsettled
    BY <1>9 DEF vars, jobVars, stepVars, gitVars, Uncharged, Unsettled
  <2> QED BY <2>1, <1>4
<1> QED BY <1>5, <1>6, <1>7, <1>8, <1>9 DEF Next

\* Of JobCompleteIsEarned: the planner judges whether a job may be complete
\* before it asks the model, and another planner, an operator or a recovery may
\* come in between; still no job is complete but on complete, committed and
\* approved steps, for any number of jobs, steps and coordinators, if no lease
\* runs out under a heartbeat that still runs.
THEOREM JobCompletionStaysEarned == ~Stalls /\ Spec => []JobCompleteIsEarned
<1> DEFINE Earned == JobCompleteIsEarned /\ CompletionKnown
<1>1. Init => Earned
  BY DEF Init, JobCompleteIsEarned, CompletionKnown
<1>2. CASE Stalls
  BY <1>2, PTL
<1>3. CASE ~Stalls
  <2>1. TypeOK /\ StepsExist /\ PhaseInv /\ Earned /\ [Next]_vars => Earned'
    BY <1>3, StepStaysEarned
  <2>2. Spec => []PhaseInv
    BY <1>3, PhasesHold, PTL
  <2>3. Earned => JobCompleteIsEarned
    OBVIOUS
  <2> QED BY <1>1, <2>1, <2>2, <2>3, StepsStayExisting, TypesAreKept, PTL DEF Spec
<1> QED BY <1>2, <1>3

-----------------------------------------------------------------------------
(* The workflow implements Delivery.  The git commit is not fenced by the    *)
(* database, so the invariant says that whoever is about to commit still     *)
(* holds the row and the lock, and that the row still is where it was.       *)

CommitPcs == {"checkpointing", "committing"}

CommitHolds(w) ==
  pc[w] \in CommitPcs =>
    LET s == task[w] IN
    /\ stepStatus[s] = "checkpoint"
    /\ verifier[s] = w /\ verifierLease[s] = "live"
    /\ lockOwner[Tree(s)] = <<w, "checkpoint", s>> /\ lockLease[Tree(s)] = "live"
    /\ w \in beating

CommitsHold == \A w \in Coordinators : CommitHolds(w)

OpenStates == {"queued", "running", "review", "changes_requested", "blocked", "failed",
               "needs_human", "cancelled"}

\* No step comes to another stage.
StageKept ==
  /\ commit' = commit
  /\ \A s \in Steps :
       stepStatus'[s] = stepStatus[s]
         \/ (stepStatus[s] \in OpenStates /\ stepStatus'[s] \in OpenStates)

\* The operations that take a step out of verification or checkpoint under a
\* coordinator that works on it.
Undisturbed == Operations \cap {"cancel", "remove", "rerun_verification"} = {}

LEMMA EngineeringDelivers ==
  ASSUME TypeOK, PhaseInv, CommitsHold, NEW w \in Coordinators, NEW s \in Steps, Engineering(w, s)
  PROVE  CommitsHold' /\ StageKept
<1> USE ConstantsAssumption DEF ConstantsAssumption, TypeOK, PhaseInv, PhaseFits,
        CommitsHold, CommitHolds, CommitPcs, StageKept, OpenStates, Tree, LockOwners,
        StepPcs, EngineeringPcs, ReviewPcs, VerifyPcs, CheckpointPcs, Goto, Idle,
        At, SetStep, stepVars, ownVars, engVars, revVars, verVars, lockVars, gitVars
<1>1. CASE ClaimEngineering(w, s)
  <2>1. /\ stepStatus[s] \in {"queued", "changes_requested"}
        /\ stepStatus' = [stepStatus EXCEPT ![s] = "running"]
        /\ UNCHANGED <<verVars, commit>> /\ beating' = beating \cup {w}
    BY <1>1 DEF ClaimEngineering, StartHeartbeat
  <2>2. pc'[w] = "engineering"
        /\ \A v \in Coordinators : v # w => pc'[v] = pc[v] /\ task'[v] = task[v]
    BY <1>1 DEF ClaimEngineering
  <2>3. \A r \in Repositories :
          lockLease[r] = "live" /\ lockOwner[r] \notin {NoOne, <<w, "engineering", s>>}
            => lockLease'[r] = "live" /\ lockOwner'[r] = lockOwner[r]
    BY <1>1 DEF ClaimEngineering, AcquireLock
  <2>4. ASSUME NEW v \in Coordinators, pc'[v] \in CommitPcs
        PROVE  CommitHolds(v)'
    <3>1. v # w /\ pc[v] \in CommitPcs /\ task'[v] = task[v] /\ task[v] \in Steps
      BY <2>2, <2>4
    <3>2. CommitHolds(v)
      OBVIOUS
    <3>3. /\ <<v, "checkpoint", task[v]>> \in LockOwners
          /\ <<v, "checkpoint", task[v]>> # <<w, "engineering", s>>
      BY <3>1 DEF Phases
    <3>4. RepositoryOf[task[v]] \in Repositories
      BY <3>1
    <3>5. /\ lockOwner[RepositoryOf[task[v]]] = <<v, "checkpoint", task[v]>>
          /\ lockLease[RepositoryOf[task[v]]] = "live"
      BY <3>1, <3>2
    <3>6. /\ lockOwner'[RepositoryOf[task[v]]] = <<v, "checkpoint", task[v]>>
          /\ lockLease'[RepositoryOf[task[v]]] = "live"
      <4>1. lockOwner[RepositoryOf[task[v]]] \notin {NoOne, <<w, "engineering", s>>}
        BY <3>3, <3>5
      <4> QED BY <2>3, <3>4, <3>5, <4>1
    <3>7. stepStatus[task[v]] = "checkpoint" /\ task[v] # s
      BY <2>1, <3>1, <3>2
    <3>8. /\ stepStatus'[task[v]] = "checkpoint"
          /\ verifier'[task[v]] = v /\ verifierLease'[task[v]] = "live" /\ v \in beating'
      BY <2>1, <3>1, <3>2, <3>7
    <3> QED BY <3>1, <3>6, <3>8
  <2>5. StageKept
    BY <2>1
  <2>6. CommitsHold'
    BY ONLY <2>4 DEF CommitsHold, CommitHolds
  <2> QED BY <2>5, <2>6
<1>2. CASE EngineerTurns(w, s)
  BY <1>2 DEF EngineerTurns
<1>3. CASE EngineerActs(w, s)
  BY <1>3 DEF EngineerActs
<1>4. CASE EngineerSeesControl(w, s)
  BY <1>4 DEF EngineerSeesControl
<1>5. CASE EngineerEnds(w, s)
  BY <1>5 DEF EngineerEnds, UpdateStep, StopHeartbeat
<1>6. CASE EngineerLosesLease(w, s)
  BY <1>6 DEF EngineerLosesLease, StopHeartbeat
<1>7. CASE FinishEngineeringHandoff(w, s)
  BY <1>7 DEF FinishEngineeringHandoff
<1>8. CASE InspectTree(w, s)
  BY <1>8 DEF InspectTree
<1>9. CASE AbandonEngineering(w, s)
  BY <1>9 DEF AbandonEngineering, Abandon
<1>10. CASE ReleasePhase(w, s)
  BY <1>10 DEF ReleasePhase, ReleaseLock
<1> QED BY <1>1, <1>2, <1>3, <1>4, <1>5, <1>6, <1>7, <1>8, <1>9, <1>10 DEF Engineering

LEMMA RecoveryDelivers ==
  ASSUME TypeOK, PhaseInv, CommitsHold, NEW w \in Coordinators, Recovery(w)
  PROVE  CommitsHold' /\ StageKept
<1> USE ConstantsAssumption DEF ConstantsAssumption, TypeOK, PhaseInv,
        CommitsHold, CommitHolds, CommitPcs, StageKept, OpenStates, Tree,
        StepPcs, CheckpointPcs, Goto, stepVars, ownVars, engVars, revVars, verVars, lockVars,
        gitVars
<1>1. CASE RecoverExpired(w)
  BY SMTT(60), <1>1 DEF RecoverExpired, Stale
<1>2. CASE RecoverExpiredPlanning(w)
  BY <1>2 DEF RecoverExpiredPlanning
<1>3. CASE \E j \in Jobs : EnforceIterationLimit(w, j)
  BY <1>3 DEF EnforceIterationLimit
<1> QED BY <1>1, <1>2, <1>3 DEF Recovery

LEMMA OperatorDelivers ==
  ASSUME TypeOK, PhaseInv, CommitsHold, Undisturbed, NEW j \in Jobs, Operate(j)
  PROVE  CommitsHold' /\ StageKept
<1>0. /\ OperatorLeaves
      /\ ~("cancel" \in Operations) /\ ~("remove" \in Operations)
      /\ ~("rerun_verification" \in Operations)
  BY DEF Operate, Undisturbed
<1> USE <1>0, ConstantsAssumption DEF ConstantsAssumption, TypeOK, PhaseInv,
        CommitsHold, CommitHolds, CommitPcs, StageKept, OpenStates, Tree, StepPcs, CheckpointPcs,
        SetStep, stepVars, ownVars, engVars, revVars, verVars, lockVars, gitVars, OperatorLeaves
<1>1. CASE Pause(j)
  BY <1>1 DEF Pause
<1>2. CASE Resume(j)
  BY <1>2 DEF Resume, StepsOf, ClearOwners
<1>5. CASE PlannerCli(j)
  BY <1>5 DEF PlannerCli
<1>6. CASE RetryJob(j)
  BY <1>6 DEF RetryJob, StepsOf
<1>7. CASE RecoverJob(j)
  BY SMTT(30), <1>7 DEF RecoverJob
<1>9. CASE RefreshPlanning(j)
  BY <1>9 DEF RefreshPlanning
<1>10. CASE Answer(j)
  BY <1>10 DEF Answer
<1>11. CASE AnswerRequest(j)
  BY <1>11 DEF AnswerRequest, StepsOf
<1> QED BY <1>1, <1>2, <1>5, <1>6, <1>7, <1>9, <1>10, <1>11 DEF Operate

\* Whoever is about to commit is attended: its lease and its lock do not run
\* out under the heartbeat, and the heartbeat does not stop while they hold.
LEMMA ClockDelivers ==
  ASSUME TypeOK, PhaseInv, CommitsHold, ~Stalls, Clock
  PROVE  CommitsHold' /\ StageKept
<1>0. StageKept
  BY DEF Clock, PlannerLeaseLapses, EngineerLeaseLapses, ReviewLeaseLapses, VerifierLeaseLapses,
     LockLapses, ClockLeaves, stepVars, gitVars, StageKept
<1> USE ConstantsAssumption DEF ConstantsAssumption, TypeOK, PhaseInv, CommitsHold, CommitHolds,
        CommitPcs, Tree, StepPcs, CheckpointPcs, ClockLeaves, stepVars, gitVars
<1>1. CASE \E j \in Jobs : PlannerLeaseLapses(j)
  BY <1>0, <1>1 DEF PlannerLeaseLapses
<1>2. CASE \E s \in Steps : EngineerLeaseLapses(s)
  BY <1>0, <1>2 DEF EngineerLeaseLapses
<1>3. CASE \E s \in Steps : ReviewLeaseLapses(s)
  BY <1>0, <1>3 DEF ReviewLeaseLapses
<1>4. ASSUME NEW s \in Steps, VerifierLeaseLapses(s) PROVE CommitsHold'
  <2>1. \A v \in Coordinators :
          pc[v] \in CommitPcs /\ task[v] = s => ~(verifier[s] = v /\ v \in beating)
    BY <1>4 DEF VerifierLeaseLapses, MayLapse, Attended, PcsOf
  <2> QED BY <1>4, <2>1 DEF VerifierLeaseLapses
<1>5. ASSUME NEW r \in Repositories, LockLapses(r) PROVE CommitsHold'
  <2>1. \A v \in Coordinators : pc[v] \in CommitPcs =>
          ~(lockOwner[r] = <<v, "checkpoint", task[v]>> /\ v \in beating)
    BY <1>5 DEF LockLapses, MayLapse, Attended, PcsOf
  <2> QED BY <1>5, <2>1 DEF LockLapses
<1> QED BY <1>0, <1>1, <1>2, <1>3, <1>4, <1>5 DEF Clock

LEMMA HeartbeatDelivers ==
  ASSUME TypeOK, PhaseInv, CommitsHold, NEW w \in Coordinators, Heartbeat(w)
  PROVE  CommitsHold' /\ StageKept
<1>1. /\ UNCHANGED <<stepStatus, commit, verifier, lockOwner, pc, task>>
      /\ \A s \in Steps : verifierLease[s] = "live" => verifierLease'[s] = "live"
      /\ \A r \in Repositories : lockLease[r] = "live" => lockLease'[r] = "live"
      /\ beating' \in {beating, beating \ {w}}
  BY DEF Heartbeat, Renewed, StopHeartbeat, stepVars, gitVars, TypeOK
<1>2. pc[w] \in CommitPcs => beating' = beating
  <2> SUFFICES ASSUME pc[w] \in CommitPcs PROVE beating' = beating
    OBVIOUS
  <2>1. PhaseOf(w) = "checkpoint"
    BY DEF CommitPcs, PhaseOf, EngineeringPcs, VerifyPcs, ReviewPcs
  <2> QED BY <2>1 DEF Heartbeat, CommitsHold, CommitHolds
<1>3. \A v \in Coordinators : pc[v] \in CommitPcs =>
        task[v] \in Steps /\ Tree(task[v]) \in Repositories
  BY ConstantsAssumption
  DEF ConstantsAssumption, PhaseInv, CommitPcs, StepPcs, CheckpointPcs, Tree
<1>4. CommitsHold'
  BY <1>1, <1>2, <1>3 DEF CommitsHold, CommitHolds, Tree
<1> QED BY <1>1, <1>4 DEF StageKept

LEMMA CrashDelivers ==
  ASSUME TypeOK, CommitsHold, NEW w \in Coordinators, Crash(w)
  PROVE  CommitsHold' /\ StageKept
<1>1. /\ UNCHANGED <<stepStatus, commit, verifier, verifierLease, lockOwner, lockLease>>
      /\ pc'[w] = "idle" /\ beating' = beating \ {w}
      /\ \A v \in Coordinators : v # w => pc'[v] = pc[v] /\ task'[v] = task[v]
  BY DEF Crash, Idle, Goto, StopHeartbeat, TypeOK, stepVars, ownVars, verVars, lockVars, gitVars
<1>2. \A v \in Coordinators : CommitHolds(v)'
  BY <1>1 DEF CommitsHold, CommitHolds, CommitPcs, Tree
<1> QED BY <1>1, <1>2 DEF CommitsHold, StageKept

-----------------------------------------------------------------------------
(* Steps of the workflow as steps of Delivery                               *)

Delivers == DeliveryOf!Next \/ Stage' = Stage

\* Everything below is said of one step whose row or commit changes.
OnlyMoves(s) ==
  \A t \in Steps : t # s => stepStatus'[t] = stepStatus[t] /\ commit'[t] = commit[t]

LEMMA StageMoves ==
  ASSUME NEW s \in Steps, OnlyMoves(s)
  PROVE  Stage' = [Stage EXCEPT ![s] = Stage'[s]]
<1>1. \A t \in Steps : t # s => Stage'[t] = Stage[t]
  BY DEF Stage, OnlyMoves
<1>2. /\ Stage = [t \in Steps |-> Stage[t]] /\ DOMAIN Stage = Steps
      /\ Stage' = [t \in Steps |-> Stage'[t]] /\ DOMAIN Stage' = Steps
  BY DEF Stage
<1> QED BY <1>1, <1>2

LEMMA StageStays ==
  ASSUME NEW s \in Steps, OnlyMoves(s), Stage'[s] = Stage[s]
  PROVE  Delivers
<1>1. \A t \in Steps : Stage'[t] = Stage[t]
  BY DEF Stage, OnlyMoves
<1>2. Stage = [t \in Steps |-> Stage[t]] /\ Stage' = [t \in Steps |-> Stage'[t]]
  BY DEF Stage
<1> QED BY <1>1, <1>2 DEF Delivers

LEMMA KeptIsDelivered ==
  ASSUME StageKept
  PROVE  Delivers
<1>1. ASSUME NEW s \in Steps PROVE Stage'[s] = Stage[s]
  <2>1. CASE stepStatus'[s] = stepStatus[s]
    BY <2>1 DEF StageKept, Stage
  <2>2. CASE stepStatus[s] \in OpenStates /\ stepStatus'[s] \in OpenStates
    BY <2>2 DEF StageKept, OpenStates, Stage
  <2> QED BY <2>1, <2>2 DEF StageKept
<1>2. Stage = [s \in Steps |-> Stage[s]] /\ Stage' = [s \in Steps |-> Stage'[s]]
  BY DEF Stage
<1> QED BY <1>1, <1>2 DEF Delivers

\* What is in history belongs to a step that the planner has created.
CommittedExist == \A s \in Steps : commit[s] # NoCommit => stepStatus[s] # "absent"

LEMMA PlanningDelivers ==
  ASSUME TypeOK, PhaseInv, CommitsHold, CommittedExist, NEW w \in Coordinators, NEW j \in Jobs,
         Planning(w, j)
  PROVE  CommitsHold' /\ CommittedExist' /\ Delivers
<1>1. CASE PlannerCreatesSteps(w, j)
  <2>1. PICK package \in SUBSET {s \in Steps : JobOf[s] = j /\ stepStatus[s] = "absent"} :
          /\ Cardinality(package) \in 1..5
          /\ stepStatus' = [s \in Steps |-> IF s \in package THEN "queued" ELSE stepStatus[s]]
          /\ ApplyDecision(w, j, "running", Cardinality(package))
    BY <1>1 DEF PlannerCreatesSteps
  <2>2. /\ UNCHANGED <<commit, verifier, verifierLease, lockOwner, lockLease, beating>>
        /\ pc'[w] = "idle"
        /\ \A v \in Coordinators : v # w => pc'[v] = pc[v] /\ task'[v] = task[v]
    BY <2>1 DEF ApplyDecision, Idle, Goto, TypeOK, ownVars, verVars, lockVars, gitVars
  <2>3. \A s \in package : s \in Steps /\ stepStatus[s] = "absent"
    BY <2>1
  <2>4. CommitsHold'
    <3>1. ASSUME NEW v \in Coordinators, pc'[v] \in CommitPcs PROVE CommitHolds(v)'
      <4>1. v # w /\ pc'[v] = pc[v] /\ task'[v] = task[v] /\ task[v] \in Steps
        BY <2>2, <3>1 DEF CommitPcs, PhaseInv, StepPcs, CheckpointPcs
      <4>2. stepStatus'[task[v]] = stepStatus[task[v]]
        BY <2>1, <2>3, <3>1, <4>1 DEF CommitsHold, CommitHolds
      <4> QED BY <2>2, <3>1, <4>1, <4>2 DEF CommitsHold, CommitHolds, Tree
    <3> QED BY ONLY <3>1 DEF CommitsHold, CommitHolds
  <2>5. CommittedExist'
    BY <2>1, <2>2, <2>3 DEF CommittedExist
  <2>6. DeliveryOf!Open
    <3>1. package \in (SUBSET Steps) \ {{}}
      <4>1. package # {}
        BY <2>1, FS_EmptySet
      <4> QED BY <2>3, <4>1
    <3>2. \A s \in package : Stage[s] = "none" /\ Stage'[s] = "open"
      BY <2>1, <2>2, <2>3 DEF CommittedExist, Stage
    <3>3. \A s \in Steps : s \notin package => Stage'[s] = Stage[s]
      BY <2>1, <2>2 DEF Stage
    <3>4. Stage' = [s \in Steps |-> Stage'[s]]
      BY DEF Stage
    <3>5. Stage' = [s \in Steps |-> IF s \in package THEN "open" ELSE Stage[s]]
      BY <3>2, <3>3, <3>4
    <3> QED BY <3>1, <3>2, <3>5 DEF DeliveryOf!Open
  <2> QED BY <2>4, <2>5, <2>6 DEF Delivers, DeliveryOf!Next
<1>2. CASE ~PlannerCreatesSteps(w, j)
  <2>1. /\ UNCHANGED <<commit, verifier, verifierLease, lockOwner, lockLease, beating>>
        /\ pc'[w] \notin CommitPcs
        /\ \A v \in Coordinators : v # w => pc'[v] = pc[v] /\ task'[v] = task[v]
        /\ \/ stepStatus' = stepStatus
           \/ \E s \in Steps : /\ stepStatus[s] \in {"failed", "blocked"}
                               /\ stepStatus' = [stepStatus EXCEPT ![s] = "queued"]
    <3> USE DEF TypeOK, CommitPcs, PlanningPcs, Goto, Idle, At, SetStep, StepsOf, stepVars, ownVars,
            verVars, lockVars, gitVars, ApplyDecision
    <3>1. CASE ClaimJob(w, j)
      BY <3>1 DEF ClaimJob
    <3>2. CASE PlannerReads(w, j)
      BY <3>2 DEF PlannerReads
    <3>3. CASE PlannerHeartbeat(w, j)
      BY <3>3 DEF PlannerHeartbeat
    <3>4. CASE PlannerRetriesStep(w, j)
      <4>1. PICK t \in Steps : /\ stepStatus[t] \in {"failed", "blocked"}
                               /\ SetStep(t, "queued") /\ ApplyDecision(w, j, "running", 1)
        BY <3>4 DEF PlannerRetriesStep
      <4>2. stepStatus' = [stepStatus EXCEPT ![t] = "queued"]
        BY <4>1
      <4>3. /\ UNCHANGED <<commit, verifier, verifierLease, lockOwner, lockLease, beating>>
            /\ pc'[w] \notin CommitPcs
            /\ \A v \in Coordinators : v # w => pc'[v] = pc[v] /\ task'[v] = task[v]
        BY <4>1
      <4> QED BY <4>1, <4>2, <4>3
    <3>5. CASE PlannerSettles(w, j)
      BY <3>5 DEF PlannerSettles
    <3>6. CASE PlannerDefers(w, j)
      BY <3>6 DEF PlannerDefers
    <3>7. CASE PlannerLosesLease(w, j)
      BY <3>7 DEF PlannerLosesLease
    <3> QED BY <1>2, <3>1, <3>2, <3>3, <3>4, <3>5, <3>6, <3>7 DEF Planning
  <2>2. StageKept
    BY <2>1 DEF StageKept, OpenStates, TypeOK
  <2>3. ASSUME NEW v \in Coordinators, pc'[v] \in CommitPcs PROVE CommitHolds(v)'
    <3>1. v # w /\ pc'[v] = pc[v] /\ task'[v] = task[v] /\ task[v] \in Steps
      BY <2>1, <2>3 DEF CommitPcs, PhaseInv, StepPcs, CheckpointPcs
    <3>2. stepStatus[task[v]] = "checkpoint"
      BY <2>3, <3>1 DEF CommitsHold, CommitHolds
    <3>3. stepStatus'[task[v]] = "checkpoint"
      BY <2>1, <3>1, <3>2 DEF TypeOK
    <3> QED BY <2>1, <2>3, <3>1, <3>3 DEF CommitsHold, CommitHolds, Tree
  <2>4. CommitsHold'
    BY ONLY <2>3 DEF CommitsHold, CommitHolds
  <2>5. CommittedExist'
    BY <2>2 DEF CommittedExist, StageKept, OpenStates
  <2> QED BY <2>2, <2>4, <2>5, KeptIsDelivered
<1> QED BY <1>1, <1>2

\* Whoever is about to commit is not disturbed by a coordinator that leaves
\* rows in "checkpoint", the verifier's columns and the locks alone.
LEMMA CommitsUndisturbed ==
  ASSUME TypeOK, PhaseInv, CommitsHold, NEW w \in Coordinators,
         pc'[w] \notin CommitPcs,
         \A v \in Coordinators : v # w => pc'[v] = pc[v] /\ task'[v] = task[v],
         \A v \in Coordinators : v # w /\ v \in beating => v \in beating',
         \A v \in Coordinators : v # w /\ pc[v] \in CommitPcs =>
           /\ stepStatus'[task[v]] = stepStatus[task[v]]
           /\ verifier'[task[v]] = verifier[task[v]]
           /\ verifierLease'[task[v]] = verifierLease[task[v]],
         UNCHANGED lockVars
  PROVE  CommitsHold'
<1>1. ASSUME NEW v \in Coordinators, pc'[v] \in CommitPcs PROVE CommitHolds(v)'
  <2>1. pc[v] \in CommitPcs /\ CommitHolds(v)
    BY <1>1 DEF CommitsHold
  <2> QED BY <1>1, <2>1 DEF CommitHolds, Tree, lockVars
<1> QED BY ONLY <1>1 DEF CommitsHold, CommitHolds

\* A verdict is written on the step under review only, or on one that was
\* cancelled meanwhile.
LEMMA ReviewDelivers ==
  ASSUME TypeOK, PhaseInv, CommitsHold, CommittedExist, NEW w \in Coordinators, NEW s \in Steps,
         Review(w, s)
  PROVE  CommitsHold' /\ CommittedExist' /\ Delivers
<1>1. /\ UNCHANGED <<commit, verifier, verifierLease, lockVars>>
      /\ pc'[w] \notin CommitPcs
      /\ \A v \in Coordinators : v # w => pc'[v] = pc[v] /\ task'[v] = task[v]
      /\ \A v \in Coordinators : v # w /\ v \in beating => v \in beating'
      /\ \/ stepStatus' = stepStatus
         \/ /\ stepStatus[s] \in {"review", "cancelled"}
            /\ \E status \in {"verification", "changes_requested", "needs_human", "blocked"} :
                 stepStatus' = [stepStatus EXCEPT ![s] = status]
  <2> USE DEF TypeOK, CommitPcs, Goto, Idle, At, SetStep, stepVars, ownVars, verVars, lockVars,
          gitVars, StartHeartbeat, StopHeartbeat
  <2>1. CASE NextReviewStep(w, s)
    BY <2>1 DEF NextReviewStep
  <2>2. CASE ClaimReview(w, s)
    BY <2>2 DEF ClaimReview
  <2>3. CASE CollectEvidence(w, s)
    BY <2>3 DEF CollectEvidence
  <2>4. CASE ReviewCompletes(w, s)
    <3>1. stepStatus[s] \in {"review", "cancelled"}
      BY <2>4 DEF ReviewCompletes, PhaseInv, PhaseFits, ReviewHolds, ReviewPcs
    <3>2. \E status \in {"verification", "changes_requested", "needs_human", "blocked"} :
            stepStatus' = [stepStatus EXCEPT ![s] = status]
      BY <2>4 DEF ReviewCompletes, VerdictOf
    <3>3. /\ UNCHANGED <<commit, verifier, verifierLease, lockVars>>
          /\ pc'[w] \notin CommitPcs
          /\ \A v \in Coordinators : v # w => pc'[v] = pc[v] /\ task'[v] = task[v]
          /\ \A v \in Coordinators : v # w /\ v \in beating => v \in beating'
      BY <2>4 DEF ReviewCompletes
    <3> QED BY <3>1, <3>2, <3>3
  <2>5. CASE ReviewFails(w, s)
    BY <2>5 DEF ReviewFails
  <2>6. CASE FinishReviewHandoff(w, s)
    BY <2>6 DEF FinishReviewHandoff
  <2> QED BY <2>1, <2>2, <2>3, <2>4, <2>5, <2>6 DEF Review
<1>2. CommitsHold'
  <2>1. \A v \in Coordinators : pc[v] \in CommitPcs =>
          stepStatus[task[v]] = "checkpoint" /\ stepStatus'[task[v]] = "checkpoint"
    BY <1>1 DEF CommitsHold, CommitHolds, CommitPcs, PhaseInv, StepPcs, CheckpointPcs, TypeOK
  <2> QED BY <1>1, <2>1, CommitsUndisturbed
<1>3. CommittedExist'
  BY <1>1 DEF CommittedExist, TypeOK
<1>4. Delivers
  <2>1. CASE stepStatus' = stepStatus
    BY <1>1, <2>1, KeptIsDelivered DEF StageKept
  <2>2. CASE stepStatus' # stepStatus
    <3>1. PICK status \in {"verification", "changes_requested", "needs_human", "blocked"} :
            stepStatus' = [stepStatus EXCEPT ![s] = status]
      BY <1>1, <2>2
    <3>2. OnlyMoves(s) /\ stepStatus[s] \in {"review", "cancelled"} /\ stepStatus'[s] = status
      BY <1>1, <2>2, <3>1 DEF OnlyMoves, TypeOK
    <3>3. CASE status = "verification" /\ commit[s] = NoCommit
      <4>1. Stage[s] = "open" /\ Stage'[s] = "approved"
        BY <1>1, <3>2, <3>3 DEF Stage
      <4>2. DeliveryOf!Approve(s)
        BY <3>2, <4>1, StageMoves DEF DeliveryOf!Approve, DeliveryOf!Move
      <4> QED BY <4>2 DEF Delivers, DeliveryOf!Next
    <3>4. CASE ~(status = "verification" /\ commit[s] = NoCommit)
      <4>1. Stage'[s] = Stage[s]
        BY <1>1, <3>1, <3>2, <3>4 DEF Stage
      <4> QED BY <3>2, <4>1, StageStays
    <3> QED BY <3>3, <3>4
  <2> QED BY <2>1, <2>2
<1> QED BY <1>2, <1>3, <1>4

LEMMA ClaimDelivers ==
  ASSUME TypeOK, PhaseInv, CommitsHold, NEW w \in Coordinators, NEW s \in Steps,
         \/ ClaimVerification(w, s)
         \/ ClaimCheckpoint(w, s)
  PROVE  CommitsHold' /\ StageKept
<1>1. PICK phase \in {"verify", "checkpoint"}, label \in {"verifying", "checkpointing"},
           stepIs \in {"verification", "checkpoint"},
           jobIn \in SUBSET JobStates, jobTo \in JobStates :
        /\ ClaimOrchestration(w, s, stepIs, jobIn, jobTo, phase, label)
        /\ label = "checkpointing" => phase = "checkpoint" /\ stepIs = "checkpoint"
  BY DEF ClaimVerification, ClaimCheckpoint, JobStates
<1>2. /\ UNCHANGED <<stepStatus, commit>> /\ beating' = beating \cup {w}
      /\ stepStatus[s] = stepIs /\ verifierLease[s] # "live"
      /\ verifier' = [verifier EXCEPT ![s] = w]
      /\ verifierLease' = [verifierLease EXCEPT ![s] = "live"]
      /\ pc' = [pc EXCEPT ![w] = label] /\ task' = [task EXCEPT ![w] = s]
  BY <1>1 DEF ClaimOrchestration, Lapsed, Goto, StartHeartbeat, stepVars, gitVars
<1>3. /\ lockOwner[Tree(s)] \in {NoOne, <<w, phase, s>>} \/ lockLease[Tree(s)] = "expired"
      /\ lockOwner' = [lockOwner EXCEPT ![Tree(s)] = <<w, phase, s>>]
      /\ lockLease' = [lockLease EXCEPT ![Tree(s)] = "live"]
  BY <1>1 DEF ClaimOrchestration, AcquireLock
<1>4. \A t \in Steps : Tree(t) \in Repositories
  BY ConstantsAssumption DEF ConstantsAssumption, Tree
<1>5. ASSUME NEW v \in Coordinators, v # w, pc'[v] \in CommitPcs PROVE CommitHolds(v)'
  <2>1. pc'[v] = pc[v] /\ task'[v] = task[v] /\ task[v] \in Steps
    BY <1>2, <1>5 DEF TypeOK, PhaseInv, CommitPcs, StepPcs, CheckpointPcs
  <2>2. /\ stepStatus[task[v]] = "checkpoint"
        /\ verifier[task[v]] = v /\ verifierLease[task[v]] = "live"
        /\ lockOwner[Tree(task[v])] = <<v, "checkpoint", task[v]>>
        /\ lockLease[Tree(task[v])] = "live" /\ v \in beating
    BY <1>5, <2>1 DEF CommitsHold, CommitHolds
  <2>3. task[v] # s
    BY <1>2, <2>2
  <2>4. <<v, "checkpoint", task[v]>> \notin {NoOne, <<w, phase, s>>}
    <3>1. <<v, "checkpoint", task[v]>> \in LockOwners
      BY <2>1 DEF LockOwners, Phases
    <3> QED BY <1>5, <3>1, ConstantsAssumption DEF ConstantsAssumption
  <2>5. Tree(task[v]) # Tree(s)
    BY <1>3, <2>2, <2>4
  <2>6. /\ lockOwner'[Tree(task[v])] = lockOwner[Tree(task[v])]
        /\ lockLease'[Tree(task[v])] = lockLease[Tree(task[v])]
    BY <1>3, <1>4, <2>1, <2>5 DEF TypeOK
  <2>7. /\ verifier'[task[v]] = v /\ verifierLease'[task[v]] = "live"
    BY <1>2, <2>1, <2>2, <2>3 DEF TypeOK
  <2> QED BY <1>2, <2>1, <2>2, <2>6, <2>7 DEF CommitHolds, Tree
<1>6. CommitHolds(w)'
  <2> SUFFICES ASSUME pc'[w] \in CommitPcs PROVE CommitHolds(w)'
    BY DEF CommitHolds
  <2>1. label = "checkpointing"
    BY <1>2 DEF TypeOK, CommitPcs
  <2>2. phase = "checkpoint" /\ stepStatus[s] = "checkpoint"
    BY <1>1, <1>2, <2>1
  <2>3. task'[w] = s /\ verifier'[s] = w /\ verifierLease'[s] = "live"
    BY <1>2 DEF TypeOK
  <2>4. lockOwner'[Tree(s)] = <<w, "checkpoint", s>> /\ lockLease'[Tree(s)] = "live"
    BY <1>3, <1>4, <2>2 DEF TypeOK
  <2> QED BY <1>2, <2>2, <2>3, <2>4 DEF CommitHolds, Tree
<1>7. CommitsHold'
  <2>1. \A v \in Coordinators : CommitHolds(v)'
    <3>1. ASSUME NEW v \in Coordinators PROVE CommitHolds(v)'
      <4>1. CASE v = w
        BY <4>1, <1>6
      <4>2. CASE v # w /\ pc'[v] \in CommitPcs
        BY <4>2, <1>5
      <4>3. CASE pc'[v] \notin CommitPcs
        BY <4>3 DEF CommitHolds
      <4> QED BY <4>1, <4>2, <4>3
    <3> QED BY <3>1
  <2> QED BY <2>1 DEF CommitsHold
<1> QED BY <1>2, <1>7 DEF StageKept

\* The records of a verification and of a checkpoint: the row moves, and what
\* another coordinator is about to commit is another row.
LEMMA RecordDelivers ==
  ASSUME TypeOK, PhaseInv, CommitsHold, CommittedExist, NEW w \in Coordinators, NEW s \in Steps,
         NEW stepTo \in {"checkpoint", "changes_requested", "blocked", "complete"},
         NEW jobTo, NEW label \in {"release_verify", "completing", "release_checkpoint"},
         RecordPhase(w, s, stepTo, jobTo, label)
  PROVE  CommitsHold' /\ CommittedExist' /\ OnlyMoves(s)
<1>1. /\ UNCHANGED <<commit, lockVars>> /\ verifier[s] = w
      /\ stepStatus' = [stepStatus EXCEPT ![s] = stepTo]
      /\ verifier' = [verifier EXCEPT ![s] = NoOne]
      /\ verifierLease' = [verifierLease EXCEPT ![s] = "none"]
      /\ beating' = beating \ {w}
      /\ pc' = [pc EXCEPT ![w] = label] /\ task' = [task EXCEPT ![w] = s]
  BY DEF RecordPhase, SetStep, Goto, StopHeartbeat, gitVars
<1>2. \A v \in Coordinators : v # w /\ pc[v] \in CommitPcs => task[v] \in Steps /\ task[v] # s
  BY <1>1 DEF CommitsHold, CommitHolds, PhaseInv, CommitPcs, StepPcs, CheckpointPcs
<1>3. CommitsHold'
  <2>1. pc'[w] \notin CommitPcs
    BY <1>1 DEF TypeOK, CommitPcs
  <2>2. \A v \in Coordinators : v # w => pc'[v] = pc[v] /\ task'[v] = task[v]
    BY <1>1 DEF TypeOK
  <2>3. \A v \in Coordinators : v # w /\ pc[v] \in CommitPcs =>
          /\ stepStatus'[task[v]] = stepStatus[task[v]]
          /\ verifier'[task[v]] = verifier[task[v]]
          /\ verifierLease'[task[v]] = verifierLease[task[v]]
    BY <1>1, <1>2 DEF TypeOK
  <2> QED BY <1>1, <2>1, <2>2, <2>3, CommitsUndisturbed
<1>4. CommittedExist' /\ OnlyMoves(s)
  BY <1>1 DEF CommittedExist, OnlyMoves, TypeOK
<1> QED BY <1>3, <1>4

\* The marker that is found, the commit that is made and the records that are
\* accepted are the moves of Delivery; nothing else changes a stage.
LEMMA OrchestrationDelivers ==
  ASSUME TypeOK, StepsExist, ReportIsTrue, PhaseInv, CommitsHold, CommittedExist,
         NEW w \in Coordinators, NEW s \in Steps, Orchestration(w, s)
  PROVE  CommitsHold' /\ CommittedExist' /\ Delivers
<1>1. ASSUME StageKept, CommitsHold' PROVE CommitsHold' /\ CommittedExist' /\ Delivers
  BY <1>1, KeptIsDelivered DEF CommittedExist, StageKept, OpenStates
<1>2. CASE ClaimVerification(w, s) \/ ClaimCheckpoint(w, s)
  BY <1>2, <1>1, ClaimDelivers
<1>3. CASE StartTests(w, s) \/ GitRefuses(w, s) \/ CompleteSession(w, s) \/ RecordRefused(w, s)
  <2>1. /\ UNCHANGED <<stepStatus, commit, verifier, verifierLease, lockVars>>
        /\ pc'[w] \notin CommitPcs
        /\ \A v \in Coordinators : v # w => pc'[v] = pc[v] /\ task'[v] = task[v]
        /\ \A v \in Coordinators : v # w /\ v \in beating => v \in beating'
    BY <1>3
    DEF StartTests, GitRefuses, CompleteSession, RecordRefused, TypeOK, CommitPcs, Goto,
        StopHeartbeat, stepVars, ownVars, verVars, lockVars, gitVars
  <2>2. CommitsHold'
    BY <2>1, CommitsUndisturbed
  <2> QED BY <1>1, <2>1, <2>2 DEF StageKept
<1>4. CASE FindCheckpoint(w, s)
  <2>1. /\ UNCHANGED <<stepStatus, commit, verifier, verifierLease, lockVars, beating>>
        /\ task'[w] = s /\ pc[w] = "checkpointing" /\ task[w] = s
        /\ \A v \in Coordinators : v # w => pc'[v] = pc[v] /\ task'[v] = task[v]
    BY <1>4
    DEF FindCheckpoint, TypeOK, At, Goto, stepVars, ownVars, verVars, lockVars, gitVars
  <2>2. \A v \in Coordinators : CommitHolds(v)'
    BY <2>1 DEF CommitsHold, CommitHolds, CommitPcs, Tree, lockVars
  <2>3. CommitsHold'
    BY <2>2 DEF CommitsHold
  <2> QED BY <1>1, <2>1, <2>3 DEF StageKept
<1>5. CASE RecordVerification(w, s)
  <2>1. PICK stepTo \in {"checkpoint", "changes_requested", "blocked"},
             jobTo \in {"checkpointing", "running", "blocked"} :
          RecordPhase(w, s, stepTo, jobTo, "release_verify")
    BY <1>5 DEF RecordVerification
  <2>2. CommitsHold' /\ CommittedExist' /\ OnlyMoves(s)
    BY <2>1, RecordDelivers
  <2>3. stepStatus[s] = "verification"
    BY <1>5, <2>1 DEF RecordVerification, RecordPhase, PhaseInv, PhaseFits, At, VerifyPcs
  <2>4. commit' = commit /\ stepStatus'[s] = stepTo
    BY <2>1 DEF RecordPhase, SetStep, gitVars, TypeOK
  <2>5. CASE commit[s] # NoCommit
    <3>1. Stage'[s] = Stage[s]
      BY <2>1, <2>3, <2>4, <2>5 DEF Stage
    <3> QED BY <2>2, <3>1, StageStays
  <2>6. CASE commit[s] = NoCommit /\ stepTo = "checkpoint"
    <3>1. Stage[s] = "approved" /\ Stage'[s] = "verified"
      BY <2>3, <2>4, <2>6 DEF Stage
    <3>2. DeliveryOf!Verify(s)
      BY <2>2, <3>1, StageMoves DEF DeliveryOf!Verify, DeliveryOf!Move
    <3> QED BY <2>2, <3>2 DEF Delivers, DeliveryOf!Next
  <2>7. CASE commit[s] = NoCommit /\ stepTo # "checkpoint"
    <3>1. Stage[s] = "approved" /\ Stage'[s] = "open"
      BY <2>1, <2>3, <2>4, <2>7 DEF Stage
    <3>2. DeliveryOf!Reject(s)
      BY <2>2, <3>1, StageMoves DEF DeliveryOf!Reject, DeliveryOf!Move
    <3> QED BY <2>2, <3>2 DEF Delivers, DeliveryOf!Next
  <2> QED BY <2>5, <2>6, <2>7
<1>6. CASE GitCommit(w, s)
  <2>1. /\ UNCHANGED <<stepStatus, verifier, verifierLease, lockVars, beating>>
        /\ commit' = [commit EXCEPT ![s] = seals[s]]
        /\ pc[w] = "committing" /\ task[w] = s /\ pc'[w] = "committed"
        /\ \A v \in Coordinators : v # w => pc'[v] = pc[v] /\ task'[v] = task[v]
    BY <1>6 DEF GitCommit, TypeOK, At, Goto, stepVars, ownVars, verVars, lockVars
  <2>2. commit'[s] # NoCommit
    <3>1. seals[s] \in SUBSET Seal
      BY DEF TypeOK
    <3>2. seals[s] # NoCommit
      BY <3>1 DEF Seal, NoCommit
    <3> QED BY <2>1, <3>2 DEF TypeOK
  <2>3. CommitsHold'
    <3>1. pc'[w] \notin CommitPcs
      BY <2>1 DEF CommitPcs
    <3> QED BY <2>1, <3>1, CommitsUndisturbed
  <2>4. stepStatus[s] = "checkpoint"
    BY <2>1 DEF CommitsHold, CommitHolds, CommitPcs
  <2>5. CommittedExist' /\ OnlyMoves(s)
    BY <2>1, <2>4 DEF CommittedExist, OnlyMoves, TypeOK
  <2>6. Stage'[s] = "committed"
    BY <2>1, <2>2, <2>4 DEF Stage
  <2>7. CASE commit[s] = NoCommit
    <3>1. Stage[s] = "verified"
      BY <2>4, <2>7 DEF Stage
    <3>2. DeliveryOf!Commit(s)
      BY <2>5, <2>6, <3>1, StageMoves DEF DeliveryOf!Commit, DeliveryOf!Move
    <3> QED BY <2>3, <2>5, <3>2 DEF Delivers, DeliveryOf!Next
  <2>8. CASE commit[s] # NoCommit
    <3>1. Stage[s] = "committed"
      BY <2>4, <2>8 DEF Stage
    <3> QED BY <2>3, <2>5, <2>6, <3>1, StageStays
  <2> QED BY <2>7, <2>8
<1>7. CASE RecordCheckpoint(w, s)
  <2>1. PICK stepTo \in {"complete", "changes_requested"},
             label \in {"completing", "release_checkpoint"} :
          /\ RecordPhase(w, s, stepTo, "running", label)
          /\ stepTo = "complete" => pc[w] = "committed" /\ task[w] = s
    BY <1>7 DEF RecordCheckpoint, At
  <2>2. CommitsHold' /\ CommittedExist' /\ OnlyMoves(s)
    BY <2>1, RecordDelivers
  <2>3. stepStatus[s] = "checkpoint"
    BY <1>7, <2>1 DEF RecordCheckpoint, RecordPhase, PhaseInv, PhaseFits, At, CheckpointPcs
  <2>4. commit' = commit /\ stepStatus'[s] = stepTo
    BY <2>1 DEF RecordPhase, SetStep, gitVars, TypeOK
  <2>5. CASE stepTo = "complete"
    <3>1. commit[s] # NoCommit
      BY <2>1, <2>5 DEF ReportIsTrue
    <3>2. Stage[s] = "committed" /\ Stage'[s] = "complete"
      BY <2>3, <2>4, <2>5, <3>1 DEF Stage
    <3>3. DeliveryOf!Complete(s)
      BY <2>2, <3>2, StageMoves DEF DeliveryOf!Complete, DeliveryOf!Move
    <3> QED BY <2>2, <3>3 DEF Delivers, DeliveryOf!Next
  <2>6. CASE stepTo = "changes_requested" /\ commit[s] # NoCommit
    <3>1. Stage'[s] = Stage[s]
      BY <2>3, <2>4, <2>6 DEF Stage
    <3> QED BY <2>2, <3>1, StageStays
  <2>7. CASE stepTo = "changes_requested" /\ commit[s] = NoCommit
    <3>1. Stage[s] = "verified" /\ Stage'[s] = "open"
      BY <2>3, <2>4, <2>7 DEF Stage
    <3>2. DeliveryOf!Reject(s)
      BY <2>2, <3>1, StageMoves DEF DeliveryOf!Reject, DeliveryOf!Move
    <3> QED BY <2>2, <3>2 DEF Delivers, DeliveryOf!Next
  <2> QED BY <2>1, <2>5, <2>6, <2>7
<1> QED BY <1>2, <1>3, <1>4, <1>5, <1>6, <1>7 DEF Orchestration

LEMMA StepDelivers ==
  ASSUME TypeOK, StepsExist, ReportIsTrue, PhaseInv, CommitsHold, CommittedExist, ~Stalls,
         Undisturbed, [Next]_vars
  PROVE  CommitsHold' /\ CommittedExist' /\ Delivers
<1>1. ASSUME CommitsHold' /\ StageKept PROVE CommitsHold' /\ CommittedExist' /\ Delivers
  BY <1>1, KeptIsDelivered DEF CommittedExist, StageKept, OpenStates
<1>2. ASSUME NEW w \in Coordinators, Coordinate(w)
      PROVE  CommitsHold' /\ CommittedExist' /\ Delivers
  <2>1. CASE \E j \in Jobs : Planning(w, j)
    BY <2>1, PlanningDelivers
  <2>2. CASE \E s \in Steps : Engineering(w, s)
    BY <2>2, <1>1, EngineeringDelivers
  <2>3. CASE \E s \in Steps : Review(w, s)
    BY <2>3, ReviewDelivers
  <2>4. CASE \E s \in Steps : Orchestration(w, s)
    BY <2>4, OrchestrationDelivers
  <2>5. CASE Recovery(w)
    BY <2>5, <1>1, RecoveryDelivers
  <2> QED BY <1>2, <2>1, <2>2, <2>3, <2>4, <2>5 DEF Coordinate
<1>3. CASE \E w \in Coordinators : Heartbeat(w) \/ Crash(w)
  BY <1>3, <1>1, HeartbeatDelivers, CrashDelivers
<1>4. CASE \E j \in Jobs : Operate(j)
  BY <1>4, <1>1, OperatorDelivers
<1>5. CASE Clock
  BY <1>5, <1>1, ClockDelivers
<1>6. CASE UNCHANGED vars
  <2>1. CommitsHold' /\ StageKept
    BY <1>6 DEF vars, stepVars, ownVars, verVars, lockVars, gitVars, CommitsHold, CommitHolds,
       Tree, StageKept
  <2> QED BY <1>1, <2>1
<1> QED BY <1>2, <1>3, <1>4, <1>5, <1>6 DEF Next

\* A report of a commit is true throughout.
LEMMA ReportsStayTrue == Spec => []ReportIsTrue
<1> DEFINE Committed == CompleteIsCommitted /\ ReportIsTrue
<1>1. Init => Committed
  BY DEF Init, CompleteIsCommitted, ReportIsTrue
<1>2. TypeOK /\ Committed /\ [Next]_vars => Committed'
  <2> SUFFICES ASSUME TypeOK, Committed, [Next]_vars PROVE Committed'
    OBVIOUS
  <2>1. ASSUME NEW w \in Coordinators, Coordinate(w) PROVE Committed'
    BY <2>1, PlanningCompletesNone, EngineeringCompletesNone, ReviewCompletesNone,
       RecoveryCompletesNone, OrchestrationIsCommitted, UncompletedIsCommitted DEF Coordinate
  <2>2. CASE UNCHANGED vars
    <3>1. Uncompleted
      BY <2>2 DEF vars, stepVars, gitVars, Uncompleted
    <3> QED BY <3>1, UncompletedIsCommitted
  <2> QED
    BY <2>1, <2>2, HeartbeatCompletesNone, CrashCompletesNone, OperatorCompletesNone,
       ClockCompletesNone, UncompletedIsCommitted DEF Next
<1>3. Committed => ReportIsTrue
  OBVIOUS
<1> QED BY <1>1, <1>2, <1>3, TypesAreKept, PTL DEF Spec

\* Of StepsAreDelivered: the workflow implements Delivery. Every step is
\* approved, verified, committed and complete in this order, with any number of
\* jobs, steps, trees and coordinators that crash and recover, if no lease runs
\* out under a heartbeat and no operation takes a step away from a coordinator
\* that is about to commit it, which Git could not refuse.
THEOREM WorkflowDelivers == ~Stalls /\ Undisturbed /\ Spec => StepsAreDelivered
<1>1. Init => DeliveryOf!Init /\ CommitsHold /\ CommittedExist
  <2> SUFFICES ASSUME Init PROVE DeliveryOf!Init /\ CommitsHold /\ CommittedExist
    OBVIOUS
  <2>1. \A s \in Steps : stepStatus[s] = "absent" /\ commit[s] = NoCommit
    BY DEF Init
  <2>2. DeliveryOf!Init
    BY <2>1 DEF Stage, DeliveryOf!Init
  <2>3. CommitsHold
    BY DEF Init, CommitsHold, CommitHolds, CommitPcs
  <2> QED BY <2>1, <2>2, <2>3 DEF CommittedExist
<1>2. CASE Stalls \/ ~Undisturbed
  BY <1>2, PTL
<1>3. CASE ~Stalls /\ Undisturbed
  <2> DEFINE Before == TypeOK /\ StepsExist /\ ReportIsTrue /\ PhaseInv
  <2>1. Before /\ CommitsHold /\ CommittedExist /\ [Next]_vars =>
          CommitsHold' /\ CommittedExist' /\ [DeliveryOf!Next]_Stage
    BY <1>3, StepDelivers DEF Delivers
  <2>2. Spec => []PhaseInv
    BY <1>3, PhasesHold, PTL
  <2>3. Spec => []Before
    BY <2>2, TypesAreKept, StepsStayExisting, ReportsStayTrue, PTL
  <2> HIDE DEF Before
  <2> QED BY <1>1, <2>1, <2>3, PTL DEF Spec, StepsAreDelivered, DeliveryOf!Spec
<1> QED BY <1>2, <1>3
=============================================================================
