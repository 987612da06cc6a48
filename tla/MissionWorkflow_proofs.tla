----------------------- MODULE MissionWorkflow_proofs -----------------------
(***************************************************************************)
(* Proofs about MissionWorkflow, in three layers that stand on each other: *)
(* types; what the steps, the phases at work and the evidence are to each  *)
(* other (StepInv), which makes the mission an environment of Integration  *)
(* and carries over what Integration promises; and the packages, their     *)
(* admission and the status of the mission on top (PackageInv, MergedInv). *)
(***************************************************************************)
EXTENDS MissionWorkflow, Integration_proofs

-----------------------------------------------------------------------------
(* Types                                                                   *)

RowsOK ==
  /\ pkg \in [Packages -> PackageStates]
  /\ evidence \in [Packages -> SUBSET Evidence]
  /\ missionStatus \in MissionStates

PackagesOK ==
  /\ item \in [Packages -> Items \cup {NoItem}]
  /\ worker \in [Packages -> Coordinators \cup {NoOne}]
  /\ tree \in SUBSET Packages

StepsOK ==
  /\ job \in [Packages -> JobStates]
  /\ step \in [Packages -> StepStates]
  /\ owner \in [Packages -> Coordinators \cup {NoOne}]

AgentsOK ==
  /\ pc \in [Integrators -> Pcs]
  /\ task \in [Integrators -> Packages \cup {NoPackage}]
  /\ site \in [Integrators -> Packages \cup {NoPackage}]
  /\ \A c \in Integrators : pc[c] \in PackagePcs => task[c] \in Packages
  /\ beating \in SUBSET Coordinators
  /\ \A c \in beating : pc[c] \in PhasePcs

ReadsOK ==
  /\ seen \in [Coordinators -> SUBSET Items]
  /\ found \in [Integrators -> MissionStates]
  /\ incidents \in 0..MaxIncidents

MissionTypes == RowsOK /\ PackagesOK /\ StepsOK /\ AgentsOK /\ ReadsOK

LEMMA Coordinating == \A c \in Coordinators : c \in Integrators
BY MissionAssumption

LEMMA GotoTypes ==
  ASSUME AgentsOK, NEW c \in Integrators, NEW label \in Pcs,
         NEW p \in Packages \cup {NoPackage},
         label \in PackagePcs => p \in Packages,
         label \in PhasePcs => c \in Coordinators, Goto(c, label, p)
  PROVE  AgentsOK'
<1> USE DEF AgentsOK, Goto, TreeOf
<1>1. \A d \in Integrators : pc'[d] = IF d = c THEN label ELSE pc[d]
  OBVIOUS
<1>2. beating' \in SUBSET Coordinators /\ \A d \in beating' : pc'[d] \in PhasePcs
  BY <1>1, Coordinating
<1> QED BY <1>1, <1>2

LEMMA IdleTypes ==
  ASSUME AgentsOK, NEW c \in Integrators, Idle(c)
  PROVE  AgentsOK'
<1>1. "idle" \in Pcs /\ "idle" \notin PackagePcs /\ "idle" \notin PhasePcs
  BY DEF Pcs, PackagePcs, PhasePcs, SyncPcs
<1> QED BY <1>1, GotoTypes DEF Idle

\* A process goes on with a package.
LEMMA GoOnTypes ==
  ASSUME AgentsOK, NEW c \in Integrators, NEW label \in PackagePcs, NEW p \in Packages,
         label \in PhasePcs => c \in Coordinators, Goto(c, label, p)
  PROVE  AgentsOK'
<1>1. label \in Pcs
  BY DEF Pcs
<1> QED BY <1>1, GotoTypes

LEMMA IncidentTypes ==
  ASSUME ReadsOK, Incident \/ NoIncident
  PROVE  incidents' \in 0..MaxIncidents
BY MissionAssumption DEF ReadsOK, Incident, NoIncident

\* What the actions of population and refresh read and write.
LEMMA PopulationTypes ==
  ASSUME MissionTypes, NEW c \in Coordinators, Populate(c)
  PROVE  MissionTypes'
<1> USE Coordinating DEF MissionTypes, vars, packageVars, stepVars, readVars, agentVars
<1>1. CASE StartPopulating(c)
  <2>1. References \subseteq Items
    BY DEF References, Existing, PackagesOK
  <2>2. AgentsOK'
    <3>1. "populating" \in Pcs /\ "populating" \notin PackagePcs \cup PhasePcs
      BY DEF Pcs, PackagePcs, PhasePcs, SyncPcs
    <3> QED BY <1>1, <3>1, GotoTypes DEF StartPopulating
  <2>3. ReadsOK'
    BY <1>1, <2>1 DEF StartPopulating, ReadsOK
  <2> QED BY <1>1, <2>2, <2>3 DEF StartPopulating, RowsOK, PackagesOK, StepsOK
<1>2. CASE CreateFromRoadmap(c)
  <2>1. PICK p \in Packages, i \in Items :
          CreateWorkPackage(p, i) /\ seen' = [seen EXCEPT ![c] = @ \cup {i}]
    BY <1>2 DEF CreateFromRoadmap
  <2>2. RowsOK' /\ PackagesOK' /\ StepsOK' /\ ReadsOK'
    BY <1>2, <2>1
       DEF CreateFromRoadmap, CreateWorkPackage, SetPackage, SetStep, SetJob, RowsOK,
           PackagesOK, StepsOK, ReadsOK, PackageStates, StepStates, JobStates
  <2> QED BY <1>2, <2>2 DEF CreateFromRoadmap, AgentsOK
<1>3. CASE EndPopulating(c)
  <2>1. AgentsOK'
    <3>1. "refreshing" \in Pcs /\ "refreshing" \notin PackagePcs \cup PhasePcs
      BY DEF Pcs, PackagePcs, PhasePcs, SyncPcs
    <3> QED BY <1>3, <3>1, GotoTypes DEF EndPopulating
  <2> QED BY <1>3, <2>1 DEF EndPopulating, RowsOK, PackagesOK, StepsOK, ReadsOK
<1> QED BY <1>1, <1>2, <1>3 DEF Populate

LEMMA CreationTypes ==
  ASSUME MissionTypes, OperatorCreatesPackage
  PROVE  MissionTypes'
<1>1. PICK p \in Packages : CreateWorkPackage(p, NoItem)
  BY MissionAssumption DEF OperatorCreatesPackage
<1> QED BY <1>1
     DEF MissionTypes, OperatorCreatesPackage, CreateWorkPackage, SetPackage, SetStep,
         SetJob, RowsOK, PackagesOK, StepsOK, ReadsOK, AgentsOK, agentVars, readVars,
         PackageStates, StepStates, JobStates

LEMMA RefreshTypes ==
  ASSUME MissionTypes, NEW i \in Integrators, Refresh(i)
  PROVE  MissionTypes'
<1> USE DEF MissionTypes, vars, packageVars, stepVars, readVars
<1>1. RefreshedStatus \in MissionStates
  BY DEF RefreshedStatus, MissionStates
<1>2. CASE ReadStatus(i)
  <2>1. AgentsOK'
    <3>1. "writing" \in Pcs /\ "writing" \notin PackagePcs \cup PhasePcs
      BY DEF Pcs, PackagePcs, PhasePcs, SyncPcs
    <3> QED BY <1>2, <3>1, GotoTypes, IdleTypes DEF ReadStatus
  <2> QED BY <1>1, <1>2, <2>1 DEF ReadStatus, RowsOK, PackagesOK, StepsOK, ReadsOK
<1>3. CASE WriteStatus(i)
  <2>1. AgentsOK'
    BY <1>3, IdleTypes DEF WriteStatus
  <2> QED BY <1>3, <2>1
       DEF WriteStatus, RowsOK, PackagesOK, StepsOK, ReadsOK, MissionStates
<1> QED BY <1>2, <1>3 DEF Refresh

LEMMA PhaseLabels ==
  /\ {"admitting", "admitted", "refused", "salvaging", "integrating", "merging"}
       \subseteq PackagePcs \ PhasePcs
  /\ PhasePcs \subseteq PackagePcs /\ SyncPcs \subseteq PackagePcs \ PhasePcs
BY DEF PackagePcs, PhasePcs, SyncPcs

LEMMA AdmissionTypes ==
  ASSUME MissionTypes, NEW c \in Coordinators, NEW p \in Packages, Admit(c, p)
  PROVE  MissionTypes'
<1> USE Coordinating, PhaseLabels
    DEF MissionTypes, vars, packageVars, stepVars, readVars
<1>1. CASE StartAdmission(c, p)
  BY <1>1, GoOnTypes DEF StartAdmission, RowsOK, PackagesOK, StepsOK, ReadsOK
<1>2. CASE CommitAdmission(c, p)
  <2>1. AgentsOK'
    BY <1>2, GoOnTypes DEF CommitAdmission
  <2> QED BY <1>2, <2>1
       DEF CommitAdmission, SetPackage, SetJob, RowsOK, PackagesOK, StepsOK, ReadsOK,
           PackageStates, JobStates
<1>3. CASE AdmissionFails(c, p)
  BY <1>3, IdleTypes, IncidentTypes
     DEF AdmissionFails, RowsOK, PackagesOK, StepsOK, ReadsOK
<1>4. CASE ClaimAdmittedStep(c, p)
  <2>1. AgentsOK'
    BY <1>4, GoOnTypes DEF ClaimAdmittedStep, BeginPhase, PhasePcs
  <2>2. incidents' \in 0..MaxIncidents
    BY <1>4, IncidentTypes DEF ClaimAdmittedStep
  <2> QED BY <1>4, <2>1, <2>2
       DEF ClaimAdmittedStep, MayClaimAdmitted, BeginPhase, SetOwner, SetStep, RowsOK, PackagesOK, StepsOK,
           ReadsOK, StepStates
<1>5. CASE ReturnAdmission(c, p)
  <2>1. AgentsOK'
    BY <1>5, IdleTypes DEF ReturnAdmission
  <2> QED BY <1>5, <2>1
       DEF ReturnAdmission, SetPackage, RowsOK, PackagesOK, StepsOK, ReadsOK,
           PackageStates
<1>6. CASE ClaimEngineering(c, p)
  <2>1. AgentsOK'
    BY <1>6, GoOnTypes DEF ClaimEngineering, BeginPhase, PhasePcs
  <2> QED BY <1>6, <2>1
       DEF ClaimEngineering, BeginPhase, SetOwner, SetStep, RowsOK, PackagesOK, StepsOK,
           ReadsOK, StepStates
<1> QED BY <1>1, <1>2, <1>3, <1>4, <1>5, <1>6 DEF Admit

LEMMA JudgementTypes ==
  ASSUME MissionTypes, NEW p \in Packages, NEW status \in StepStates,
         NEW proof \in Evidence, Accept(p, status, proof) \/ Reject(p, status, proof)
  PROVE  /\ step' \in [Packages -> StepStates]
         /\ evidence' \in [Packages -> SUBSET Evidence]
         /\ incidents' \in 0..MaxIncidents
BY IncidentTypes
   DEF MissionTypes, RowsOK, StepsOK, Accept, Reject, SetStep

LEMMA HandOffTypes ==
  ASSUME MissionTypes, NEW p \in Packages, NEW status \in JobStates,
         HandOff(p, status) \/ SetJob(p, status)
  PROVE  job' \in [Packages -> JobStates]
BY DEF MissionTypes, StepsOK, HandOff, SetJob

LEMMA EndPhaseTypes ==
  ASSUME MissionTypes, NEW c \in Coordinators, NEW p \in Packages,
         NEW label \in SyncPcs \cup {"idle"}, EndPhase(c, p, label)
  PROVE  AgentsOK' /\ owner' \in [Packages -> Coordinators \cup {NoOne}]
<1>1. c \in Integrators
  BY Coordinating
<1>2. CASE label = "idle"
  BY <1>1, <1>2, IdleTypes DEF EndPhase, SetOwner, MissionTypes, StepsOK
<1>3. CASE label # "idle"
  BY <1>1, <1>3, GoOnTypes, PhaseLabels DEF EndPhase, SetOwner, MissionTypes, StepsOK
<1> QED BY <1>2, <1>3

LEMMA BeginPhaseTypes ==
  ASSUME MissionTypes, NEW c \in Coordinators, NEW p \in Packages,
         NEW label \in PhasePcs, BeginPhase(c, p, label)
  PROVE  AgentsOK' /\ owner' \in [Packages -> Coordinators \cup {NoOne}]
BY Coordinating, GoOnTypes, PhaseLabels DEF BeginPhase, SetOwner, MissionTypes, StepsOK

LEMMA CarryOutTypes ==
  ASSUME MissionTypes, NEW c \in Coordinators, NEW p \in Packages, CarryOut(c, p)
  PROVE  MissionTypes'
<1> USE DEF vars, packageVars, readVars
<1> DEFINE Ended == AgentsOK' /\ owner' \in [Packages -> Coordinators \cup {NoOne}]
<1>1. CASE EndEngineering(c, p)
  <2>1. job' \in [Packages -> JobStates]
    BY <1>1, HandOffTypes DEF EndEngineering, JobStates, MissionTypes, StepsOK
  <2>2. step' \in [Packages -> StepStates]
    BY <1>1 DEF EndEngineering, SetStep, StepStates, MissionTypes, StepsOK
  <2>3. Ended
    BY <1>1, EndPhaseTypes DEF EndEngineering
  <2>4. incidents' \in 0..MaxIncidents
    BY <1>1, IncidentTypes DEF EndEngineering, MissionTypes
  <2> QED BY <1>1, <2>1, <2>2, <2>3, <2>4
       DEF EndEngineering, MissionTypes, RowsOK, PackagesOK, StepsOK, ReadsOK
<1>2. CASE ClaimReview(c, p)
  <2>1. job' \in [Packages -> JobStates] /\ Ended
    BY <1>2, HandOffTypes, BeginPhaseTypes DEF ClaimReview, JobStates, PhasePcs
  <2> QED BY <1>2, <2>1
       DEF ClaimReview, MissionTypes, RowsOK, PackagesOK, StepsOK, ReadsOK
<1>3. CASE EndReview(c, p)
  <2>1. job' \in [Packages -> JobStates]
    BY <1>3, HandOffTypes DEF EndReview, JobStates, MissionTypes, StepsOK
  <2>2. /\ step' \in [Packages -> StepStates]
        /\ evidence' \in [Packages -> SUBSET Evidence]
        /\ incidents' \in 0..MaxIncidents
    BY <1>3, JudgementTypes, IncidentTypes
       DEF EndReview, StepStates, Evidence, MissionTypes, RowsOK, StepsOK
  <2>3. Ended
    BY <1>3, EndPhaseTypes DEF EndReview, SyncPcs
  <2> QED BY <1>3, <2>1, <2>2, <2>3
       DEF EndReview, MissionTypes, RowsOK, PackagesOK, StepsOK, ReadsOK
<1>4. CASE ClaimVerification(c, p)
  <2>1. job' \in [Packages -> JobStates] /\ Ended
    BY <1>4, HandOffTypes, BeginPhaseTypes DEF ClaimVerification, JobStates, PhasePcs
  <2> QED BY <1>4, <2>1
       DEF ClaimVerification, MissionTypes, RowsOK, PackagesOK, StepsOK, ReadsOK
<1>5. CASE RecordVerification(c, p)
  <2>1. job' \in [Packages -> JobStates]
    BY <1>5, HandOffTypes DEF RecordVerification, JobStates
  <2>2. /\ step' \in [Packages -> StepStates]
        /\ evidence' \in [Packages -> SUBSET Evidence]
        /\ incidents' \in 0..MaxIncidents
    BY <1>5, JudgementTypes DEF RecordVerification, StepStates, Evidence
  <2>3. Ended
    BY <1>5, EndPhaseTypes DEF RecordVerification, SyncPcs
  <2> QED BY <1>5, <2>1, <2>2, <2>3
       DEF RecordVerification, MissionTypes, RowsOK, PackagesOK, StepsOK, ReadsOK
<1>6. CASE ClaimCheckpoint(c, p)
  <2>1. job' \in [Packages -> JobStates] /\ Ended
    BY <1>6, HandOffTypes, BeginPhaseTypes DEF ClaimCheckpoint, JobStates, PhasePcs
  <2> QED BY <1>6, <2>1
       DEF ClaimCheckpoint, MissionTypes, RowsOK, PackagesOK, StepsOK, ReadsOK
<1>7. CASE RecordCheckpoint(c, p)
  <2>1. job' \in [Packages -> JobStates]
    BY <1>7, HandOffTypes DEF RecordCheckpoint, JobStates
  <2>2. /\ step' \in [Packages -> StepStates]
        /\ evidence' \in [Packages -> SUBSET Evidence]
        /\ incidents' \in 0..MaxIncidents
    BY <1>7, JudgementTypes DEF RecordCheckpoint, StepStates, Evidence
  <2>3. Ended
    BY <1>7, EndPhaseTypes DEF RecordCheckpoint, SyncPcs
  <2> QED BY <1>7, <2>1, <2>2, <2>3
       DEF RecordCheckpoint, MissionTypes, RowsOK, PackagesOK, StepsOK, ReadsOK
<1>8. CASE SyncPackage(c, p)
  <2>1. pkg' \in [Packages -> PackageStates]
    <3>1. Due[pc[c]] \in PackageStates
      BY <1>8 DEF SyncPackage, Due, SyncPcs, PackageStates
    <3> QED BY <1>8, <3>1 DEF SyncPackage, SetPackage, MissionTypes, RowsOK
  <2>2. AgentsOK'
    BY <1>8, Coordinating, IdleTypes, GoOnTypes, PhaseLabels DEF SyncPackage, MissionTypes
  <2> QED BY <1>8, <2>1, <2>2
       DEF SyncPackage, MissionTypes, RowsOK, PackagesOK, StepsOK, ReadsOK, stepVars
<1>9. CASE HeartbeatStops(c, p)
  BY <1>9 DEF HeartbeatStops, MissionTypes, RowsOK, PackagesOK, StepsOK, AgentsOK,
       ReadsOK, stepVars
<1>10. CASE EngineeringCrashes(c, p)
  <2>1. AgentsOK'
    BY <1>10, Coordinating, GoOnTypes, PhaseLabels DEF EngineeringCrashes, MissionTypes
  <2>2. incidents' \in 0..MaxIncidents
    BY <1>10, IncidentTypes DEF EngineeringCrashes, MissionTypes
  <2> QED BY <1>10, <2>1, <2>2
       DEF EngineeringCrashes, MissionTypes, RowsOK, PackagesOK, StepsOK, ReadsOK, stepVars
<1>11. CASE Salvage(c, p)
  <2>1. AgentsOK'
    BY <1>11, Coordinating, IdleTypes DEF Salvage, MissionTypes
  <2>2. StepsOK'
    BY <1>11 DEF Salvage, SetStep, SetJob, SetOwner, stepVars, MissionTypes, StepsOK,
                 StepStates, JobStates
  <2> QED BY <1>11, <2>1, <2>2 DEF Salvage, MissionTypes, RowsOK, PackagesOK, ReadsOK
<1>12. CASE LosePhase(c, p)
  <2>1. AgentsOK'
    BY <1>12, Coordinating, IdleTypes DEF LosePhase, MissionTypes
  <2> QED BY <1>12, <2>1
       DEF LosePhase, MissionTypes, RowsOK, PackagesOK, StepsOK, ReadsOK, stepVars
<1> QED BY <1>1, <1>2, <1>3, <1>4, <1>5, <1>6, <1>7, <1>8, <1>9, <1>10, <1>11, <1>12
        DEF CarryOut

LEMMA IntegrationTypes ==
  ASSUME MissionTypes, NEW i \in Integrators, IntegratePackage(i)
  PROVE  MissionTypes'
<1> USE DEF vars, packageVars, readVars, stepVars, agentVars
<1>1. missionStatus' \in MissionStates
  BY DEF IntegratePackage, RunIntegration, IntegrationStops, CompleteIntegration,
       IntegrationRefused, BlockMission, MissionTypes, RowsOK, MissionStates
<1>2. /\ UNCHANGED <<pkg, evidence, packageVars, stepVars, readVars>>
  BY DEF IntegratePackage, RunIntegration, IntegrationStops, CompleteIntegration,
         IntegrationRefused
<1>3. incidents' \in 0..MaxIncidents
  BY IncidentTypes DEF IntegratePackage, RunIntegration, IntegrationStops,
     CompleteIntegration, IntegrationRefused, MissionTypes, NoIncident
<1>4. AgentsOK'
  <2> USE DEF MissionTypes
  <2>1. CASE RunIntegration(i)
    <3>1. ASSUME NEW p \in Packages, Goto(i, "merging", p) PROVE AgentsOK'
      BY <3>1, GoOnTypes, PhaseLabels
    <3> QED BY <2>1, <3>1, IdleTypes DEF RunIntegration, AgentsOK
  <2>2. CASE IntegrationStops(i)
    BY <2>2, IdleTypes DEF IntegrationStops, AgentsOK
  <2>3. CASE CompleteIntegration(i)
    <3>1. "refreshing" \in Pcs /\ "refreshing" \notin PackagePcs \cup PhasePcs
      BY DEF Pcs, PackagePcs, PhasePcs, SyncPcs
    <3> QED BY <2>3, <3>1, GotoTypes DEF CompleteIntegration
  <2>4. CASE IntegrationRefused(i)
    BY <2>4, IdleTypes DEF IntegrationRefused
  <2> QED BY <2>1, <2>2, <2>3, <2>4 DEF IntegratePackage
<1> QED BY <1>1, <1>2, <1>3, <1>4
     DEF MissionTypes, RowsOK, PackagesOK, StepsOK, ReadsOK

LEMMA RecoveryTypes ==
  ASSUME MissionTypes, Recover \/ \E p \in Packages : AnswerHuman(p)
  PROVE  MissionTypes'
<1> USE DEF MissionTypes, vars, packageVars, readVars, stepVars, agentVars
<1>1. CASE ReconcileMissionControls
  <2>1. PICK live \in MayBeInFlight : CancelSteps(Finalized(live))
    BY <1>1 DEF ReconcileMissionControls
  <2> QED BY <1>1, <2>1
       DEF ReconcileMissionControls, CancelSteps, RowsOK, PackagesOK, StepsOK,
           AgentsOK, ReadsOK, StepStates
<1>2. ASSUME NEW p \in Packages, PlanJob(p) PROVE MissionTypes'
  BY <1>2 DEF PlanJob, SetStep, SetJob, RowsOK, PackagesOK, StepsOK, AgentsOK, ReadsOK,
              StepStates, JobStates
<1>3. ASSUME NEW p \in Packages, RecoverPackage(p) PROVE MissionTypes'
  BY <1>3 DEF RecoverPackage, ReturnPackage, SetPackage, RowsOK, PackagesOK, StepsOK,
              AgentsOK, ReadsOK, PackageStates
<1>4. ASSUME NEW p \in Packages, RecoverStep(p) PROVE MissionTypes'
  BY <1>4 DEF RecoverStep, SetOwner, RowsOK, PackagesOK, StepsOK, AgentsOK, ReadsOK
<1>5. ASSUME NEW c \in Coordinators, NEW p \in Packages, DetectAbandoned(c, p)
      PROVE  MissionTypes'
  <2>1. AgentsOK'
    BY <1>5, Coordinating, GoOnTypes, PhaseLabels DEF DetectAbandoned
  <2> QED BY <1>5, <2>1 DEF DetectAbandoned, RowsOK, PackagesOK, StepsOK, ReadsOK
<1>6. ASSUME NEW p \in Packages, AnswerHuman(p) PROVE MissionTypes'
  BY <1>6 DEF AnswerHuman, SetStep, SetJob, RowsOK, PackagesOK, StepsOK, AgentsOK, ReadsOK,
              StepStates, JobStates
<1> QED BY <1>1, <1>2, <1>3, <1>4, <1>5, <1>6 DEF Recover

NoReruns == "rerun_verification" \notin Operations

LEMMA Requests ==
  ASSUME NEW p, Operate(p)
  PROVE  \/ PauseJob(p) \/ ResumeJob(p) \/ StopJob(p) \/ RetryJob(p) \/ RecoverJob(p)
         \/ RefreshPlanning(p) \/ (~NoReruns /\ RerunVerification(p))
         \/ \E status \in {"paused", "running", "cancelled"} : LabelOnly(p, status)
BY DEF Operate, Disturb, Restore, NoReruns

LEMMA OperationTypes ==
  ASSUME MissionTypes, NEW p \in Packages, Operate(p)
  PROVE  MissionTypes'
<1> USE DEF MissionTypes, RowsOK, PackagesOK, StepsOK
<1>1. AgentsOK' /\ ReadsOK' /\ UNCHANGED <<evidence, missionStatus, item, tree>>
  BY IncidentTypes DEF Operate, agentVars, readVars, AgentsOK, ReadsOK
<1>2. /\ pkg' \in [Packages -> PackageStates]
      /\ worker' \in [Packages -> Coordinators \cup {NoOne}]
      /\ job' \in [Packages -> JobStates]
      /\ step' \in [Packages -> StepStates]
      /\ owner' \in [Packages -> Coordinators \cup {NoOne}]
  <2> USE DEF PackageStates, JobStates, StepStates, SetJob, SetStep, SetPackage, SetOwner,
              LabelOnly, RequeueStep, ReturnPackage
  <2>1. CASE PauseJob(p) \/ RefreshPlanning(p)
             \/ \E status \in {"paused", "running", "cancelled"} : LabelOnly(p, status)
    BY <2>1 DEF PauseJob, RefreshPlanning
  <2>2. CASE ResumeJob(p)
    BY <2>2 DEF ResumeJob
  <2>3. CASE StopJob(p)
    BY <2>3 DEF StopJob
  <2>4. CASE RetryJob(p)
    BY <2>4 DEF RetryJob
  <2>5. CASE RecoverJob(p)
    BY <2>5 DEF RecoverJob
  <2>6. CASE RerunVerification(p)
    BY <2>6 DEF RerunVerification
  <2> QED BY <2>1, <2>2, <2>3, <2>4, <2>5, <2>6, Requests
<1> QED BY <1>1, <1>2

LEMMA ControlTypes ==
  ASSUME MissionTypes, ControlMission
  PROVE  MissionTypes'
<1>1. PICK action \in AllowedMissionActions[missionStatus] :
        /\ missionStatus' = Target[action]
        /\ \/ action = "pause" /\ PauseMission /\ Incident
           \/ action = "resume" /\ ResumeMission /\ NoIncident
           \/ action = "cancel" /\ CancelMission /\ NoIncident
  BY DEF ControlMission
<1>2. missionStatus' \in MissionStates
  BY <1>1 DEF Target, MissionStates
<1>3. incidents' \in 0..MaxIncidents
  BY <1>1, IncidentTypes DEF MissionTypes
<1>4. PauseMission \/ ResumeMission \/ CancelMission
  BY <1>1
<1>5. /\ pkg' \in [Packages -> PackageStates]
      /\ worker' \in [Packages -> Coordinators \cup {NoOne}]
      /\ job' \in [Packages -> JobStates]
      /\ step' \in [Packages -> StepStates]
      /\ owner' \in [Packages -> Coordinators \cup {NoOne}]
  <2> USE DEF MissionTypes, RowsOK, PackagesOK, StepsOK, PackageStates, JobStates,
              StepStates
  <2>1. CASE PauseMission
    BY <2>1 DEF PauseMission, ReturnAdmissions
  <2>2. CASE ResumeMission
    BY <2>2 DEF ResumeMission
  <2>3. CASE CancelMission
    BY <2>3 DEF CancelMission, CancelSteps
  <2> QED BY <1>4, <2>1, <2>2, <2>3
<1> QED BY <1>2, <1>3, <1>5
     DEF ControlMission, MissionTypes, RowsOK, PackagesOK, StepsOK, AgentsOK, ReadsOK,
         agentVars, readVars

LEMMA CrashTypes ==
  ASSUME MissionTypes, NEW i \in Integrators, Crash(i)
  PROVE  MissionTypes'
<1>1. AgentsOK' /\ incidents' \in 0..MaxIncidents
  BY IdleTypes, IncidentTypes DEF Crash, MissionTypes
<1> QED BY <1>1
     DEF Crash, MissionTypes, RowsOK, PackagesOK, StepsOK, ReadsOK, packageVars,
         stepVars, MissionStates

LEMMA MissionStepTypes ==
  ASSUME MissionTypes, [MissionNext]_allVars
  PROVE  MissionTypes'
<1>1. CASE UNCHANGED allVars
  BY <1>1 DEF allVars, vars, missionVars, packageVars, stepVars, agentVars, readVars,
       MissionTypes, RowsOK, PackagesOK, StepsOK, AgentsOK, ReadsOK
<1>2. CASE MissionNext
  BY <1>2, PopulationTypes, CreationTypes, RefreshTypes, AdmissionTypes, CarryOutTypes,
     IntegrationTypes, RecoveryTypes, OperationTypes, ControlTypes, CrashTypes
     DEF MissionNext, Coordinate
<1> QED BY <1>1, <1>2

-----------------------------------------------------------------------------
(* Phases and steps                                                        *)

\* A step is in the status of its owner's phase.  A reviewer either owns the
\* step under a living heartbeat or has lost it to a cancellation, and there is
\* one at most: its verdict, which is fenced by nothing, needs that.
PhaseIsOwn ==
  /\ \A c \in Coordinators :
       pc[c] \in PhasePcs /\ owner[task[c]] = c => step[task[c]] = StepAt[pc[c]]
  /\ \A c \in Coordinators :
       pc[c] = "reviewing" =>
         (owner[task[c]] = c /\ c \in beating) \/ step[task[c]] = "cancelled"
  /\ \A c, d \in Coordinators :
       pc[c] = "reviewing" /\ pc[d] = "reviewing" /\ task[c] = task[d] => c = d

\* What a step has reached is proven, and a commit is proven by no other step
\* than a complete one.  A verification that is run again needs no review.
EvidenceFits ==
  \A p \in Packages :
    /\ pkg[p] = "absent" => step[p] = "absent"
    /\ NoReruns /\ step[p] \in {"verification", "checkpoint", "complete"}
         => "approved" \in evidence[p]
    /\ step[p] \in {"checkpoint", "complete"} => "verified" \in evidence[p]
    /\ "committed" \in evidence[p] <=> step[p] = "complete"

\* A package is told to be complete only when its step is.
SyncIsTrue ==
  \A c \in Coordinators : pc[c] = "sync_complete" => step[task[c]] = "complete"

StepInv == MissionTypes /\ PhaseIsOwn /\ EvidenceFits /\ SyncIsTrue

\* What a step may do to the steps and their evidence.
CompleteStays == \A p \in Packages : step[p] = "complete" => step'[p] = "complete"

BoundedPhasesStay ==
  \A c \in beating :
    LET p == task[c] IN
    /\ pc[c] \in PhasePcs \ {"coding"} /\ owner[p] = c
    /\ UNCHANGED <<pc[c], task[c]>>
    => \/ UNCHANGED <<step[p], owner[p]>>
       \/ JobIsStopped(p) \/ RerunVerification(p)

EvidenceGrows ==
  \/ UNCHANGED evidence
  \/ \E p \in Packages \ Earned, new \in SUBSET Evidence :
       evidence' = [evidence EXCEPT ![p] = new]

StepEffect == CompleteStays /\ BoundedPhasesStay /\ EvidenceGrows

Bounded(c) == c \in beating /\ pc[c] \in PhasePcs \ {"coding"} /\ owner[task[c]] = c

LEMMA PhaseStatus ==
  /\ StepAt["coding"] = "running" /\ StepAt["reviewing"] = "review"
  /\ StepAt["verifying"] = "verification" /\ StepAt["checkpointing"] = "checkpoint"
  /\ \A label \in PhasePcs :
       /\ StepAt[label] \in {"running", "review", "verification", "checkpoint"}
       /\ StepAt[label] = "running" => label = "coding"
       /\ StepAt[label] = "review" => label = "reviewing"
BY DEF StepAt, PhasePcs

LEMMA AtWorkHasPackage ==
  ASSUME MissionTypes, NEW c \in Coordinators, pc[c] \in PhasePcs \cup {"sync_complete"}
  PROVE  task[c] \in Packages
BY Coordinating, PhaseLabels DEF MissionTypes, AgentsOK, SyncPcs

\* The owner of a bounded phase renews its lease.
LEMMA BoundedIsRenewed ==
  ASSUME StepInv, NEW c \in Coordinators, Bounded(c)
  PROVE  /\ task[c] \in Packages /\ Renewed(task[c])
         /\ step[task[c]] \in {"review", "verification", "checkpoint"}
<1>1. task[c] \in Packages
  BY AtWorkHasPackage DEF Bounded, StepInv
<1>2. step[task[c]] = StepAt[pc[c]]
  BY DEF Bounded, StepInv, PhaseIsOwn
<1> QED BY <1>1, <1>2, PhaseStatus DEF Bounded, Renewed

LEMMA EarnedIsComplete ==
  ASSUME StepInv, NEW p \in Packages
  PROVE  /\ p \in Earned => step[p] = "complete"
         /\ NoReruns /\ step[p] = "complete" => p \in Earned
BY DEF StepInv, EvidenceFits, Earned, Evidence, MissionTypes, RowsOK

\* No coordinator enters a phase or learns that a step is complete, and the
\* heartbeat of an owner goes on as long as its phase.
NobodyEnters ==
  \A c \in Coordinators :
    pc'[c] \in PhasePcs \cup {"sync_complete"} =>
      /\ pc'[c] = pc[c] /\ task'[c] = task[c]
      /\ (c \in beating /\ owner[task[c]] = c /\ pc[c] = "reviewing") => c \in beating'

LEMMA GotoElsewhere ==
  ASSUME MissionTypes, NEW i \in Integrators, NEW label, NEW p, Goto(i, label, p),
         label \notin PhasePcs \cup {"sync_complete"}
  PROVE  NobodyEnters
BY Coordinating DEF NobodyEnters, Goto, MissionTypes, AgentsOK

LEMMA IdleElsewhere ==
  ASSUME MissionTypes, NEW i \in Integrators, Idle(i)
  PROVE  NobodyEnters
BY GotoElsewhere DEF Idle, PhasePcs

\* The packages that exist go on existing.
NobodyVanishes == \A p \in Packages : pkg'[p] = "absent" => pkg[p] = "absent"

\* What a step without a verdict may do to a step of a package: nothing; take a
\* phase from an owner that does not renew its lease; move a step that is in no
\* phase, or in an abandoned one, to where nothing needs to be proven; cancel
\* it; or have it verified again.
Kept(p)      == step'[p] = step[p] /\ owner'[p] = owner[p]
Released(p)  == step'[p] = step[p] /\ owner'[p] = NoOne /\ ~Renewed(p)
Requeues(p)  == /\ step[p] \in {"absent", "queued", "running", "changes_requested",
                                "blocked", "failed", "needs_human"}
                /\ step'[p] \notin {"verification", "checkpoint", "complete"}
                /\ owner'[p] = NoOne \/ (owner'[p] = owner[p] /\ step[p] # "running")
                /\ pkg'[p] # "absent"
Cancelled(p) == /\ step[p] # "complete" /\ step'[p] = "cancelled"
                /\ owner'[p] = NoOne /\ pkg'[p] # "absent"
                /\ ~Renewed(p) \/ JobIsStopped(p)
Rerun(p)     == /\ ~NoReruns /\ RerunVerification(p)
                /\ step[p] \in {"changes_requested", "checkpoint", "verification"}
                /\ step'[p] = "verification" /\ owner'[p] = NoOne /\ pkg'[p] # "absent"

Moved(p) == Kept(p) \/ Released(p) \/ Requeues(p) \/ Cancelled(p) \/ Rerun(p)

LEMMA MovedSteps ==
  ASSUME StepInv, MissionTypes', NobodyEnters, NobodyVanishes, UNCHANGED evidence,
         \A p \in Packages : Moved(p)
  PROVE  StepInv' /\ StepEffect
<1> USE PhaseStatus DEF StepInv
<1> NoOne \notin Coordinators
  BY MissionAssumption
<1>1. ASSUME NEW c \in Coordinators, pc'[c] \in PhasePcs, owner'[task'[c]] = c
      PROVE  step'[task'[c]] = StepAt[pc'[c]]
  <2>1. /\ pc[c] \in PhasePcs /\ pc'[c] = pc[c] /\ task'[c] = task[c] /\ task[c] \in Packages
    BY <1>1, AtWorkHasPackage DEF NobodyEnters
  <2>2. Kept(task[c]) \/ Requeues(task[c])
    BY <1>1, <2>1 DEF Moved, Released, Cancelled, Rerun
  <2>3. owner[task[c]] = c /\ step[task[c]] = StepAt[pc[c]]
    BY <1>1, <2>1, <2>2 DEF Kept, Requeues, PhaseIsOwn
  <2>4. Kept(task[c])
    BY <1>1, <2>1, <2>2, <2>3 DEF Requeues
  <2> QED BY <2>1, <2>3, <2>4 DEF Kept
<1>2. ASSUME NEW c \in Coordinators, pc'[c] = "reviewing"
      PROVE  (owner'[task'[c]] = c /\ c \in beating') \/ step'[task'[c]] = "cancelled"
  <2>1. /\ pc[c] = "reviewing" /\ pc[c] \in PhasePcs /\ task'[c] = task[c]
        /\ task[c] \in Packages
    BY <1>2, AtWorkHasPackage DEF NobodyEnters, PhasePcs
  <2>2. CASE owner[task[c]] = c /\ c \in beating
    <3>1. step[task[c]] = "review" /\ Renewed(task[c])
      BY <2>1, <2>2 DEF PhaseIsOwn, Renewed
    <3>2. Kept(task[c]) \/ Cancelled(task[c])
      BY <2>1, <3>1 DEF Moved, Released, Requeues, Rerun
    <3> QED BY <1>2, <2>1, <2>2, <3>2 DEF Kept, Cancelled, NobodyEnters, PhasePcs
  <2>3. CASE step[task[c]] = "cancelled"
    BY <2>1, <2>3 DEF Moved, Kept, Released, Requeues, Cancelled, Rerun
  <2> QED BY <2>1, <2>2, <2>3 DEF PhaseIsOwn
<1>3. PhaseIsOwn'
  BY <1>1, <1>2 DEF PhaseIsOwn, NobodyEnters, PhasePcs
<1>4. CompleteStays
  BY DEF CompleteStays, Moved, Kept, Released, Requeues, Cancelled, Rerun
<1>5. EvidenceFits'
  <2> SUFFICES ASSUME NEW p \in Packages
               PROVE  /\ pkg'[p] = "absent" => step'[p] = "absent"
                      /\ NoReruns /\ step'[p] \in {"verification", "checkpoint", "complete"}
                           => "approved" \in evidence[p]
                      /\ step'[p] \in {"checkpoint", "complete"} => "verified" \in evidence[p]
                      /\ "committed" \in evidence[p] <=> step'[p] = "complete"
    BY DEF EvidenceFits, NoReruns
  <2>1. Moved(p) /\ (pkg'[p] = "absent" => pkg[p] = "absent")
    BY DEF NobodyVanishes
  <2> QED BY <2>1
          DEF Moved, Kept, Released, Requeues, Cancelled, Rerun, EvidenceFits
<1>6. SyncIsTrue'
  BY <1>4, AtWorkHasPackage DEF SyncIsTrue, CompleteStays, NobodyEnters
<1>7. BoundedPhasesStay
  <2> SUFFICES ASSUME NEW c \in beating, Bounded(c), UNCHANGED <<pc[c], task[c]>>
               PROVE  \/ UNCHANGED <<step[task[c]], owner[task[c]]>>
                      \/ JobIsStopped(task[c]) \/ RerunVerification(task[c])
    BY DEF BoundedPhasesStay, Bounded
  <2>1. c \in Coordinators
    BY DEF MissionTypes, AgentsOK
  <2> QED BY <2>1, BoundedIsRenewed
          DEF Moved, Kept, Released, Requeues, Cancelled, Rerun
<1> QED BY <1>3, <1>4, <1>5, <1>6, <1>7 DEF StepEffect, EvidenceGrows

\* Steps and evidence are left as they are.
LEMMA QuietStep ==
  ASSUME StepInv, MissionTypes', NobodyEnters, NobodyVanishes,
         UNCHANGED <<step, owner, evidence>>
  PROVE  StepInv' /\ StepEffect
BY MovedSteps DEF Moved, Kept

\* A coordinator enters a phase of a step whose lease nobody renews.
LEMMA BeginStep ==
  ASSUME StepInv, MissionTypes', NEW c \in Coordinators, NEW p \in Packages,
         NEW label \in PhasePcs, BeginPhase(c, p, label), ~Renewed(p),
         \A q \in Packages : step'[q] = IF q = p THEN StepAt[label] ELSE step[q],
         step[p] \in {"queued", "changes_requested", StepAt[label]},
         label = "coding" \/ step[p] = StepAt[label],
         UNCHANGED <<pkg, evidence>>
  PROVE  StepInv' /\ StepEffect
<1> USE Coordinating, PhaseStatus
<1>1. /\ pc'[c] = label /\ task'[c] = p /\ beating' = beating \cup {c}
      /\ \A q \in Packages : owner'[q] = IF q = p THEN c ELSE owner[q]
      /\ \A d \in Coordinators : d # c => pc'[d] = pc[d] /\ task'[d] = task[d]
  BY DEF BeginPhase, SetOwner, Goto, StepInv, MissionTypes, AgentsOK, StepsOK
<1>2. step[p] # "cancelled" /\ step[p] # "complete"
  OBVIOUS
<1>3. \A d \in Coordinators : pc[d] \in PhasePcs \cup {"sync_complete"} => task[d] \in Packages
  BY AtWorkHasPackage DEF StepInv
<1>4. \A d \in Coordinators : pc[d] = "reviewing" => task[d] # p
  BY <1>2 DEF StepInv, PhaseIsOwn, Renewed, PhasePcs
<1>5. PhaseIsOwn'
  BY <1>1, <1>3, <1>4 DEF PhaseIsOwn, StepInv, PhasePcs
<1>6. EvidenceFits'
  BY <1>2 DEF EvidenceFits, StepInv, NoReruns
<1>7. CompleteStays
  BY <1>2 DEF CompleteStays
<1>8. SyncIsTrue'
  BY <1>1, <1>3, <1>7 DEF SyncIsTrue, StepInv, CompleteStays, PhasePcs
<1>9. BoundedPhasesStay
  <2> SUFFICES ASSUME NEW d \in beating, Bounded(d), UNCHANGED <<pc[d], task[d]>>
               PROVE  UNCHANGED <<step[task[d]], owner[task[d]]>>
    BY DEF BoundedPhasesStay, Bounded
  <2>1. d \in Coordinators
    BY DEF StepInv, MissionTypes, AgentsOK
  <2>2. task[d] \in Packages /\ task[d] # p
    BY <2>1, BoundedIsRenewed
  <2> QED BY <1>1, <2>2
<1> QED BY <1>5, <1>6, <1>7, <1>8, <1>9 DEF StepInv, StepEffect, EvidenceGrows

\* A coordinator ends its phase with a status and a judgement that agree.
LEMMA EndStep ==
  ASSUME StepInv, MissionTypes', NEW c \in Coordinators, NEW p \in Packages,
         pc[c] \in PhasePcs, task[c] = p, owner[p] = c \/ pc[c] = "reviewing",
         NEW label \in SyncPcs \cup {"idle"}, EndPhase(c, p, label),
         NEW status \in StepStates, NEW new \in SUBSET Evidence,
         step' = [step EXCEPT ![p] = status], evidence' = [evidence EXCEPT ![p] = new],
         NoReruns /\ status \in {"verification", "checkpoint", "complete"}
           => "approved" \in new,
         status \in {"checkpoint", "complete"} => "verified" \in new,
         "committed" \in new <=> status = "complete",
         label = "sync_complete" => status = "complete",
         NobodyVanishes
  PROVE  StepInv' /\ StepEffect
<1> USE Coordinating, PhaseStatus DEF StepInv, MissionTypes
<1> NoOne \notin Coordinators
  BY MissionAssumption
<1>1. /\ pc'[c] = label /\ label \notin PhasePcs /\ beating' = beating \ {c}
      /\ label # "idle" => task'[c] = p
      /\ \A q \in Packages : owner'[q] = IF q = p THEN NoOne ELSE owner[q]
      /\ \A d \in Coordinators : d # c => pc'[d] = pc[d] /\ task'[d] = task[d]
  BY DEF EndPhase, SetOwner, Idle, Goto, AgentsOK, StepsOK, SyncPcs, PhasePcs
<1>2. /\ step'[p] = status /\ evidence'[p] = new
      /\ \A q \in Packages : q # p => step'[q] = step[q] /\ evidence'[q] = evidence[q]
  BY DEF StepsOK, RowsOK
<1>3. \A d \in Coordinators : pc[d] \in PhasePcs \cup {"sync_complete"} => task[d] \in Packages
  BY AtWorkHasPackage
<1>4. /\ step[p] \in {"running", "review", "verification", "checkpoint", "cancelled"}
      /\ owner[p] = c => step[p] = StepAt[pc[c]]
  BY DEF PhaseIsOwn
<1>5. ASSUME NEW d \in Coordinators, d # c, pc[d] = "reviewing" PROVE task[d] # p
  BY <1>4, <1>5 DEF PhaseIsOwn
<1>6. PhaseIsOwn'
  BY <1>1, <1>2, <1>3, <1>5 DEF PhaseIsOwn, PhasePcs
<1>7. EvidenceFits'
  <2> SUFFICES ASSUME NEW q \in Packages
               PROVE  /\ pkg'[q] = "absent" => step'[q] = "absent"
                      /\ NoReruns /\ step'[q] \in {"verification", "checkpoint", "complete"}
                           => "approved" \in evidence'[q]
                      /\ step'[q] \in {"checkpoint", "complete"} => "verified" \in evidence'[q]
                      /\ "committed" \in evidence'[q] <=> step'[q] = "complete"
    BY DEF EvidenceFits, NoReruns
  <2>1. CASE q = p
    BY <1>2, <1>4, <2>1 DEF EvidenceFits, NobodyVanishes
  <2>2. CASE q # p
    BY <1>2, <2>2 DEF EvidenceFits, NobodyVanishes
  <2> QED BY <2>1, <2>2
<1>8. CompleteStays
  BY <1>2, <1>4 DEF CompleteStays
<1>9. SyncIsTrue'
  <2> SUFFICES ASSUME NEW d \in Coordinators, pc'[d] = "sync_complete"
               PROVE  step'[task'[d]] = "complete"
    BY DEF SyncIsTrue
  <2>1. CASE d = c
    BY <1>1, <1>2, <2>1
  <2>2. CASE d # c
    BY <1>1, <1>3, <1>8, <2>2 DEF SyncIsTrue, CompleteStays
  <2> QED BY <2>1, <2>2
<1>10. BoundedPhasesStay
  <2> SUFFICES ASSUME NEW d \in beating, Bounded(d), UNCHANGED <<pc[d], task[d]>>
               PROVE  UNCHANGED <<step[task[d]], owner[task[d]]>>
    BY DEF BoundedPhasesStay, Bounded
  <2>1. d \in Coordinators /\ d # c
    BY <1>1 DEF AgentsOK
  <2>2. task[d] \in Packages /\ step[task[d]] \in {"review", "verification", "checkpoint"}
    BY <2>1, BoundedIsRenewed
  <2>3. task[d] # p
    BY <2>1, <2>2 DEF Bounded, PhaseIsOwn
  <2> QED BY <1>1, <1>2, <2>2, <2>3
<1>11. EvidenceGrows
  BY <1>4, EarnedIsComplete DEF EvidenceGrows
<1> QED BY <1>6, <1>7, <1>8, <1>9, <1>10, <1>11 DEF StepEffect

LEMMA CreationSteps ==
  ASSUME StepInv, MissionTypes', NEW p \in Packages, NEW i, CreateWorkPackage(p, i),
         UNCHANGED agentVars
  PROVE  StepInv' /\ StepEffect
<1>1. step[p] = "absent"
  BY DEF CreateWorkPackage, StepInv, EvidenceFits
<1>2. /\ step' = [step EXCEPT ![p] = "queued"] /\ pkg' = [pkg EXCEPT ![p] = "ready"]
      /\ UNCHANGED <<evidence, owner>>
  BY DEF CreateWorkPackage, SetStep, SetPackage
<1>3. NobodyVanishes /\ NobodyEnters
  BY <1>2 DEF NobodyVanishes, NobodyEnters, StepInv, MissionTypes, RowsOK, agentVars
<1>4. ASSUME NEW q \in Packages PROVE Moved(q)
  BY <1>1, <1>2 DEF Moved, Kept, Requeues, StepInv, MissionTypes, RowsOK, StepsOK
<1> QED BY <1>2, <1>3, <1>4, MovedSteps

LEMMA PopulationSteps ==
  ASSUME StepInv, MissionTypes', NEW c \in Coordinators, Populate(c)
  PROVE  StepInv' /\ StepEffect
<1> USE Coordinating DEF vars, packageVars, stepVars, agentVars
<1>1. CASE StartPopulating(c) \/ EndPopulating(c)
  <2>1. NobodyEnters
    BY <1>1, GotoElsewhere DEF StartPopulating, EndPopulating, StepInv, PhasePcs
  <2> QED BY <1>1, <2>1, QuietStep DEF StartPopulating, EndPopulating, NobodyVanishes
<1>2. CASE CreateFromRoadmap(c)
  BY <1>2, CreationSteps DEF CreateFromRoadmap
<1> QED BY <1>1, <1>2 DEF Populate

LEMMA RefreshSteps ==
  ASSUME StepInv, MissionTypes', NEW i \in Integrators,
         Refresh(i) \/ IntegratePackage(i) \/ Crash(i)
  PROVE  StepInv' /\ StepEffect
<1> USE DEF vars, packageVars, stepVars, agentVars, StepInv
<1>1. UNCHANGED <<step, owner, evidence, pkg>>
  BY DEF Refresh, ReadStatus, WriteStatus, IntegratePackage, RunIntegration,
         IntegrationStops, CompleteIntegration, IntegrationRefused, Crash
<1>2. NobodyEnters
  <2>1. CASE UNCHANGED <<pc, task, beating>>
    BY <2>1 DEF NobodyEnters
  <2>2. CASE Idle(i)
    BY <2>2, IdleElsewhere
  <2>3. CASE \E label \in {"writing", "merging", "refreshing"} : \E p : Goto(i, label, p)
    BY <2>3, GotoElsewhere DEF PhasePcs
  <2> QED BY <2>1, <2>2, <2>3
          DEF Refresh, ReadStatus, WriteStatus, IntegratePackage, RunIntegration,
              IntegrationStops, CompleteIntegration, IntegrationRefused, Crash
<1> QED BY <1>1, <1>2, QuietStep DEF NobodyVanishes

LEMMA ClaimSteps ==
  ASSUME StepInv, MissionTypes', NEW c \in Coordinators, NEW p \in Packages,
         \/ ClaimAdmittedStep(c, p) \/ ClaimEngineering(c, p) \/ ClaimReview(c, p)
         \/ ClaimVerification(c, p) \/ ClaimCheckpoint(c, p)
  PROVE  StepInv' /\ StepEffect
<1> USE PhaseStatus DEF vars, packageVars
<1>1. CASE \/ ClaimAdmittedStep(c, p) /\ Goto(c, "refused", p) /\ UNCHANGED <<step, owner>>
  <2>1. NobodyEnters
    BY <1>1, GotoElsewhere, Coordinating DEF StepInv, PhasePcs
  <2> QED BY <1>1, <2>1, QuietStep DEF ClaimAdmittedStep, MayClaimAdmitted, NobodyVanishes
<1>2. CASE Runnable(p) /\ SetStep(p, "running") /\ BeginPhase(c, p, "coding")
           /\ UNCHANGED <<pkg, evidence>>
  <2>1. /\ "coding" \in PhasePcs
        /\ \A q \in Packages : step'[q] = IF q = p THEN "running" ELSE step[q]
    BY <1>2 DEF PhasePcs, SetStep, StepInv, MissionTypes, StepsOK
  <2> QED BY <1>2, <2>1, BeginStep DEF Runnable
<1>3. CASE ClaimReview(c, p)
  BY <1>3, BeginStep DEF ClaimReview, PhasePcs
<1>4. CASE ClaimVerification(c, p)
  BY <1>4, BeginStep DEF ClaimVerification, PhasePcs
<1>5. CASE ClaimCheckpoint(c, p)
  BY <1>5, BeginStep DEF ClaimCheckpoint, PhasePcs
<1> QED BY <1>1, <1>2, <1>3, <1>4, <1>5 DEF ClaimAdmittedStep, MayClaimAdmitted, ClaimEngineering

LEMMA AdmissionSteps ==
  ASSUME StepInv, MissionTypes', NEW c \in Coordinators, NEW p \in Packages, Admit(c, p)
  PROVE  StepInv' /\ StepEffect
<1> USE Coordinating DEF vars, packageVars, stepVars, StepInv
<1>1. CASE StartAdmission(c, p) \/ CommitAdmission(c, p) \/ AdmissionFails(c, p)
           \/ ReturnAdmission(c, p)
  <2>1. NobodyEnters
    BY <1>1, GotoElsewhere, IdleElsewhere
       DEF StartAdmission, CommitAdmission, AdmissionFails, ReturnAdmission, PhasePcs
  <2>2. UNCHANGED <<step, owner, evidence>>
    BY <1>1 DEF StartAdmission, CommitAdmission, AdmissionFails, ReturnAdmission
  <2>3. NobodyVanishes
    BY <1>1 DEF StartAdmission, CommitAdmission, AdmissionFails, ReturnAdmission,
                SetPackage, NobodyVanishes, MissionTypes, RowsOK
  <2> QED BY <2>1, <2>2, <2>3, QuietStep
<1>2. CASE ClaimAdmittedStep(c, p) \/ ClaimEngineering(c, p)
  BY <1>2, ClaimSteps
<1> QED BY <1>1, <1>2 DEF Admit

\* A phase that goes on without its heartbeat, or is given up.
LEMMA AbandoningSteps ==
  ASSUME StepInv, MissionTypes', NEW c \in Coordinators, NEW p \in Packages,
         \/ HeartbeatStops(c, p) \/ EngineeringCrashes(c, p) \/ Salvage(c, p)
         \/ LosePhase(c, p) \/ DetectAbandoned(c, p)
  PROVE  StepInv' /\ StepEffect
<1> USE Coordinating DEF vars, packageVars, stepVars, StepInv
<1>1. NobodyEnters
  <2>1. CASE HeartbeatStops(c, p)
    <3>1. ~(pc[c] = "reviewing" /\ owner[p] = c)
      BY <2>1, PhaseStatus DEF HeartbeatStops, HeartbeatRefused, PhaseIsOwn, PhasePcs
    <3> QED BY <2>1, <3>1 DEF HeartbeatStops, NobodyEnters
  <2>2. CASE EngineeringCrashes(c, p) \/ DetectAbandoned(c, p)
    BY <2>2, GotoElsewhere DEF EngineeringCrashes, DetectAbandoned, PhasePcs
  <2>3. CASE Salvage(c, p) \/ LosePhase(c, p)
    BY <2>3, IdleElsewhere DEF Salvage, LosePhase
  <2> QED BY <2>1, <2>2, <2>3
<1>2. UNCHANGED <<pkg, evidence>>
  BY DEF HeartbeatStops, EngineeringCrashes, Salvage, LosePhase, DetectAbandoned
<1>3. ASSUME NEW q \in Packages PROVE Moved(q)
  <2>1. CASE UNCHANGED <<step, owner>>
    BY <2>1 DEF Moved, Kept
  <2>2. CASE Salvage(c, p) /\ step[p] = "running"
    <3>1. /\ \E status \in {"queued", "blocked"} : step' = [step EXCEPT ![p] = status]
          /\ owner' = [owner EXCEPT ![p] = NoOne]
      BY <2>2 DEF Salvage, SetStep, SetOwner
    <3>2. pkg[p] # "absent"
      BY <2>2 DEF EvidenceFits
    <3> QED BY <1>2, <2>2, <3>1, <3>2 DEF Moved, Kept, Requeues, MissionTypes, StepsOK
  <2> QED BY <2>1, <2>2
          DEF HeartbeatStops, EngineeringCrashes, Salvage, LosePhase, DetectAbandoned
<1> QED BY <1>1, <1>2, <1>3, MovedSteps DEF NobodyVanishes

LEMMA EndingSteps ==
  ASSUME StepInv, MissionTypes', NEW c \in Coordinators, NEW p \in Packages,
         \/ EndEngineering(c, p) \/ EndReview(c, p)
         \/ RecordVerification(c, p) \/ RecordCheckpoint(c, p)
  PROVE  StepInv' /\ StepEffect
<1> USE PhaseStatus DEF vars, packageVars
<1>1. /\ pc[c] \in PhasePcs /\ task[c] = p /\ (owner[p] = c \/ pc[c] = "reviewing")
      /\ step[p] = StepAt[pc[c]] \/ (pc[c] = "reviewing" /\ step[p] = "cancelled")
      /\ NobodyVanishes
  BY DEF EndEngineering, EndReview, RecordVerification, RecordCheckpoint, At, PhasePcs,
         StepInv, PhaseIsOwn, NobodyVanishes
<1> DEFINE Fits(status, new) ==
             /\ status \in StepStates /\ new \in SUBSET Evidence
             /\ step' = [step EXCEPT ![p] = status]
             /\ evidence' = [evidence EXCEPT ![p] = new]
             /\ NoReruns /\ status \in {"verification", "checkpoint", "complete"}
                  => "approved" \in new
             /\ status \in {"checkpoint", "complete"} => "verified" \in new
             /\ "committed" \in new <=> status = "complete"
<1>2. ASSUME NEW status, NEW new, NEW label \in SyncPcs \cup {"idle"},
             Fits(status, new), EndPhase(c, p, label),
             label = "sync_complete" => status = "complete"
      PROVE  StepInv' /\ StepEffect
  BY <1>1, <1>2, EndStep
<1> HIDE DEF Fits
<1>3. /\ evidence[p] \in SUBSET Evidence
      /\ step[p] \in {"checkpoint", "complete"} => "verified" \in evidence[p]
      /\ NoReruns /\ step[p] \in {"verification", "checkpoint"} => "approved" \in evidence[p]
      /\ step[p] # "complete" => "committed" \notin evidence[p]
      /\ evidence = [evidence EXCEPT ![p] = evidence[p]]
      /\ step = [step EXCEPT ![p] = step[p]] /\ step[p] \in StepStates
  BY DEF StepInv, EvidenceFits, MissionTypes, RowsOK, StepsOK
<1>4. CASE EndEngineering(c, p)
  <2>1. PICK status \in {"review", "blocked", "failed", "queued"} :
          SetStep(p, status) /\ UNCHANGED evidence /\ EndPhase(c, p, "idle")
    BY <1>4 DEF EndEngineering
  <2>2. step[p] # "complete"
    BY <1>1
  <2>3. Fits(status, evidence[p])
    BY <1>3, <2>1, <2>2 DEF Fits, StepStates, SetStep
  <2> QED BY <1>2, <2>1, <2>3
<1>5. ASSUME NEW status \in StepStates, NEW proof \in Evidence, Accept(p, status, proof)
      PROVE  /\ step' = [step EXCEPT ![p] = status]
             /\ evidence' = [evidence EXCEPT ![p] = evidence[p] \cup {proof}]
             /\ evidence[p] \cup {proof} \in SUBSET Evidence
  BY <1>3, <1>5 DEF Accept, SetStep
<1>6. ASSUME NEW status \in StepStates, NEW proof \in Evidence, Reject(p, status, proof)
      PROVE  /\ step' = [step EXCEPT ![p] = status]
             /\ evidence' = [evidence EXCEPT ![p] = evidence[p] \ {proof}]
             /\ evidence[p] \ {proof} \in SUBSET Evidence
  BY <1>3, <1>6 DEF Reject, SetStep
<1>7. CASE EndReview(c, p)
  <2>1. step[p] \in {"review", "cancelled"}
    BY <1>1, <1>7 DEF EndReview, At
  <2>2. \/ Accept(p, "verification", "approved") /\ EndPhase(c, p, "idle")
        \/ \E status \in {"changes_requested", "needs_human", "blocked"},
              label \in {"idle", "sync_ready"} :
             Reject(p, status, "approved") /\ EndPhase(c, p, label)
        \/ UNCHANGED <<step, evidence>> /\ EndPhase(c, p, "idle")
    BY <1>7 DEF EndReview
  <2>3. CASE Accept(p, "verification", "approved") /\ EndPhase(c, p, "idle")
    <3>1. Fits("verification", evidence[p] \cup {"approved"})
      BY <1>3, <1>5, <2>1, <2>3 DEF Fits, StepStates, Evidence
    <3> QED BY <1>2, <2>3, <3>1
  <2>4. ASSUME NEW status \in {"changes_requested", "needs_human", "blocked"},
               NEW label \in {"idle", "sync_ready"},
               Reject(p, status, "approved") /\ EndPhase(c, p, label)
        PROVE  StepInv' /\ StepEffect
    <3>1. Fits(status, evidence[p] \ {"approved"})
      BY <1>3, <1>6, <2>1, <2>4 DEF Fits, StepStates, Evidence
    <3> QED BY <1>2, <2>4, <3>1 DEF SyncPcs
  <2>5. CASE UNCHANGED <<step, evidence>> /\ EndPhase(c, p, "idle")
    <3>1. Fits(step[p], evidence[p])
      BY <1>3, <2>1, <2>5 DEF Fits
    <3> QED BY <1>2, <2>5, <3>1
  <2> QED BY <2>2, <2>3, <2>4, <2>5
<1>8. CASE RecordVerification(c, p)
  <2>1. step[p] = "verification"
    BY <1>1, <1>8 DEF RecordVerification, At
  <2>2. \/ Accept(p, "checkpoint", "verified") /\ EndPhase(c, p, "sync_verifying")
        \/ \E status \in {"changes_requested", "blocked"},
              label \in {"sync_ready", "sync_blocked"} :
             Reject(p, status, "verified") /\ EndPhase(c, p, label)
    BY <1>8 DEF RecordVerification
  <2>3. CASE Accept(p, "checkpoint", "verified") /\ EndPhase(c, p, "sync_verifying")
    <3>1. Fits("checkpoint", evidence[p] \cup {"verified"})
      BY <1>3, <1>5, <2>1, <2>3 DEF Fits, StepStates, Evidence
    <3> QED BY <1>2, <2>3, <3>1 DEF SyncPcs
  <2>4. ASSUME NEW status \in {"changes_requested", "blocked"},
               NEW label \in {"sync_ready", "sync_blocked"},
               Reject(p, status, "verified") /\ EndPhase(c, p, label)
        PROVE  StepInv' /\ StepEffect
    <3>1. Fits(status, evidence[p] \ {"verified"})
      BY <1>3, <1>6, <2>1, <2>4 DEF Fits, StepStates, Evidence
    <3> QED BY <1>2, <2>4, <3>1 DEF SyncPcs
  <2> QED BY <2>2, <2>3, <2>4
<1>9. CASE RecordCheckpoint(c, p)
  <2>1. step[p] = "checkpoint"
    BY <1>1, <1>9 DEF RecordCheckpoint, At
  <2>2. \/ Accept(p, "complete", "committed") /\ EndPhase(c, p, "sync_complete")
        \/ Reject(p, "changes_requested", "committed") /\ EndPhase(c, p, "idle")
    BY <1>9 DEF RecordCheckpoint
  <2>3. CASE Accept(p, "complete", "committed") /\ EndPhase(c, p, "sync_complete")
    <3>1. Fits("complete", evidence[p] \cup {"committed"})
      BY <1>3, <1>5, <2>1, <2>3 DEF Fits, StepStates, Evidence
    <3> QED BY <1>2, <2>3, <3>1 DEF SyncPcs
  <2>4. CASE Reject(p, "changes_requested", "committed") /\ EndPhase(c, p, "idle")
    <3>1. Fits("changes_requested", evidence[p] \ {"committed"})
      BY <1>3, <1>6, <2>1, <2>4 DEF Fits, StepStates, Evidence
    <3> QED BY <1>2, <2>4, <3>1
  <2> QED BY <2>2, <2>3, <2>4
<1> QED BY <1>4, <1>7, <1>8, <1>9

LEMMA SyncSteps ==
  ASSUME StepInv, MissionTypes', NEW p \in Packages,
         RecoverPackage(p) \/ \E c \in Coordinators : SyncPackage(c, p)
  PROVE  StepInv' /\ StepEffect
<1> USE DEF vars, stepVars, agentVars
<1>1. CASE RecoverPackage(p)
  <2>1. NobodyEnters /\ NobodyVanishes
    BY <1>1 DEF RecoverPackage, ReturnPackage, NobodyEnters, NobodyVanishes, SetPackage,
                StepInv, MissionTypes, RowsOK
  <2> QED BY <1>1, <2>1, QuietStep DEF RecoverPackage
<1>2. ASSUME NEW c \in Coordinators, SyncPackage(c, p) PROVE StepInv' /\ StepEffect
  <2>1. NobodyEnters
    BY <1>2, Coordinating, GotoElsewhere, IdleElsewhere DEF SyncPackage, StepInv, PhasePcs
  <2>2. NobodyVanishes
    <3>1. Due[pc[c]] # "absent"
      BY <1>2 DEF SyncPackage, Due, SyncPcs
    <3> QED BY <1>2, <3>1
            DEF SyncPackage, NobodyVanishes, SetPackage, StepInv, MissionTypes, RowsOK
  <2> QED BY <1>2, <2>1, <2>2, QuietStep DEF SyncPackage
<1> QED BY <1>1, <1>2

\* The steps that a cancellation or a reconciliation cancels.
LEMMA CancelledSteps ==
  ASSUME StepInv, MissionTypes', NEW live \in MayBeInFlight, NEW S \in SUBSET Cancellable(live),
         CancelSteps(S), UNCHANGED <<pc, task, beating, evidence>>, NobodyVanishes
  PROVE  StepInv' /\ StepEffect
<1>1. ASSUME NEW p \in S
      PROVE  p \in Packages /\ ~Renewed(p) /\ step[p] # "complete" /\ pkg'[p] # "absent"
  BY DEF Cancellable, MayBeInFlight, Existing, NobodyVanishes
<1>2. ASSUME NEW p \in Packages PROVE Moved(p)
  BY <1>1 DEF CancelSteps, Moved, Kept, Cancelled
<1>3. NobodyEnters
  BY DEF NobodyEnters
<1> QED BY <1>2, <1>3, MovedSteps

LEMMA ReconciliationSteps ==
  ASSUME StepInv, MissionTypes', ReconcileMissionControls
  PROVE  StepInv' /\ StepEffect
<1>1. NobodyVanishes /\ UNCHANGED <<pc, task, beating, evidence>>
  BY DEF ReconcileMissionControls, NobodyVanishes, vars, agentVars
<1>2. PICK live \in MayBeInFlight : CancelSteps(Finalized(live))
  BY DEF ReconcileMissionControls
<1>3. Finalized(live) \in SUBSET Cancellable(live)
  BY DEF Finalized
<1> QED BY <1>1, <1>2, <1>3, CancelledSteps

LEMMA RecoverySteps ==
  ASSUME StepInv, MissionTypes', NEW p \in Packages,
         PlanJob(p) \/ AnswerHuman(p) \/ RecoverStep(p)
  PROVE  StepInv' /\ StepEffect
<1> USE DEF vars, packageVars, agentVars, StepInv, MissionTypes, StepsOK
<1>1. /\ NobodyVanishes /\ NobodyEnters /\ UNCHANGED <<evidence, pkg>>
  BY DEF PlanJob, AnswerHuman, RecoverStep, NobodyVanishes, NobodyEnters
<1>2. step[p] # "absent" => pkg[p] # "absent"
  BY DEF EvidenceFits
<1>3. CASE PlanJob(p) \/ AnswerHuman(p)
  <2>1. /\ UNCHANGED owner
        /\ \/ UNCHANGED step
           \/ /\ step[p] \in {"failed", "blocked", "needs_human"}
              /\ \E status \in {"queued", "changes_requested"} :
                   step' = [step EXCEPT ![p] = status]
    BY <1>3 DEF PlanJob, AnswerHuman, SetStep
  <2>2. ASSUME NEW q \in Packages PROVE Moved(q)
    BY <1>1, <1>2, <2>1 DEF Moved, Kept, Requeues
  <2> QED BY <1>1, <2>2, MovedSteps
<1>4. CASE RecoverStep(p)
  <2>1. ASSUME NEW q \in Packages PROVE Moved(q)
    BY <1>4 DEF RecoverStep, ExpiredPhase, SetOwner, Moved, Kept, Released
  <2> QED BY <1>1, <2>1, MovedSteps
<1> QED BY <1>3, <1>4

LEMMA ControlSteps ==
  ASSUME StepInv, MissionTypes', ControlMission
  PROVE  StepInv' /\ StepEffect
<1> USE DEF agentVars, StepInv, MissionTypes, RowsOK
<1>1. /\ UNCHANGED <<pc, task, beating, evidence>> /\ NobodyEnters
      /\ PauseMission \/ ResumeMission \/ CancelMission
  BY DEF ControlMission, NobodyEnters
<1>2. CASE PauseMission
  <2>1. NobodyVanishes
    BY <1>2 DEF PauseMission, ReturnAdmissions, NobodyVanishes
  <2> QED BY <1>1, <1>2, <2>1, QuietStep DEF PauseMission
<1>3. CASE ResumeMission
  <2>1. NobodyVanishes
    BY <1>3 DEF ResumeMission, NobodyVanishes
  <2>2. \A p \in Requeued : step[p] \in {"blocked", "failed"} /\ pkg[p] # "absent"
    BY DEF Requeued, Existing
  <2>3. \A p \in Packages :
          /\ step'[p] = IF p \in Requeued THEN "queued" ELSE step[p]
          /\ owner'[p] = IF p \in Requeued THEN NoOne ELSE owner[p]
    BY <1>3 DEF ResumeMission
  <2>4. ASSUME NEW p \in Packages PROVE Moved(p)
    BY <2>1, <2>2, <2>3 DEF Moved, Kept, Requeues, NobodyVanishes
  <2> QED BY <1>1, <2>1, <2>4, MovedSteps
<1>4. CASE CancelMission
  <2>1. NobodyVanishes
    BY <1>4 DEF CancelMission, NobodyVanishes
  <2>2. PICK live \in MayBeInFlight : CancelSteps(Cancellable(live))
    BY <1>4 DEF CancelMission
  <2> QED BY <1>1, <2>1, <2>2, CancelledSteps
<1> QED BY <1>1, <1>2, <1>3, <1>4

\* The operator's requests for the job of p.
LEMMA OperationSteps ==
  ASSUME StepInv, MissionTypes', NEW p \in Packages, Operate(p)
  PROVE  StepInv' /\ StepEffect
<1> USE DEF agentVars, StepInv, MissionTypes, RowsOK, StepsOK
<1>1. /\ UNCHANGED <<evidence, missionStatus>> /\ NobodyEnters /\ pkg[p] # "absent"
  BY DEF Operate, Existing, NobodyEnters
<1>2. \/ PauseJob(p) \/ ResumeJob(p) \/ StopJob(p) \/ RetryJob(p) \/ RecoverJob(p)
      \/ RefreshPlanning(p) \/ (~NoReruns /\ RerunVerification(p))
      \/ \E status \in {"paused", "running", "cancelled"} : LabelOnly(p, status)
  BY Requests
<1>3. /\ NobodyVanishes /\ pkg'[p] # "absent"
      /\ \A q \in Packages : q # p => Kept(q)
  <2> USE <1>1 DEF SetPackage, SetStep, SetOwner, LabelOnly, RequeueStep, ReturnPackage,
                   NobodyVanishes, Kept
  <2>1. CASE PauseJob(p) \/ RefreshPlanning(p)
             \/ \E status \in {"paused", "running", "cancelled"} : LabelOnly(p, status)
    BY <2>1 DEF PauseJob, RefreshPlanning
  <2>2. CASE ResumeJob(p)
    BY <2>2 DEF ResumeJob
  <2>3. CASE StopJob(p)
    BY <2>3 DEF StopJob
  <2>4. CASE RetryJob(p)
    BY <2>4 DEF RetryJob
  <2>5. CASE RecoverJob(p)
    BY <2>5 DEF RecoverJob
  <2>6. CASE RerunVerification(p)
    BY <2>6 DEF RerunVerification
  <2> QED BY <1>2, <2>1, <2>2, <2>3, <2>4, <2>5, <2>6
<1>4. Moved(p)
  <2> USE <1>1, <1>3 DEF SetStep, SetOwner, SetJob, LabelOnly, RequeueStep, Moved
  <2>1. CASE PauseJob(p) \/ RefreshPlanning(p)
             \/ \E status \in {"paused", "running", "cancelled"} : LabelOnly(p, status)
    BY <2>1 DEF PauseJob, RefreshPlanning, Kept
  <2>2. CASE ResumeJob(p)
    BY <2>2 DEF ResumeJob, Stopped, Kept, Requeues
  <2>3. CASE StopJob(p)
    BY <2>3 DEF StopJob, Kept, Cancelled, JobIsStopped
  <2>4. CASE RetryJob(p)
    BY <2>4 DEF RetryJob, Stopped, Kept, Requeues
  <2>5. CASE RecoverJob(p)
    BY <2>5 DEF RecoverJob, ExpiredPhase, Kept, Released
  <2>6. CASE ~NoReruns /\ RerunVerification(p)
    BY <2>6 DEF RerunVerification, Rerun
  <2> QED BY <1>2, <2>1, <2>2, <2>3, <2>4, <2>5, <2>6
<1>5. \A q \in Packages : Moved(q)
  BY <1>3, <1>4 DEF Moved
<1> QED BY <1>1, <1>3, <1>5, MovedSteps

LEMMA StepsOfMission ==
  ASSUME StepInv, [MissionNext]_allVars
  PROVE  StepInv' /\ StepEffect
<1>1. MissionTypes'
  BY MissionStepTypes DEF StepInv
<1>2. CASE UNCHANGED allVars
  BY <1>1, <1>2, QuietStep
     DEF allVars, vars, missionVars, stepVars, agentVars, NobodyEnters, NobodyVanishes
<1>3. CASE MissionNext
  <2>1. CASE OperatorCreatesPackage
    BY <1>1, <2>1, MissionAssumption, CreationSteps DEF OperatorCreatesPackage
  <2>2. ASSUME NEW c \in Coordinators, Coordinate(c) PROVE StepInv' /\ StepEffect
    BY <1>1, <2>2, PopulationSteps, AdmissionSteps, ClaimSteps, AbandoningSteps,
       EndingSteps, SyncSteps DEF Coordinate, CarryOut
  <2>3. ASSUME NEW i \in Integrators, IntegratePackage(i) \/ Refresh(i) \/ Crash(i)
        PROVE  StepInv' /\ StepEffect
    BY <1>1, <2>3, RefreshSteps
  <2>4. CASE Recover
    BY <1>1, <2>4, SyncSteps, RecoverySteps, AbandoningSteps, ReconciliationSteps DEF Recover
  <2>5. ASSUME NEW p \in Packages, AnswerHuman(p) \/ Operate(p)
        PROVE  StepInv' /\ StepEffect
    BY <1>1, <2>5, RecoverySteps, OperationSteps
  <2>6. CASE ControlMission
    BY <1>1, <2>6, ControlSteps
  <2> QED BY <1>3, <2>1, <2>2, <2>3, <2>4, <2>5, <2>6 DEF MissionNext
<1> QED BY <1>2, <1>3

-----------------------------------------------------------------------------
(* Integration                                                             *)

\* Everything else in a mission is within the environment of Integration.
LEMMA MissionStepIntegrates ==
  ASSUME StepInv, [MissionNext]_allVars
  PROVE  [IntegrationNext]_vars
<1>1. StepInv' /\ EvidenceGrows
  BY StepsOfMission DEF StepEffect
<1>2. CASE UNCHANGED integrationVars
  <2>1. Environment
    BY <1>1, <1>2 DEF Environment, EvidenceGrows, StepInv, MissionTypes, RowsOK
  <2> QED BY <2>1 DEF IntegrationNext
<1>3. ASSUME NEW i \in Integrators, IntegratePackage(i)
      PROVE  Integrate(i) \/ UNCHANGED vars
  BY <1>3 DEF IntegratePackage, RunIntegration, IntegrationStops, CompleteIntegration,
              IntegrationRefused, Integrate
<1>4. ASSUME NEW i \in Integrators, Crash(i)
      PROVE  Integrate(i) \/ UNCHANGED vars
  BY <1>4 DEF Crash, Integrate, vars
<1>5. CASE UNCHANGED allVars
  BY <1>5 DEF allVars
<1>6. CASE MissionNext
  <2>1. ASSUME NEW i \in Integrators, Refresh(i) PROVE UNCHANGED integrationVars
    BY <2>1 DEF Refresh, ReadStatus, WriteStatus, vars
  <2>2. ASSUME NEW c \in Coordinators, Populate(c) PROVE UNCHANGED integrationVars
    BY <2>2 DEF Populate, StartPopulating, CreateFromRoadmap, EndPopulating,
                CreateWorkPackage, vars
  <2>3. ASSUME NEW c \in Coordinators, NEW p \in Packages, Admit(c, p)
        PROVE  UNCHANGED integrationVars
    BY <2>3 DEF Admit, StartAdmission, CommitAdmission, AdmissionFails,
                ClaimAdmittedStep, ReturnAdmission, ClaimEngineering, vars
  <2>4. ASSUME NEW c \in Coordinators, NEW p \in Packages, CarryOut(c, p)
        PROVE  UNCHANGED integrationVars
    BY <2>4 DEF CarryOut, HeartbeatStops, EndEngineering, EngineeringCrashes, Salvage,
                ClaimReview, EndReview, ClaimVerification, RecordVerification,
                ClaimCheckpoint, RecordCheckpoint, LosePhase, SyncPackage, vars
  <2>5. CASE OperatorCreatesPackage \/ ControlMission
    BY <1>2, <2>5 DEF OperatorCreatesPackage, CreateWorkPackage, ControlMission
  <2>6. CASE Recover \/ \E p \in Packages : AnswerHuman(p) \/ Operate(p)
    BY <1>2, <2>6 DEF Recover, ReconcileMissionControls, PlanJob, RecoverPackage,
                      RecoverStep, DetectAbandoned, AnswerHuman, Operate, vars
  <2> QED BY <1>2, <1>3, <1>4, <1>6, <2>1, <2>2, <2>3, <2>4, <2>5, <2>6
          DEF MissionNext, Coordinate, IntegrationNext
<1> QED BY <1>5, <1>6

LEMMA MissionStarts == MissionInit => StepInv
<1> SUFFICES ASSUME MissionInit PROVE StepInv
  OBVIOUS
<1> USE DEF MissionInit, Init
<1>1. "idle" \in Pcs /\ "idle" \notin PackagePcs \cup PhasePcs \cup {"sync_complete"}
  BY DEF Pcs, PackagePcs, PhasePcs, SyncPcs
<1>2. MissionTypes
  BY <1>1, MissionAssumption
     DEF MissionTypes, RowsOK, PackagesOK, StepsOK, AgentsOK, ReadsOK, PackageStates,
         MissionStates, JobStates, StepStates
<1>3. PhaseIsOwn /\ SyncIsTrue
  BY <1>1, Coordinating DEF PhaseIsOwn, SyncIsTrue
<1>4. EvidenceFits
  BY DEF EvidenceFits
<1> QED BY <1>2, <1>3, <1>4 DEF StepInv

LEMMA StepInvariant == MissionSpec => []StepInv
<1>1. StepInv /\ [MissionNext]_allVars => StepInv'
  BY StepsOfMission
<1> QED BY <1>1, MissionStarts, PTL DEF MissionSpec

\* The whole mission implements Integration: whatever coordinators, recovery,
\* reconciliation and the operator do to packages, steps and the status of the
\* mission is within what Integration assumes of its environment.
THEOREM MissionIntegrates == MissionSpec => ImplementsIntegration
<1>1. MissionInit => Init
  BY DEF MissionInit
<1>2. StepInv /\ [MissionNext]_allVars => [IntegrationNext]_vars
  BY MissionStepIntegrates
<1> QED BY <1>1, <1>2, StepInvariant, PTL
        DEF MissionSpec, ImplementsIntegration, IntegrationSpec, IntegrationNext

\* So a mission keeps what Integration promises of its branch.
THEOREM MissionKeepsItsBranch ==
  MissionSpec => []IntegratedIsInBranch /\ []BranchIsEarned /\ MergesAreAtomic
BY MissionIntegrates, IntegratedStaysInBranch, BranchStaysEarned, IntegrationIsAtomic, PTL
   DEF ImplementsIntegration

\* Reachable states of a mission are well typed.
THEOREM MissionTypesAreKept == MissionSpec => []TypeOK
<1>1. IntegrationInv /\ StepInv => TypeOK
  BY DEF IntegrationInv, StepInv, MissionTypes, RowsOK, PackagesOK, StepsOK, AgentsOK,
         ReadsOK, TypeOK
<1>2. MissionSpec => []IntegrationInv
  BY MissionIntegrates, IntegrationInvariant, PTL DEF ImplementsIntegration
<1> QED BY <1>1, <1>2, StepInvariant, PTL

\* A review, a verification or a checkpoint under a living heartbeat is
\* interrupted by nothing but a stop of its own job or a rerun that is asked for
\* it.
THEOREM BoundedPhasesAreLeftAlone == MissionSpec => BoundedPhaseIsLeftAlone
<1>1. StepInv /\ [MissionNext]_allVars => [BoundedPhasesStay]_allVars
  BY StepsOfMission DEF StepEffect
<1> QED BY <1>1, StepInvariant, PTL
        DEF MissionSpec, BoundedPhaseIsLeftAlone, BoundedPhasesStay

-----------------------------------------------------------------------------
(* Packages                                                                *)

Admitting(c) == pc[c] = "admitting"

DependenciesAreComplete(p) == \A d \in DependsOn[p] : step[d] = "complete"

\* An admission under way has the row of a package that is ready and whose
\* dependencies are complete, and keeps the mission from being paused.
AdmissionIsSound ==
  /\ \A c \in Coordinators :
       Admitting(c) => /\ pkg[task[c]] = "ready"
                       /\ DependenciesAreComplete(task[c])
                       /\ missionStatus # "paused"
  /\ \A c, d \in Coordinators : Admitting(c) /\ Admitting(d) /\ task[c] = task[d] => c = d

CompleteIsComplete == \A p \in Packages : pkg[p] = "complete" => step[p] = "complete"

CancelledIsUnowned == \A p \in Packages : pkg[p] = "cancelled" => worker[p] = NoOne

\* A status that was computed from the packages never stops a mission.
FoundIsNoControl == \A i \in Integrators : found[i] \notin {"paused", "cancelled"}

PackageInv ==
  /\ StepInv /\ AdmissionIsSound /\ CompleteIsComplete /\ CancelledIsUnowned
  /\ FoundIsNoControl /\ DependenciesFirst /\ PausedMissionAdmitsNothing

\* Only a verification that is run again takes a cancellation back.
CancelledStays ==
  \A p \in Packages :
    pkg[p] = "cancelled" => pkg'[p] = "cancelled" \/ RerunVerification(p)

NobodyAdmits ==
  \A c \in Coordinators : pc'[c] = "admitting" => pc[c] = "admitting" /\ task'[c] = task[c]

LEMMA GotoAdmitsNobody ==
  ASSUME StepInv, NEW i \in Integrators, NEW label, NEW p,
         Goto(i, label, p), label # "admitting"
  PROVE  NobodyAdmits
BY Coordinating DEF NobodyAdmits, Goto, StepInv, MissionTypes, AgentsOK

LEMMA AdmittingHasPackage ==
  ASSUME StepInv, NEW c \in Coordinators, Admitting(c)
  PROVE  task[c] \in Packages /\ RowLocked(task[c])
BY Coordinating, PhaseLabels DEF Admitting, StepInv, MissionTypes, AgentsOK, RowLocked, At

LEMMA DependencyIsPackage == \A p \in Packages : \A d \in DependsOn[p] : d \in Packages
BY MissionAssumption

\* The packages are left as they are.
LEMMA QuietPackages ==
  ASSUME PackageInv, StepInv', CompleteStays, NobodyAdmits, UNCHANGED <<pkg, worker>>,
         UNCHANGED missionStatus \/ missionStatus' # "paused", FoundIsNoControl'
  PROVE  PackageInv' /\ CancelledStays
<1> USE DEF PackageInv
<1>1. AdmissionIsSound'
  BY AdmittingHasPackage, DependencyIsPackage
     DEF AdmissionIsSound, NobodyAdmits, Admitting, DependenciesAreComplete, CompleteStays
<1>2. CompleteIsComplete' /\ CancelledIsUnowned' /\ PausedMissionAdmitsNothing'
  BY DEF CompleteIsComplete, CancelledIsUnowned, CompleteStays, PausedMissionAdmitsNothing
<1>3. DependenciesFirst'
  BY DependencyIsPackage DEF DependenciesFirst, CompleteStays
<1> QED BY <1>1, <1>2, <1>3 DEF CancelledStays

\* The status of a package is written whose row nobody has.
LEMMA WrittenPackage ==
  ASSUME PackageInv, StepInv', CompleteStays, NobodyAdmits, NEW p \in Packages,
         ~RowLocked(p), NEW status, SetPackage(p, status), status # "engineering",
         status = "complete" => step'[p] = "complete",
         pkg[p] = "cancelled" => status = "cancelled" \/ RerunVerification(p),
         UNCHANGED worker \/ worker' = [worker EXCEPT ![p] = NoOne],
         status = "cancelled" => worker' = [worker EXCEPT ![p] = NoOne],
         UNCHANGED <<missionStatus, found>>
  PROVE  PackageInv' /\ CancelledStays
<1> USE DEF PackageInv
<1>1. /\ pkg'[p] = status
      /\ \A q \in Packages : q # p => pkg'[q] = pkg[q]
      /\ \A q \in Packages : worker'[q] \in {worker[q], NoOne}
      /\ status = "cancelled" => worker'[p] = NoOne
  BY DEF SetPackage, StepInv, MissionTypes, RowsOK, PackagesOK
<1>2. AdmissionIsSound'
  BY <1>1, AdmittingHasPackage, DependencyIsPackage
     DEF AdmissionIsSound, NobodyAdmits, Admitting, DependenciesAreComplete, CompleteStays
<1>3. CompleteIsComplete' /\ CancelledIsUnowned' /\ PausedMissionAdmitsNothing'
  BY <1>1
     DEF CompleteIsComplete, CancelledIsUnowned, CompleteStays, PausedMissionAdmitsNothing
<1>4. DependenciesFirst'
  BY <1>1, DependencyIsPackage DEF DependenciesFirst, CompleteStays
<1> QED BY <1>1, <1>2, <1>3, <1>4 DEF CancelledStays, FoundIsNoControl

LEMMA StartPackages ==
  ASSUME PackageInv, StepInv', NEW c \in Coordinators, NEW p \in Packages,
         StartAdmission(c, p)
  PROVE  PackageInv' /\ CancelledStays
<1> USE DEF PackageInv
<1>1. /\ UNCHANGED <<pkg, worker, missionStatus, found, step>>
      /\ pc' = [pc EXCEPT ![c] = "admitting"] /\ task' = [task EXCEPT ![c] = p]
      /\ pkg[p] = "ready" /\ missionStatus = "active" /\ ~RowLocked(p)
      /\ \A d \in DependsOn[p] : pkg[d] = "complete"
  BY DEF StartAdmission, DependenciesComplete, Goto, vars, packageVars, stepVars, readVars
<1>2. DependenciesAreComplete(p)
  BY <1>1, DependencyIsPackage DEF DependenciesAreComplete, CompleteIsComplete
<1>3. /\ pc'[c] = "admitting" /\ task'[c] = p
      /\ \A d \in Coordinators : d # c => pc'[d] = pc[d] /\ task'[d] = task[d]
  BY <1>1, Coordinating DEF StepInv, MissionTypes, AgentsOK
<1>4. AdmissionIsSound'
  BY <1>1, <1>2, <1>3, AdmittingHasPackage
     DEF AdmissionIsSound, Admitting, DependenciesAreComplete
<1> QED BY <1>1, <1>4 DEF CompleteIsComplete, CancelledIsUnowned, FoundIsNoControl,
           DependenciesFirst, PausedMissionAdmitsNothing, CancelledStays

LEMMA CommitPackages ==
  ASSUME PackageInv, StepInv', NEW c \in Coordinators, NEW p \in Packages,
         CommitAdmission(c, p)
  PROVE  PackageInv' /\ CancelledStays
<1> USE DEF PackageInv
<1>1. /\ UNCHANGED <<missionStatus, found, step>> /\ Admitting(c) /\ task[c] = p
      /\ pkg' = [pkg EXCEPT ![p] = "engineering"]
      /\ worker' = [worker EXCEPT ![p] = c]
      /\ Goto(c, "admitted", p)
  BY DEF CommitAdmission, SetPackage, At, Admitting, readVars
<1>2. /\ pc'[c] = "admitted"
      /\ \A d \in Coordinators : d # c => pc'[d] = pc[d] /\ task'[d] = task[d]
  BY <1>1, Coordinating DEF Goto, StepInv, MissionTypes, AgentsOK
<1>3. /\ pkg[p] = "ready" /\ DependenciesAreComplete(p) /\ missionStatus # "paused"
      /\ \A d \in Coordinators : Admitting(d) /\ d # c => task[d] # p
  BY <1>1 DEF AdmissionIsSound
<1>4. /\ \A q \in Packages : pkg'[q] = IF q = p THEN "engineering" ELSE pkg[q]
      /\ \A q \in Packages : worker'[q] = IF q = p THEN c ELSE worker[q]
  BY <1>1 DEF StepInv, MissionTypes, RowsOK, PackagesOK
<1>5. AdmissionIsSound'
  BY <1>1, <1>2, <1>3, <1>4, AdmittingHasPackage
     DEF AdmissionIsSound, Admitting, DependenciesAreComplete
<1>6. DependenciesFirst'
  BY <1>1, <1>3, <1>4 DEF DependenciesFirst, DependenciesAreComplete
<1> QED BY <1>1, <1>3, <1>4, <1>5, <1>6
        DEF CompleteIsComplete, CancelledIsUnowned, FoundIsNoControl,
            PausedMissionAdmitsNothing, CancelledStays

LEMMA ControlPackages ==
  ASSUME PackageInv, StepInv', CompleteStays, ControlMission
  PROVE  PackageInv' /\ CancelledStays
<1> USE DEF PackageInv
<1>1. /\ UNCHANGED <<pc, task, found>> /\ \A p \in Packages : ~RowLocked(p)
      /\ PauseMission \/ missionStatus' # "paused"
      /\ PauseMission \/ ResumeMission \/ CancelMission
  BY DEF ControlMission, Target, agentVars, readVars
<1>2. \A c \in Coordinators : ~Admitting(c)
  BY <1>1, AdmittingHasPackage
<1>3. AdmissionIsSound'
  BY <1>1, <1>2 DEF AdmissionIsSound, Admitting
<1>4. \A p \in Packages :
        /\ pkg'[p] \in {pkg[p], "ready", "cancelled"}
        /\ pkg[p] = "cancelled" => pkg'[p] = "cancelled"
        /\ worker'[p] \in {worker[p], NoOne}
        /\ pkg'[p] = "cancelled" => pkg[p] = "cancelled" \/ worker'[p] = NoOne
        /\ PauseMission => pkg'[p] # "engineering"
  <2> USE DEF StepInv, MissionTypes, RowsOK, PackagesOK, PackageStates
  <2>1. CASE PauseMission
    BY <2>1 DEF PauseMission, ReturnAdmissions
  <2>2. CASE ~PauseMission /\ ResumeMission
    BY <2>2 DEF ResumeMission
  <2>3. CASE ~PauseMission /\ CancelMission
    BY <2>3 DEF CancelMission
  <2> QED BY <1>1, <2>1, <2>2, <2>3
<1>5. CompleteIsComplete' /\ CancelledIsUnowned' /\ PausedMissionAdmitsNothing'
  BY <1>1, <1>4
     DEF CompleteIsComplete, CancelledIsUnowned, CompleteStays, PausedMissionAdmitsNothing
<1>6. DependenciesFirst'
  BY <1>4, DependencyIsPackage DEF DependenciesFirst, CompleteStays
<1> QED BY <1>1, <1>3, <1>4, <1>5, <1>6 DEF FoundIsNoControl, CancelledStays

\* Actions that write no row of a package.
LEMMA ElsewherePackages ==
  ASSUME PackageInv, StepInv', CompleteStays, NEW i \in Integrators,
         \/ Refresh(i) \/ IntegratePackage(i) \/ Crash(i)
         \/ /\ i \in Coordinators
            /\ \/ StartPopulating(i) \/ EndPopulating(i)
               \/ \E p \in Packages :
                    \/ AdmissionFails(i, p) \/ ClaimAdmittedStep(i, p)
                    \/ ClaimEngineering(i, p) \/ EndEngineering(i, p)
                    \/ ClaimReview(i, p) \/ EndReview(i, p) \/ ClaimVerification(i, p)
                    \/ RecordVerification(i, p) \/ ClaimCheckpoint(i, p)
                    \/ RecordCheckpoint(i, p) \/ HeartbeatStops(i, p)
                    \/ EngineeringCrashes(i, p) \/ Salvage(i, p) \/ LosePhase(i, p)
                    \/ DetectAbandoned(i, p)
  PROVE  PackageInv' /\ CancelledStays
<1> USE DEF PackageInv, vars, packageVars, stepVars, readVars, agentVars
<1>1. UNCHANGED <<pkg, worker>>
  BY DEF Refresh, ReadStatus, WriteStatus, IntegratePackage, RunIntegration,
         IntegrationStops, CompleteIntegration, IntegrationRefused, Crash,
         StartPopulating, EndPopulating, AdmissionFails, ClaimAdmittedStep, MayClaimAdmitted,
         ClaimEngineering, EndEngineering, ClaimReview, EndReview, ClaimVerification,
         RecordVerification, ClaimCheckpoint, RecordCheckpoint, HeartbeatStops,
         EngineeringCrashes, Salvage, LosePhase, DetectAbandoned
<1>2. FoundIsNoControl'
  <2>1. UNCHANGED found \/ ReadStatus(i) \/ WriteStatus(i) \/ Crash(i)
    BY DEF Refresh, IntegratePackage, RunIntegration,
           IntegrationStops, CompleteIntegration, IntegrationRefused,
           StartPopulating, EndPopulating, AdmissionFails, ClaimAdmittedStep, MayClaimAdmitted,
           ClaimEngineering, EndEngineering, ClaimReview, EndReview, ClaimVerification,
           RecordVerification, ClaimCheckpoint, RecordCheckpoint, HeartbeatStops,
         EngineeringCrashes, Salvage, LosePhase, DetectAbandoned
  <2>2. RefreshedStatus = missionStatus \/ RefreshedStatus \notin {"paused", "cancelled"}
    BY DEF RefreshedStatus
  <2> QED BY <2>1, <2>2
          DEF FoundIsNoControl, ReadStatus, WriteStatus, Crash, StepInv, MissionTypes, ReadsOK
<1>3. UNCHANGED missionStatus \/ missionStatus' # "paused"
  <2>1. UNCHANGED missionStatus \/ WriteStatus(i) \/ BlockMission(i)
    BY DEF Refresh, ReadStatus, IntegratePackage, RunIntegration,
           IntegrationStops, CompleteIntegration, IntegrationRefused, Crash,
           StartPopulating, EndPopulating, AdmissionFails, ClaimAdmittedStep, MayClaimAdmitted,
           ClaimEngineering, EndEngineering, ClaimReview, EndReview, ClaimVerification,
           RecordVerification, ClaimCheckpoint, RecordCheckpoint, HeartbeatStops,
         EngineeringCrashes, Salvage, LosePhase, DetectAbandoned
  <2> QED BY <2>1 DEF WriteStatus, BlockMission, FoundIsNoControl
<1>4. NobodyAdmits
  <2>1. \/ UNCHANGED <<pc, task>> \/ Idle(i)
        \/ \E label \in {"writing", "merging", "refreshing", "populating", "refused",
                         "sync_ready", "sync_verifying", "sync_blocked",
                         "sync_complete", "salvaging"} \cup PhasePcs :
               \E p : Goto(i, label, p)
    BY DEF Refresh, ReadStatus, WriteStatus, IntegratePackage, RunIntegration,
           IntegrationStops, CompleteIntegration, IntegrationRefused, Crash,
           StartPopulating, EndPopulating, AdmissionFails, ClaimAdmittedStep, MayClaimAdmitted,
           ClaimEngineering, EndEngineering, ClaimReview, EndReview, ClaimVerification,
           RecordVerification, ClaimCheckpoint, RecordCheckpoint, HeartbeatStops,
         EngineeringCrashes, Salvage, LosePhase, DetectAbandoned, BeginPhase, EndPhase,
           PhasePcs
  <2> QED BY <2>1, GotoAdmitsNobody DEF Idle, PhasePcs, NobodyAdmits
<1> QED BY <1>1, <1>2, <1>3, <1>4, QuietPackages

LEMMA CreatedPackages ==
  ASSUME PackageInv, StepInv', CompleteStays, NEW p \in Packages, NEW i,
         CreateWorkPackage(p, i), UNCHANGED <<pc, task, found>>
  PROVE  PackageInv' /\ CancelledStays
<1>1. ~RowLocked(p)
  BY DEF PackageInv, AdmissionIsSound, Admitting, RowLocked, At, CreateWorkPackage
<1>2. NobodyAdmits
  BY DEF NobodyAdmits
<1> QED BY <1>1, <1>2, WrittenPackage DEF CreateWorkPackage

LEMMA SyncedPackages ==
  ASSUME PackageInv, StepInv', CompleteStays, NEW c \in Coordinators, NEW p \in Packages,
         SyncPackage(c, p) \/ ReturnAdmission(c, p)
  PROVE  PackageInv' /\ CancelledStays
<1> USE Coordinating DEF vars, packageVars, stepVars, readVars
<1>1. NobodyAdmits
  BY GotoAdmitsNobody DEF SyncPackage, ReturnAdmission, Idle, PackageInv
<1>2. /\ ~RowLocked(p) /\ UNCHANGED <<missionStatus, found>>
      /\ UNCHANGED worker \/ worker' = [worker EXCEPT ![p] = NoOne]
  BY DEF SyncPackage, ReturnAdmission
<1>3. CASE UNCHANGED <<pkg, worker>>
  BY <1>1, <1>2, <1>3, QuietPackages DEF PackageInv, FoundIsNoControl
<1>4. CASE SyncPackage(c, p) /\ pkg[p] # "cancelled"
  <2>1. /\ Due[pc[c]] \in {"ready", "verifying", "blocked", "complete"}
        /\ Due[pc[c]] = "complete" => pc[c] = "sync_complete"
    BY <1>4 DEF SyncPackage, Due, SyncPcs
  <2>2. Due[pc[c]] = "complete" => step'[p] = "complete"
    BY <1>4, <2>1 DEF SyncPackage, PackageInv, StepInv, SyncIsTrue, CompleteStays
  <2>3. SetPackage(p, Due[pc[c]])
    BY <1>4 DEF SyncPackage
  <2> QED BY <1>1, <1>2, <1>4, <2>1, <2>2, <2>3, WrittenPackage
<1>5. CASE ReturnAdmission(c, p) /\ worker[p] = c
  <2>1. pkg[p] # "cancelled"
    BY <1>5, MissionAssumption DEF PackageInv, CancelledIsUnowned
  <2>2. SetPackage(p, "ready")
    BY <1>5 DEF ReturnAdmission
  <2> QED BY <1>1, <1>2, <2>1, <2>2, WrittenPackage
<1> QED BY <1>3, <1>4, <1>5 DEF SyncPackage, ReturnAdmission

\* A package that is not ready has no admission under way.
LEMMA NotReadyIsUnlocked ==
  ASSUME PackageInv, NEW p \in Packages, pkg[p] # "ready"
  PROVE  ~RowLocked(p)
BY DEF PackageInv, AdmissionIsSound, Admitting, RowLocked, At

\* Requests and recoveries that move no coordinator.
LEMMA RequestedPackages ==
  ASSUME PackageInv, StepInv', CompleteStays, NEW p \in Packages,
         \/ ReconcileMissionControls \/ PlanJob(p) \/ RecoverPackage(p)
         \/ RecoverStep(p) \/ AnswerHuman(p) \/ Operate(p)
  PROVE  PackageInv' /\ CancelledStays
<1> USE DEF vars, packageVars, readVars, agentVars
<1>1. UNCHANGED <<pc, task, missionStatus, found>>
  BY DEF ReconcileMissionControls, PlanJob, RecoverPackage, RecoverStep, AnswerHuman, Operate
<1>2. NobodyAdmits /\ FoundIsNoControl'
  BY <1>1 DEF NobodyAdmits, PackageInv, FoundIsNoControl
<1>3. CASE UNCHANGED <<pkg, worker>>
  BY <1>1, <1>2, <1>3, QuietPackages
<1>4. CASE pkg[p] \in {"engineering", "blocked"} /\ ReturnPackage(p)
  <2>1. ~RowLocked(p)
    BY <1>4, NotReadyIsUnlocked
  <2>2. SetPackage(p, "ready") /\ worker' = [worker EXCEPT ![p] = NoOne]
    BY <1>4 DEF ReturnPackage
  <2> QED BY <1>1, <1>2, <1>4, <2>1, <2>2, WrittenPackage
<1>5. CASE /\ ~RowLocked(p) /\ SetPackage(p, "cancelled")
           /\ worker' = [worker EXCEPT ![p] = NoOne]
  BY <1>1, <1>2, <1>5, WrittenPackage
<1>6. CASE RerunVerification(p)
  <2>1. /\ ~RowLocked(p) /\ SetPackage(p, "verifying")
        /\ worker' = [worker EXCEPT ![p] = NoOne]
    BY <1>6 DEF RerunVerification
  <2> QED BY <1>1, <1>2, <1>6, <2>1, WrittenPackage
<1>7. CASE RecoverPackage(p)
  BY <1>4, <1>7 DEF RecoverPackage, ExpiredAdmission
<1>8. CASE Operate(p)
  <2>1. CASE PauseJob(p) \/ RetryJob(p) \/ RefreshPlanning(p)
             \/ \E status \in {"paused", "running", "cancelled"} : LabelOnly(p, status)
    BY <1>3, <2>1 DEF PauseJob, RetryJob, RefreshPlanning, LabelOnly
  <2>2. CASE ResumeJob(p)
    BY <1>3, <1>4, <2>2 DEF ResumeJob, LabelOnly
  <2>3. CASE StopJob(p)
    BY <1>3, <1>5, <2>3 DEF StopJob
  <2>4. CASE RecoverJob(p)
    BY <1>3, <1>4, <2>4 DEF RecoverJob, ExpiredAdmission
  <2> QED BY <1>6, <1>8, <2>1, <2>2, <2>3, <2>4, Requests
<1> QED BY <1>3, <1>7, <1>8
        DEF ReconcileMissionControls, PlanJob, RecoverStep, AnswerHuman

LEMMA PackagesOfMission ==
  ASSUME PackageInv, [MissionNext]_allVars
  PROVE  PackageInv' /\ CancelledStays
<1>1. StepInv' /\ CompleteStays
  BY StepsOfMission DEF PackageInv, StepEffect
<1>2. CASE UNCHANGED allVars
  <2>1. /\ UNCHANGED <<pkg, worker, missionStatus, found, pc, task>>
    BY <1>2 DEF allVars, vars, missionVars, packageVars, readVars, agentVars
  <2> QED BY <1>1, <2>1, QuietPackages DEF NobodyAdmits, PackageInv, FoundIsNoControl
<1>3. CASE MissionNext
  <2>1. CASE OperatorCreatesPackage
    BY <1>1, <2>1, MissionAssumption, CreatedPackages
       DEF OperatorCreatesPackage, agentVars, readVars
  <2>2. ASSUME NEW c \in Coordinators, Populate(c) PROVE PackageInv' /\ CancelledStays
    BY <1>1, <2>2, Coordinating, CreatedPackages, ElsewherePackages
       DEF Populate, CreateFromRoadmap, agentVars
  <2>3. ASSUME NEW c \in Coordinators, NEW p \in Packages, Admit(c, p)
        PROVE  PackageInv' /\ CancelledStays
    BY <1>1, <2>3, Coordinating, StartPackages, CommitPackages, SyncedPackages,
       ElsewherePackages DEF Admit
  <2>4. ASSUME NEW c \in Coordinators, NEW p \in Packages, CarryOut(c, p)
        PROVE  PackageInv' /\ CancelledStays
    BY <1>1, <2>4, Coordinating, SyncedPackages, ElsewherePackages DEF CarryOut
  <2>5. ASSUME NEW i \in Integrators, IntegratePackage(i) \/ Refresh(i) \/ Crash(i)
        PROVE  PackageInv' /\ CancelledStays
    BY <1>1, <2>5, ElsewherePackages
  <2>6. CASE ReconcileMissionControls
    <3>1. \E p : p \in Packages
      BY <2>6 DEF ReconcileMissionControls, Finalized, Cancellable, Existing
    <3> QED BY <1>1, <2>6, <3>1, RequestedPackages
  <2>8. ASSUME NEW p \in Packages,
               \/ PlanJob(p) \/ RecoverPackage(p) \/ RecoverStep(p) \/ AnswerHuman(p)
               \/ Operate(p) \/ \E c \in Coordinators : DetectAbandoned(c, p)
        PROVE  PackageInv' /\ CancelledStays
    BY <1>1, <2>8, Coordinating, RequestedPackages, ElsewherePackages
  <2>7. CASE ControlMission
    BY <1>1, <2>7, ControlPackages
  <2> QED BY <1>3, <2>1, <2>2, <2>3, <2>4, <2>5, <2>6, <2>7, <2>8
          DEF MissionNext, Coordinate, Recover
<1> QED BY <1>2, <1>3

LEMMA PackageInvariant == MissionSpec => []PackageInv
<1>1. MissionInit => PackageInv
  <2> SUFFICES ASSUME MissionInit PROVE PackageInv
    OBVIOUS
  <2> USE DEF MissionInit, Init
  <2>1. StepInv
    BY MissionStarts
  <2> QED BY <2>1, Coordinating
          DEF PackageInv, AdmissionIsSound, Admitting, CompleteIsComplete,
              CancelledIsUnowned, FoundIsNoControl, DependenciesFirst,
              PausedMissionAdmitsNothing
<1>2. PackageInv /\ [MissionNext]_allVars => PackageInv'
  BY PackagesOfMission
<1> QED BY <1>1, <1>2, PTL DEF MissionSpec

\* A package is admitted only after the packages it depends on.
THEOREM DependenciesComeFirst == MissionSpec => []DependenciesFirst
<1>1. PackageInv => DependenciesFirst
  BY DEF PackageInv
<1> QED BY <1>1, PackageInvariant, PTL

\* A complete package has a complete, verified and committed step, which was
\* reviewed unless the operator may have verifications run again.
THEOREM CompletePackagesAreProven == MissionSpec => []CompletePackageIsProven
<1>1. PackageInv => CompletePackageIsProven
  <2> SUFFICES ASSUME PackageInv, NEW p \in Packages, pkg[p] = "complete"
               PROVE  step[p] = "complete" /\ Required \subseteq evidence[p]
    BY DEF CompletePackageIsProven
  <2>1. step[p] = "complete"
    BY DEF PackageInv, CompleteIsComplete
  <2> QED BY <2>1
          DEF PackageInv, StepInv, EvidenceFits, Required, Evidence, NoReruns
<1> QED BY <1>1, PackageInvariant, PTL

\* A paused mission has no package in Engineering.
THEOREM PausedMissionsAdmitNothing == MissionSpec => []PausedMissionAdmitsNothing
<1>1. PackageInv => PausedMissionAdmitsNothing
  BY DEF PackageInv
<1> QED BY <1>1, PackageInvariant, PTL

\* A cancelled package stays cancelled unless its verification is run again.
THEOREM CancelledPackagesAreFinal == MissionSpec => CancelledPackageIsFinal
<1>1. PackageInv /\ [MissionNext]_allVars => [CancelledStays]_allVars
  BY PackagesOfMission
<1> QED BY <1>1, PackageInvariant, PTL
        DEF MissionSpec, CancelledPackageIsFinal, CancelledStays

-----------------------------------------------------------------------------
(* The status of the mission                                               *)

RoadmapIsMerged == \A i \in Items : \E p \in Merged : item[p] = i

\* A mission that is complete, or that somebody found to be so and is about to
\* call complete, has its roadmap in the mission branch.
MergedInv ==
  missionStatus = "complete" \/ (\E i \in Integrators : found[i] = "complete")
    => RoadmapIsMerged

\* A package keeps its roadmap item.
ItemsStay == \A p \in Packages : pkg[p] # "absent" => item'[p] = item[p]

LEMMA ItemsOfMission ==
  ASSUME StepInv, [MissionNext]_allVars
  PROVE  ItemsStay
<1> USE DEF vars, packageVars, missionVars
<1>1. UNCHANGED item \/ \E p \in Packages : \E i : CreateWorkPackage(p, i)
  <2>1. CASE UNCHANGED allVars
    BY <2>1 DEF allVars
  <2>2. ASSUME NEW i \in Integrators, IntegratePackage(i) \/ Refresh(i) \/ Crash(i)
        PROVE  UNCHANGED item
    BY <2>2 DEF Refresh, ReadStatus, WriteStatus, IntegratePackage, RunIntegration,
                IntegrationStops, CompleteIntegration, IntegrationRefused, Crash
  <2>3. CASE OperatorCreatesPackage
    BY <2>3, MissionAssumption DEF OperatorCreatesPackage
  <2>4. ASSUME NEW c \in Coordinators, Populate(c)
        PROVE  UNCHANGED item \/ \E p \in Packages : \E i : CreateWorkPackage(p, i)
    BY <2>4 DEF Populate, StartPopulating, CreateFromRoadmap, EndPopulating
  <2>5. ASSUME NEW c \in Coordinators, NEW p \in Packages, Admit(c, p)
        PROVE  UNCHANGED item
    BY <2>5 DEF Admit, StartAdmission, CommitAdmission, AdmissionFails,
                ClaimAdmittedStep, ReturnAdmission, ClaimEngineering
  <2>6. ASSUME NEW c \in Coordinators, NEW p \in Packages, CarryOut(c, p)
        PROVE  UNCHANGED item
    BY <2>6 DEF CarryOut, HeartbeatStops, EndEngineering, EngineeringCrashes, Salvage,
                ClaimReview, EndReview, ClaimVerification, RecordVerification,
                ClaimCheckpoint, RecordCheckpoint, LosePhase, SyncPackage
  <2>7. CASE Recover \/ (\E p \in Packages : AnswerHuman(p) \/ Operate(p))
             \/ ControlMission
    BY <2>7 DEF Recover, ReconcileMissionControls, PlanJob, RecoverPackage,
                RecoverStep, DetectAbandoned, AnswerHuman, Operate, ControlMission
  <2> QED BY <2>1, <2>2, <2>3, <2>4, <2>5, <2>6, <2>7 DEF MissionNext, Coordinate
<1>2. ASSUME NEW p \in Packages, NEW i, CreateWorkPackage(p, i) PROVE ItemsStay
  BY <1>2 DEF CreateWorkPackage, ItemsStay, StepInv, MissionTypes, PackagesOK
<1> QED BY <1>1, <1>2 DEF ItemsStay

\* Whoever finds the mission complete has found it merged.
LEMMA FoundByReading ==
  ASSUME StepInv, [MissionNext]_allVars
  PROVE  /\ \A i \in Integrators :
              \/ found'[i] \in {found[i], "active"}
              \/ found'[i] = RefreshedStatus /\ UNCHANGED missionStatus
         /\ \/ missionStatus' \in {missionStatus, "active", "paused", "blocked", "cancelled"}
            \/ \E i \in Integrators : missionStatus' = found[i]
<1> USE DEF vars, packageVars, stepVars, readVars, missionVars, StepInv, MissionTypes, ReadsOK
<1>1. CASE UNCHANGED allVars
  BY <1>1 DEF allVars
<1>2. ASSUME NEW i \in Integrators, Refresh(i) \/ Crash(i)
      PROVE  /\ \A j \in Integrators :
                  \/ found'[j] \in {found[j], "active"}
                  \/ found'[j] = RefreshedStatus /\ UNCHANGED missionStatus
             /\ missionStatus' = missionStatus \/ missionStatus' = found[i]
  <2>1. CASE ReadStatus(i)
    <3>1. /\ UNCHANGED missionStatus
          /\ UNCHANGED found \/ found' = [found EXCEPT ![i] = RefreshedStatus]
      BY <2>1 DEF ReadStatus
    <3> QED BY <3>1
  <2>2. CASE WriteStatus(i)
    BY <2>2 DEF WriteStatus
  <2>3. CASE Crash(i)
    BY <2>3 DEF Crash
  <2> QED BY <1>2, <2>1, <2>2, <2>3 DEF Refresh
<1>3. ASSUME NEW i \in Integrators, IntegratePackage(i)
      PROVE  UNCHANGED found /\ missionStatus' \in {missionStatus, "blocked"}
  BY <1>3 DEF IntegratePackage, RunIntegration, IntegrationStops, CompleteIntegration,
              IntegrationRefused, BlockMission
<1>4. CASE ControlMission
  <2>1. /\ UNCHANGED found
        /\ missionStatus' \in {Target["pause"], Target["resume"], Target["cancel"]}
    BY <1>4 DEF ControlMission
  <2> QED BY <2>1 DEF Target
<1>5. ASSUME NEW c \in Coordinators, NEW p \in Packages, Admit(c, p) \/ CarryOut(c, p)
      PROVE  UNCHANGED <<found, missionStatus>>
  BY <1>5 DEF Admit, StartAdmission, CommitAdmission, AdmissionFails,
              ClaimAdmittedStep, ReturnAdmission, ClaimEngineering,
              CarryOut, HeartbeatStops, EndEngineering, EngineeringCrashes, Salvage,
              ClaimReview, EndReview, ClaimVerification, RecordVerification,
              ClaimCheckpoint, RecordCheckpoint, LosePhase, SyncPackage
<1>6. ASSUME NEW c \in Coordinators, Populate(c)
      PROVE  UNCHANGED <<found, missionStatus>>
  BY <1>6 DEF Populate, StartPopulating, CreateFromRoadmap, EndPopulating,
              CreateWorkPackage
<1>7. CASE OperatorCreatesPackage \/ Recover
           \/ \E p \in Packages : AnswerHuman(p) \/ Operate(p)
  BY <1>7 DEF OperatorCreatesPackage, CreateWorkPackage, Recover,
              ReconcileMissionControls, PlanJob, RecoverPackage, RecoverStep,
              DetectAbandoned, AnswerHuman, Operate
<1> QED BY <1>1, <1>2, <1>3, <1>4, <1>5, <1>6, <1>7 DEF MissionNext, Coordinate

\* The status that refresh_status computes is "complete" only of a merged roadmap.
LEMMA CompleteIsMerged ==
  ASSUME IntegrationInv, RefreshedStatus = "complete", missionStatus \in MissionStates
  PROVE  missionStatus = "complete" \/ RoadmapIsMerged
<1>1. /\ \A p \in Existing : p \in Recorded
      /\ Items \subseteq {item[p] : p \in Existing}
  BY DEF RefreshedStatus, Eligible, Recorded, Existing
<1> QED BY <1>1 DEF RoadmapIsMerged, IntegrationInv, IntegratedIsInBranch

Grows == branch' = branch \/ \E p \in Packages \ Merged : branch' = Append(branch, p)

\* What is merged stays merged, and keeps its roadmap item.
LEMMA MergedStays ==
  ASSUME IntegrationInv, StepInv, ItemsStay, [Grows]_vars, RoadmapIsMerged
  PROVE  RoadmapIsMerged'
<1>1. Merged \subseteq Merged'
  <2>1. CASE branch' = branch
    BY <2>1 DEF Merged
  <2>2. ASSUME NEW p \in Packages, branch' = Append(branch, p) PROVE Merged \subseteq Merged'
    <3>1. branch \in Seq(Packages)
      BY DEF IntegrationInv, IntegrationTypeOK
    <3>2. \A k \in DOMAIN branch : k \in DOMAIN branch' /\ branch'[k] = branch[k]
      BY <2>2, <3>1
    <3> QED BY <3>2 DEF Merged
  <2> QED BY <2>1, <2>2 DEF Grows, vars, integrationVars, repoVars
<1>2. ASSUME NEW p \in Merged PROVE item'[p] = item[p]
  <2>1. p \in Packages /\ p \in Earned
    BY DEF IntegrationInv, BranchIsEarned, Earned
  <2>2. pkg[p] # "absent"
    BY <2>1, EarnedIsComplete DEF StepInv, EvidenceFits
  <2> QED BY <2>1, <2>2 DEF ItemsStay
<1> QED BY <1>1, <1>2 DEF RoadmapIsMerged

\* A mission is complete only when every item of its roadmap is in its branch.
THEOREM CompleteMissionsAreMerged == MissionSpec => []CompleteMissionIsMerged
<1>1. MissionInit => MergedInv
  BY Coordinating DEF MissionInit, Init, MergedInv
<1>2. IntegrationInv /\ StepInv /\ MergedInv /\ [MissionNext]_allVars /\ [Grows]_vars
        => MergedInv'
  <2> SUFFICES ASSUME IntegrationInv, StepInv, MergedInv, [MissionNext]_allVars,
                      [Grows]_vars,
                      missionStatus' = "complete"
                        \/ \E i \in Integrators : found'[i] = "complete"
               PROVE  RoadmapIsMerged'
    BY DEF MergedInv
  <2>1. RoadmapIsMerged
    BY FoundByReading, CompleteIsMerged DEF MergedInv, StepInv, MissionTypes, RowsOK
  <2> QED BY <2>1, ItemsOfMission, MergedStays
<1>3. MergedInv => CompleteMissionIsMerged
  BY DEF MergedInv, RoadmapIsMerged, CompleteMissionIsMerged
<1>4. MissionSpec => [][Grows]_vars
  BY MissionIntegrates, BranchNeverShrinks, PTL
     DEF ImplementsIntegration, BranchOnlyGrows, Grows
<1>5. MissionSpec => []IntegrationInv
  BY MissionIntegrates, IntegrationInvariant, PTL DEF ImplementsIntegration
<1> QED BY <1>1, <1>2, <1>3, <1>4, <1>5, StepInvariant, PTL DEF MissionSpec
=============================================================================
