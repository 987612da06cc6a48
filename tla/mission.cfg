SPECIFICATION FairMissionSpec
CONSTANTS
  c1 = c1  c2 = c2  i1 = i1
  NoPackage = NoPackage  NoItem = NoItem  NoOne = NoOne
  Packages <- MCPackages
  Integrators = {c1, c2}
  Coordinators = {c1, c2}
  Commands = {}
  Items = {i1}
  Handmade = {2}
  DependsOn <- SecondNeedsFirst
  MaxPackages = 2
  MaxConcurrent = 1
  AutoIntegrate = TRUE
  AgentTakesPackages = TRUE
  Operations = {"pause", "resume", "cancel", "remove", "planner_cli", "retry", "recover",
                "rerun_verification", "refresh_planning", "answer"}
  Addressed = {1}
  MaxIncidents = 1
INVARIANTS TypeOK DependenciesFirst CompletePackageIsProven PausedMissionAdmitsNothing
  CompleteMissionIsMerged IntegratedIsInBranch
PROPERTIES CancelledPackageIsFinal BoundedPhaseIsLeftAlone ImplementsIntegration
  MergesAreAtomic CancelIsFinalized
CHECK_DEADLOCK FALSE
