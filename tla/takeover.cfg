SPECIFICATION FairSpec
CONSTANTS
  j1 = j1  j2 = j2   s1 = s1  s2 = s2   r1 = r1  r2 = r2   c1 = c1  c2 = c2
  NoOne = NoOne
  Coordinators = {c1, c2}
  Steps = {s1}
  Jobs = {j1}
  JobOf <- AllOfJob
  Repositories = {r1}
  RepositoryOf <- OneTree
  MaxIterations = 2
  MaxConcurrent = 1
  Operations = {}
  Crashes = TRUE
  Stalls = FALSE
INVARIANT PlanningIsAlone
PROPERTIES StepsAreDelivered AbandonedIsRecovered
CHECK_DEADLOCK FALSE
