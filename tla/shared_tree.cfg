SPECIFICATION Spec
CONSTANTS
  j1 = j1  j2 = j2   s1 = s1  s2 = s2   r1 = r1  r2 = r2   c1 = c1  c2 = c2
  NoOne = NoOne
  Coordinators = {c1, c2}
  Steps = {s1, s2}
  Jobs = {j1, j2}
  JobOf <- EachItsJob
  Repositories = {r1}
  RepositoryOf <- OneTree
  MaxIterations = 1
  MaxConcurrent = 0
  Operations = {}
  Crashes = FALSE
  Stalls = FALSE
SYMMETRY AnyCoordinator
INVARIANTS OneInTree CompleteIsClean
CHECK_DEADLOCK FALSE
