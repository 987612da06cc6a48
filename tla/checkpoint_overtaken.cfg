SPECIFICATION Spec
CONSTANTS
  s1 = s1  s2 = s2  f1 = f1  f2 = f2
  Steps = {s1}
  Human = Human
  Files = {f1, f2}
  Revisions = {1, 2}
  MaxHumanCommits = 0
  MaxFaults = 1
  StagesMeanwhile = FALSE
INVARIANT CompleteIsReviewed
CHECK_DEADLOCK FALSE
