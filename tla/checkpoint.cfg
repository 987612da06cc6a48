SPECIFICATION Spec
CONSTANTS
  s1 = s1  s2 = s2  f1 = f1  f2 = f2
  Steps = {s1, s2}
  Human = Human
  Files = {f1, f2}
  Revisions = {1}
  MaxHumanCommits = 1
  MaxFaults = 1
  StagesMeanwhile = FALSE
VIEW StillRead
SYMMETRY Anything
INVARIANTS TypeOK RecordIsOwn IndexIsGivenBack CommitIsRecovered
PROPERTY CommitIsExact
CHECK_DEADLOCK FALSE
