--------------------------- MODULE MCStepWorkflow ---------------------------
(* Instances of StepWorkflow for TLC.                                       *)
EXTENDS StepWorkflow, TLC

CONSTANTS j1, j2, s1, s2, r1, r2, c1, c2

\* Which job a step belongs to.
AllOfJob == [s \in Steps |-> j1]
EachItsJob == [s \in Steps |-> IF s = s1 THEN j1 ELSE j2]

\* Which working tree it is carried out in.
OneTree == [s \in Steps |-> r1]

AnyCoordinator == Permutations({c1, c2})
=============================================================================
