----------------------------- MODULE MCMission -----------------------------
(* Instances of MissionWorkflow for TLC.                                   *)
EXTENDS MissionWorkflow, TLC

CONSTANTS c1, c2, i1

MCPackages == {1, 2}
SecondNeedsFirst == [p \in MCPackages |-> IF p = 2 THEN {1} ELSE {}]
=============================================================================
