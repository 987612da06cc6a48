--------------------------- MODULE MissionBranch ---------------------------
(***************************************************************************)
(* What package integration promises: a package is merged into the mission *)
(* branch only after it was reviewed, verified and committed, a merge is   *)
(* never undone, and a merge is recorded only once it is in the branch.    *)
(***************************************************************************)
CONSTANT Packages

VARIABLES
  earned,     \* packages with an approval, a passing run and a commit
  merged,     \* packages whose commit the mission branch contains
  recorded    \* packages whose integration is recorded as complete

Init == earned = {} /\ merged = {} /\ recorded = {}

Earn(p) == earned' = earned \cup {p} /\ UNCHANGED <<merged, recorded>>

Merge(p) ==
  /\ p \in earned \ merged
  /\ merged' = merged \cup {p}
  /\ UNCHANGED <<earned, recorded>>

Record(p) ==
  /\ p \in merged
  /\ recorded' = recorded \cup {p}
  /\ UNCHANGED <<earned, merged>>

\* A repeated integration replaces the record of the one before it.
Reopen(p) == recorded' = recorded \ {p} /\ UNCHANGED <<earned, merged>>

Next == \E p \in Packages : Earn(p) \/ Merge(p) \/ Record(p) \/ Reopen(p)

Spec == Init /\ [][Next]_<<earned, merged, recorded>>
=============================================================================
