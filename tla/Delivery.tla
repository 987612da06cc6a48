------------------------------- MODULE Delivery -------------------------------
(***************************************************************************)
(* What the team promises of a step, without coordinators, leases or       *)
(* retries: a candidate is approved, then verified, then committed, and    *)
(* only then is the step complete.  Every one of these stages but the      *)
(* commit may be lost again; what is committed is never taken back.        *)
(***************************************************************************)
EXTENDS Naturals

CONSTANT Steps

VARIABLE stage

Stages == {"none", "open", "approved", "verified", "committed", "complete"}

Init == stage = [s \in Steps |-> "none"]

\* The planner creates a package of steps.
Open ==
  \E package \in (SUBSET Steps) \ {{}} :
    /\ \A s \in package : stage[s] = "none"
    /\ stage' = [s \in Steps |-> IF s \in package THEN "open" ELSE stage[s]]

Move(s, from, to) ==
  stage[s] \in from /\ stage' = [stage EXCEPT ![s] = to]

Approve(s)  == Move(s, {"open"}, "approved")
Verify(s)   == Move(s, {"approved"}, "verified")
Reject(s)   == Move(s, {"approved", "verified"}, "open")
Commit(s)   == Move(s, {"verified"}, "committed")
Complete(s) == Move(s, {"committed"}, "complete")

Next ==
  \/ Open
  \/ \E s \in Steps : Approve(s) \/ Verify(s) \/ Reject(s) \/ Commit(s) \/ Complete(s)

Spec == Init /\ [][Next]_stage
=============================================================================
