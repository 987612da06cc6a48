---------------------------- MODULE MCCheckpoint ----------------------------
(* Instances of Checkpoint for TLC.                                         *)
EXTENDS Checkpoint, TLC

CONSTANTS s1, s2, f1, f2

Anything == Permutations({s1, s2}) \cup Permutations({f1, f2})

\* What actions still read: no action reads reviewed, and none reads the session
\* of a complete step.  Only CompleteIsReviewed does; its run has no VIEW.
Session(s) == IF status[s] = "complete" THEN <<>> ELSE <<start[s], baseline[s], approved[s]>>
StillRead  == <<gitVars, status, [s \in Steps |-> Session(s)], recorded, serviceVars>>
=============================================================================
