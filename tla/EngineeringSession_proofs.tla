--------------------- MODULE EngineeringSession_proofs ---------------------
(***************************************************************************)
(* Proofs about EngineeringSession: whatever the session does, its router  *)
(* behaves as the router alone, so what is proved of InferenceRouter holds *)
(* within a session; and every attempt but the first is paid for by an     *)
(* incident, so the counters keep their bounds.                            *)
(***************************************************************************)
EXTENDS EngineeringSession, InferenceRouter_proofs

SessionInv == attempt \in Nat /\ level \in Nat

RouterSteps == RouterNext \/ UNCHANGED routerVars

-----------------------------------------------------------------------------
(* What the actions do to the router                                       *)

\* The actions of the session that leave the router alone.
LEMMA QuietSteps ==
  ASSUME \/ Claim \/ TooManyAttempts \/ Raises
         \/ CheckControl \/ Heartbeat \/ Fenced \/ GiveUp \/ SessionFails
         \/ \E kind \in Actions : Execute(kind)
         \/ EndBlocked \/ HandIn \/ FinishRejected \/ TurnLimit
         \/ LoseLease \/ PauseJob \/ ResumeJob \/ CancelJob \/ Requeue \/ Accept
         \/ UNCHANGED vars
  PROVE  UNCHANGED routerVars
BY DEF Claim, TooManyAttempts, Raises, CheckControl, Heartbeat, Fenced,
       GiveUp, SessionFails, Execute, EndBlocked, HandIn, FinishRejected, TurnLimit, LoseLease, PauseJob,
       ResumeJob, CancelJob, Requeue, Accept, EndWith, vars

LEMMA EscalationsAreNatural ==
  ASSUME SessionInv
  PROVE  /\ attempt + 1 \in Nat /\ level + 1 \in Nat
         /\ EscalatedAttempt(level + 1) \in Nat
         /\ \A tier : Resumed(tier) \in Nat
BY RouterAssumption DEF SessionInv, EscalatedAttempt, GreaterOf, Resumed

LEMMA ChoiceIsAStep ==
  ASSUME NEW n \in Nat, Choose(n)
  PROVE  RouterNext
BY DEF RouterNext

\* Every step of the session is a step of the router or leaves it alone.
LEMMA SessionTakesRouterSteps ==
  ASSUME SessionInv, [Next]_vars
  PROVE  RouterSteps
<1> USE EscalationsAreNatural
<1>1. CASE Start
  <2>1. PICK n \in Nat : Choose(n)
    BY <1>1 DEF Start, RouteOnResume, SessionInv
  <2> QED BY <2>1, ChoiceIsAStep DEF RouterSteps
<1>2. CASE Escalate
  BY <1>2, ChoiceIsAStep DEF Escalate, RouterSteps
<1>3. CASE RecordProgress
  <2>1. Choose(attempt) \/ TakeReply
    BY <1>3 DEF RecordProgress
  <2> QED BY <2>1, ChoiceIsAStep DEF RouterSteps, RouterNext, SessionInv
<1>4. CASE Decide \/ RecordIdle \/ Crash
  BY <1>4 DEF Decide, RecordIdle, Crash, RouterSteps, RouterNext
<1>5. CASE Ask
  BY <1>5 DEF Ask, RouterSteps, RouterNext
<1>6. CASE BreakerCloses
  BY <1>6 DEF BreakerCloses, RouterSteps, RouterNext
<1>7. ASSUME \/ Claim \/ TooManyAttempts \/ Raises
             \/ CheckControl \/ Heartbeat \/ Fenced \/ GiveUp \/ SessionFails
             \/ \E kind \in Actions : Execute(kind)
             \/ EndBlocked \/ HandIn \/ FinishRejected \/ TurnLimit
             \/ LoseLease \/ PauseJob \/ ResumeJob \/ CancelJob \/ Requeue \/ Accept
             \/ UNCHANGED vars
      PROVE  RouterSteps
  BY <1>7, QuietSteps DEF RouterSteps
<1> QED BY <1>1, <1>2, <1>3, <1>4, <1>5, <1>6, <1>7 DEF Next, WorkOn

-----------------------------------------------------------------------------
(* The invariant of the session                                            *)

\* attempt and level stay natural numbers.
LEMMA CountersStayNatural ==
  ASSUME SessionInv, [Next]_vars
  PROVE  attempt' \in Nat /\ level' \in Nat
<1> USE EscalationsAreNatural DEF SessionInv
<1>1. CASE Claim \/ Start
  BY <1>1 DEF Claim, Start, loopVars, rowVars
<1>2. CASE Escalate
  BY <1>2 DEF Escalate, rowVars
<1>3. CASE RecordProgress
  BY <1>3 DEF RecordProgress
<1>4. CASE Decide \/ RecordIdle \/ Crash \/ Ask \/ BreakerCloses
  BY <1>4 DEF Decide, RecordIdle, Crash, ForgetLoop, Ask, BreakerCloses,
              sessionVars, rowVars, loopVars
<1>5. CASE \/ TooManyAttempts \/ Raises \/ CheckControl \/ Heartbeat \/ Fenced \/ GiveUp \/ SessionFails
           \/ EndBlocked \/ HandIn \/ FinishRejected \/ TurnLimit
           \/ \E kind \in Actions : Execute(kind)
  BY <1>5 DEF TooManyAttempts, Raises, CheckControl, Heartbeat, Fenced, GiveUp, SessionFails, Execute,
              EndBlocked, HandIn, FinishRejected, TurnLimit, EndWith,
              ForgetLoop, rowVars, loopVars
<1>6. CASE LoseLease \/ PauseJob \/ ResumeJob \/ CancelJob \/ Requeue \/ Accept
  BY <1>6 DEF LoseLease, PauseJob, ResumeJob, CancelJob, Requeue, Accept,
              loopVars
<1>7. CASE UNCHANGED vars
  BY <1>7 DEF vars, sessionVars
<1> QED BY <1>1, <1>2, <1>3, <1>4, <1>5, <1>6, <1>7 DEF Next, WorkOn

LEMMA SessionInvariant == Spec => []SessionInv
<1>1. Init => SessionInv
  BY DEF Init, SessionInv
<1>2. SessionInv /\ [Next]_vars => SessionInv'
  BY CountersStayNatural DEF SessionInv
<1> QED BY <1>1, <1>2, PTL DEF Spec

-----------------------------------------------------------------------------
(* The counters of the session                                             *)

FlagsOK == owned \in BOOLEAN /\ verified \in BOOLEAN

SessionTypeOK ==
  /\ job \in {"running", "paused", "cancelled"}
  /\ step \in {"queued", "running", "review", "complete", "blocked", "failed",
               "cancelled"}
  /\ attempt \in Nat
  /\ row \in [stagnation : 0..3, tier : Tiers]
  /\ pc \in {"idle", "starting", "boundary", "beating", "fenced", "deciding", "asking",
             "acting", "recording", "closing", "failing"}
  /\ action \in {"none"} \cup Actions
  /\ stagnation \in 0..3 /\ episodes \in 0..MaxEpisodes
  /\ incidents \in 0..MaxIncidents

OwnerIsAtWork ==
  /\ step = "running" => owned
  /\ owned => /\ pc # "idle" => step = "running"
              /\ job = "cancelled" => step = "complete"

\* A turn goes on only while it has not yet stagnated.
LoopFits ==
  /\ level = episodes
  /\ pc \in {"asking", "acting", "recording"} => stagnation < 3

CountInv ==
  FlagsOK /\ SessionTypeOK /\ AttemptsArePaid /\ OwnerIsAtWork /\ LoopFits

LEMMA StillPaid ==
  ASSUME NEW a \in Nat, NEW i \in Nat, NEW j \in Nat, i <= j
  PROVE  (a <= i + 1 => a <= j + 1) /\ (a <= i => a <= j)
OBVIOUS

LEMMA PaidAhead ==
  ASSUME NEW a \in Nat, NEW i \in Nat, a <= i
  PROVE  a <= i + 1
OBVIOUS

LEMMA IncidentPays ==
  ASSUME SessionTypeOK, Incident
  PROVE  /\ incidents' \in 0..MaxIncidents
         /\ attempt <= incidents + 1 => attempt <= incidents'
BY SessionAssumption DEF SessionTypeOK, Incident

LEMMA ClaimCounts ==
  ASSUME CountInv, Claim
  PROVE  CountInv'
<1> USE SessionAssumption DEF CountInv, Claim, loopVars
<1>0. FlagsOK'
  BY DEF FlagsOK
<1>1. SessionTypeOK' /\ OwnerIsAtWork'
  BY DEF SessionTypeOK, OwnerIsAtWork, Goto
<1>2. AttemptsArePaid'
  BY DEF SessionTypeOK, AttemptsArePaid, MayBeginAgain, Goto
<1>3. LoopFits'
  BY DEF LoopFits, Goto
<1> QED BY <1>0, <1>1, <1>2, <1>3

\* The end of a session with a status other than "queued", or seen by a session
\* whose job is paused or cancelled.
LEMMA EndCounts ==
  ASSUME CountInv, pc # "idle",
         NEW status \in {"queued", "review", "blocked", "failed"},
         status = "queued" => Controlled, EndWith(status)
  PROVE  CountInv'
<1> USE SessionAssumption DEF CountInv, EndWith, ForgetLoop, rowVars
<1>0. FlagsOK'
  BY DEF FlagsOK
<1>1. SessionTypeOK'
  <2>1. step' \in {step, status} /\ 0 \in 0..3 /\ 0 \in 0..MaxEpisodes
    OBVIOUS
  <2> QED BY <2>1 DEF SessionTypeOK
<1>2. OwnerIsAtWork'
  BY DEF OwnerIsAtWork
<1>3. AttemptsArePaid'
  <2>1. step' = step \/ step' # "queued" \/ job = "paused"
    BY DEF SessionTypeOK, OwnerIsAtWork, Controlled
  <2>2. step' # "running"
    BY DEF OwnerIsAtWork
  <2> QED BY <2>1, <2>2 DEF SessionTypeOK, AttemptsArePaid, MayBeginAgain
<1>4. LoopFits'
  BY DEF LoopFits
<1> QED BY <1>0, <1>1, <1>2, <1>3, <1>4

\* The steps of a turn, none of which touches job, step, owner or attempts.
LEMMA TurnCounts ==
  ASSUME CountInv, pc # "idle", pc' # "idle",
         UNCHANGED <<job, step, owned, attempt>>, FlagsOK',
         SessionTypeOK', LoopFits',
         incidents' \in {incidents, incidents + 1}
  PROVE  CountInv'
<1> USE DEF CountInv
<1>1. OwnerIsAtWork'
  BY DEF OwnerIsAtWork
<1>2. AttemptsArePaid'
  <2>1. MayBeginAgain' => MayBeginAgain
    BY DEF MayBeginAgain
  <2>2. /\ attempt \in Nat /\ incidents \in Nat /\ incidents' \in Nat
        /\ attempt' = attempt /\ incidents <= incidents'
    BY SessionAssumption DEF SessionTypeOK
  <2>3. attempt <= incidents + 1 /\ (MayBeginAgain => attempt <= incidents)
    BY DEF AttemptsArePaid
  <2>4. attempt <= incidents' + 1
    BY <2>2, <2>3, StillPaid
  <2>5. ASSUME MayBeginAgain' PROVE attempt <= incidents'
    BY <2>1, <2>2, <2>3, <2>5, StillPaid
  <2> QED BY <2>2, <2>4, <2>5 DEF AttemptsArePaid
<1> QED BY <1>1, <1>2

LEMMA SessionTurnCounts ==
  ASSUME CountInv,
         \/ Start \/ Raises \/ Heartbeat \/ Decide \/ Escalate \/ Ask \/ FinishRejected
         \/ RecordIdle \/ RecordProgress \/ \E kind \in Actions : Execute(kind)
  PROVE  CountInv'
<1> USE SessionAssumption DEF CountInv, SessionTypeOK, LoopFits, Goto
<1>0. FlagsOK'
  BY DEF FlagsOK, Start, Raises, Heartbeat, Decide, Escalate, Ask, FinishRejected, RecordIdle,
         RecordProgress, Execute, rowVars, loopVars
<1>s. CASE Start
  <2>1. row.stagnation \in 0..3
    OBVIOUS
  <2> QED BY <1>s, <2>1, TurnCounts, <1>0 DEF Start, rowVars
<1>r. CASE Raises
  BY <1>r, TurnCounts, <1>0 DEF Raises, Incident, loopVars
<1>h. CASE Heartbeat
  BY <1>h, TurnCounts, <1>0 DEF Heartbeat, rowVars, loopVars
<1>1. CASE Decide
  BY <1>1, TurnCounts, <1>0 DEF Decide, rowVars, loopVars
<1>2. CASE Escalate
  BY <1>2, TurnCounts, <1>0 DEF Escalate, rowVars
<1>3. CASE Ask
  BY <1>3, TurnCounts, <1>0 DEF Ask, Incident, loopVars
<1>4. CASE FinishRejected
  BY <1>4, TurnCounts, <1>0 DEF FinishRejected, rowVars, loopVars
<1>5. ASSUME NEW kind \in Actions, Execute(kind) PROVE CountInv'
  BY <1>5, TurnCounts, <1>0 DEF Execute, rowVars, Actions
<1>6. ASSUME NEW count \in 0..3, RecordRow(count)
      PROVE  row' \in [stagnation : 0..3, tier : Tiers]
  BY <1>6 DEF RecordRow, TierOf, Tiers
<1>7. CASE RecordIdle
  <2>1. stagnation + 1 \in 0..3 /\ pc = "recording"
    BY <1>7 DEF RecordIdle
  <2> QED BY <1>6, <1>7, <2>1, TurnCounts, <1>0 DEF RecordIdle, AfterRecord
<1>8. CASE RecordProgress
  BY <1>6, <1>8, TurnCounts, <1>0 DEF RecordProgress, AfterRecord
<1> QED BY <1>s, <1>r, <1>h, <1>1, <1>2, <1>3, <1>4, <1>5, <1>7, <1>8

\* What comes from outside the session.
LEMMA OutsideCounts ==
  ASSUME CountInv,
         \/ Crash \/ LoseLease \/ PauseJob \/ ResumeJob \/ CancelJob
         \/ Requeue \/ Accept \/ BreakerCloses \/ UNCHANGED vars
  PROVE  CountInv'
<1> USE SessionAssumption
        DEF CountInv, AttemptsArePaid, MayBeginAgain, OwnerIsAtWork, LoopFits,
            loopVars
<1>p. ASSUME Incident PROVE attempt <= incidents' /\ incidents' \in 0..MaxIncidents
  BY <1>p, IncidentPays
<1>n. incidents \in Nat /\ attempt \in Nat /\ 0 \in 0..3 /\ 0 \in 0..MaxEpisodes
  BY DEF SessionTypeOK
<1>0. FlagsOK'
  BY DEF FlagsOK, Crash, ForgetLoop, LoseLease, PauseJob, ResumeJob, CancelJob,
         Requeue, Accept, BreakerCloses, vars, sessionVars
<1>1. CASE Crash
  <2>0. incidents' \in 0..MaxIncidents
    BY <1>1, <1>p DEF Crash, SessionTypeOK
  <2>1. SessionTypeOK'
    BY <1>1, <1>n, <2>0 DEF Crash, ForgetLoop, SessionTypeOK
  <2>2. OwnerIsAtWork' /\ LoopFits'
    BY <1>1 DEF Crash, ForgetLoop
  <2>3. attempt' = attempt /\ attempt <= incidents' /\ incidents' \in Nat
    BY <1>1, <1>p DEF Crash
  <2>4. AttemptsArePaid'
    BY <2>3, <1>n, PaidAhead
  <2> QED BY <1>0, <2>1, <2>2, <2>4
<1>2. CASE LoseLease
  <2>0. incidents' \in 0..MaxIncidents
    BY <1>2, <1>p DEF LoseLease, SessionTypeOK
  <2>1. SessionTypeOK'
    BY <1>2, <1>n, <2>0 DEF LoseLease, SessionTypeOK
  <2>2. OwnerIsAtWork' /\ LoopFits'
    BY <1>2 DEF LoseLease
  <2>3. attempt' = attempt /\ attempt <= incidents' /\ incidents' \in Nat
    BY <1>2, <1>p, <1>n DEF LoseLease
  <2>4. AttemptsArePaid'
    BY <2>3, <1>n, PaidAhead
  <2> QED BY <1>0, <2>1, <2>2, <2>4
<1>3. CASE PauseJob
  <2>0. incidents' \in 0..MaxIncidents
    BY <1>3, <1>p DEF PauseJob, SessionTypeOK
  <2>1. SessionTypeOK'
    BY <1>3, <1>n, <2>0 DEF PauseJob, SessionTypeOK
  <2>2. OwnerIsAtWork' /\ LoopFits'
    BY <1>3 DEF PauseJob
  <2>3. attempt' = attempt /\ attempt <= incidents' /\ incidents' \in Nat
    BY <1>3, <1>p DEF PauseJob
  <2>4. AttemptsArePaid'
    BY <2>3, <1>n, PaidAhead
  <2> QED BY <1>0, <2>1, <2>2, <2>4
<1>4. CASE ResumeJob
  BY <1>4, <1>0 DEF ResumeJob, SessionTypeOK
<1>5. CASE CancelJob
  <2>0. incidents' \in 0..MaxIncidents
    BY <1>5, <1>p DEF CancelJob, SessionTypeOK
  <2>1. SessionTypeOK'
    BY <1>5, <1>n, <2>0 DEF CancelJob, SessionTypeOK
  <2>2. OwnerIsAtWork' /\ LoopFits'
    BY <1>5 DEF CancelJob
  <2>3. attempt' = attempt /\ attempt <= incidents' /\ incidents' \in Nat
    BY <1>5, <1>p DEF CancelJob
  <2>4. AttemptsArePaid'
    BY <2>3, <1>n, PaidAhead
  <2> QED BY <1>0, <2>1, <2>2, <2>4
<1>6. CASE Requeue
  <2>0. incidents' \in 0..MaxIncidents
    BY <1>6, <1>p DEF Requeue, SessionTypeOK
  <2>1. SessionTypeOK'
    BY <1>6, <1>n, <2>0 DEF Requeue, SessionTypeOK
  <2>2. OwnerIsAtWork' /\ LoopFits'
    BY <1>6 DEF Requeue
  <2>3. attempt' \in Nat /\ attempt' <= incidents' /\ incidents' \in Nat
    BY <1>6, <1>p, <1>n, <2>0 DEF Requeue
  <2>4. AttemptsArePaid'
    BY <2>3, <1>n, PaidAhead
  <2> QED BY <1>0, <2>1, <2>2, <2>4
<1>7. CASE Accept
  BY <1>7, <1>0 DEF Accept, SessionTypeOK
<1>8. CASE BreakerCloses \/ UNCHANGED vars
  BY <1>8, <1>0 DEF BreakerCloses, vars, sessionVars, SessionTypeOK
<1> QED BY <1>1, <1>2, <1>3, <1>4, <1>5, <1>6, <1>7, <1>8

LEMMA SessionCounts == Spec => []CountInv
<1>1. Init => CountInv
  <2> SUFFICES ASSUME Init PROVE CountInv
    OBVIOUS
  <2>1. row \in [stagnation : 0..3, tier : Tiers]
    BY DEF Init, Tiers
  <2>0. FlagsOK
    BY DEF Init, FlagsOK
  <2>2. SessionTypeOK
    BY <2>1, SessionAssumption DEF Init, SessionTypeOK
  <2>3. AttemptsArePaid /\ OwnerIsAtWork /\ LoopFits
    BY DEF Init, AttemptsArePaid, MayBeginAgain, OwnerIsAtWork, LoopFits
  <2> QED BY <2>0, <2>2, <2>3 DEF CountInv
<1>2. CountInv /\ [Next]_vars => CountInv'
  <2> SUFFICES ASSUME CountInv, [Next]_vars PROVE CountInv'
    OBVIOUS
  <2>1. CASE Claim
    BY <2>1, ClaimCounts
  <2>2. CASE CheckControl
    <3>1. CASE EndWith("queued") /\ Controlled
      BY <2>2, <3>1, EndCounts DEF CheckControl
    <3>2. CASE UNCHANGED <<step, action, loopVars, rowVars>> /\ pc' = "beating"
      <4>1. FlagsOK' /\ SessionTypeOK' /\ LoopFits'
        BY <3>2 DEF CountInv, FlagsOK, SessionTypeOK, LoopFits, rowVars, loopVars
      <4> QED BY <2>2, <3>2, <4>1, TurnCounts DEF CheckControl, rowVars
    <3> QED BY <2>2, <3>1, <3>2 DEF CheckControl, Goto
  <2>3. CASE Fenced
    <3>1. CASE EndWith("queued") /\ Controlled
      BY <2>3, <3>1, EndCounts DEF Fenced
    <3>2. CASE UNCHANGED <<step, action, loopVars, rowVars>> /\ pc' = "failing"
      <4>1. FlagsOK' /\ SessionTypeOK' /\ LoopFits'
        BY <3>2 DEF CountInv, FlagsOK, SessionTypeOK, LoopFits, rowVars, loopVars
      <4> QED BY <2>3, <3>2, <4>1, TurnCounts DEF Fenced, rowVars
    <3> QED BY <2>3, <3>1, <3>2 DEF Fenced, Goto
  <2>4. CASE TooManyAttempts \/ GiveUp \/ SessionFails \/ EndBlocked \/ HandIn
    BY <2>4, EndCounts DEF TooManyAttempts, GiveUp, SessionFails, EndBlocked, HandIn
  <2>5. CASE TurnLimit
    BY <2>5, EndCounts DEF TurnLimit
  <2> QED BY <2>1, <2>2, <2>3, <2>4, <2>5, SessionTurnCounts, OutsideCounts
             DEF Next, WorkOn
<1> QED BY <1>1, <1>2, PTL DEF Spec

-----------------------------------------------------------------------------
(* Theorems                                                                *)

\* Every behaviour of a session is one of the router.
THEOREM SessionUsesRouter == Spec => RouterSpec
<1>1. Init => RouterInit
  BY DEF Init
<1>2. SessionInv /\ [Next]_vars => [RouterNext]_routerVars
  BY SessionTakesRouterSteps DEF RouterSteps
<1> QED BY <1>1, <1>2, SessionInvariant, PTL DEF Spec, RouterSpec

\* Within a session too spending is counted, the policy is kept by every chain
\* that may be built, and requests walk back to the local model.
THEOREM SessionRoutesLawfully ==
  Spec => []SpendIsCounted /\ []PolicyIsKept /\ WalksBack
BY SessionUsesRouter, SpendingIsCounted, PolicyIsAlwaysKept, AlwaysWalksBack, PTL

\* Every attempt but the first is paid for by a crash, an error, a lost lease, a
\* pause, a review or a retry: a session ends by itself with a status from which
\* no worker begins again (attempt_count of the claim against the ends of
\* run_task).
THEOREM AttemptsStayPaid == Spec => []AttemptsArePaid
<1>1. CountInv => AttemptsArePaid
  BY DEF CountInv
<1> QED BY <1>1, SessionCounts, PTL

\* The state of the session keeps its type, with its counters in their bounds:
\* at most three idle turns in a row, recorded or not, at most MaxEpisodes
\* escalations, and the router within its chain and its budget.
THEOREM SessionTypesAreKept == Spec => []TypeOK
<1>1. CountInv /\ RouterTypeOK => TypeOK
  BY SessionAssumption
     DEF CountInv, FlagsOK, SessionTypeOK, AttemptsArePaid, LoopFits, TypeOK
<1> QED BY <1>1, SessionCounts, SessionUsesRouter, RouterTypeCorrect, PTL
=============================================================================
