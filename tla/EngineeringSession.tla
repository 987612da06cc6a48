------------------------- MODULE EngineeringSession -------------------------
(***************************************************************************)
(* EngineeringAgent.run_task: the durable session in which one worker      *)
(* works on one step, turn by turn, with the models of its router, and     *)
(* which it resumes after a pause, a crash or a rejected review.           *)
(*                                                                         *)
(* A turn asks the database whether the job is still wanted, renews the    *)
(* lease, decides about escalation, asks a model, executes its action and  *)
(* records it.  An action is told apart only by what it does to the loop:  *)
(* progress, a passing test, no progress, "finish" or "blocked".  Pauses,  *)
(* cancellations, crashes, lost leases and exceptions (a Git command, the  *)
(* database, a branch that is not the one of the task) may come between    *)
(* any two steps; MaxIncidents bounds how many such things, failing        *)
(* backends and requeues happen.  The lease protocol is in StepWorkflow.   *)
(***************************************************************************)
EXTENDS InferenceRouter

CONSTANTS
  MaxAttempts,   \* MAX_ENGINEERING_ATTEMPTS
  MaxEpisodes,   \* ENGINEERING_MAX_STAGNATION_EPISODES
  TurnLimited,   \* whether ENGINEERING_TURN_LIMIT is set
  PremiumNamed,  \* the cloud backends whose model has the name of a premium one
  MaxIncidents   \* bound: failures, crashes, controls and requeues

ASSUME SessionAssumption ==
  /\ MaxAttempts \in Nat \ {0} /\ MaxEpisodes \in Nat /\ MaxIncidents \in Nat
  /\ TurnLimited \in BOOLEAN
  /\ PremiumNamed \subseteq {"cloud", "premium"}

VARIABLES
  job, step,     \* jobs.status and steps.status
  owned,         \* steps.worker_id names this worker
  attempt,       \* steps.attempt_count
  row,           \* engineering_sessions: stagnation_count, current_model_tier
  pc,            \* where the worker is in run_task
  action,        \* the kind of the action it executes
  verified, stagnation, episodes, level, \* locals of run_task
  incidents

sessionVars == <<job, step, owned, attempt, row, pc, action, verified,
                 stagnation, episodes, level, incidents>>
vars == <<routerVars, sessionVars>>
rowVars == <<job, owned, attempt, row, incidents>>
loopVars == <<verified, stagnation, episodes, level>>

Actions == {"progress", "tested", "idle", "finish", "blocked"}
Tiers == {"none", "local", "standard", "premium"}

TypeOK ==
  /\ RouterTypeOK
  /\ job \in {"running", "paused", "cancelled"}
  /\ step \in {"queued", "running", "review", "complete", "blocked", "failed",
               "cancelled"}
  /\ owned \in BOOLEAN /\ verified \in BOOLEAN
  /\ attempt \in 0..(MaxIncidents + 1)
  /\ row \in [stagnation : 0..3, tier : Tiers]
  /\ pc \in {"idle", "starting", "boundary", "beating", "fenced", "deciding", "asking",
             "acting", "recording", "closing", "failing"}
  /\ action \in {"none"} \cup Actions
  /\ stagnation \in 0..3 /\ episodes \in 0..(MaxEpisodes + 1)
  /\ level \in 0..MaxEpisodes
  /\ incidents \in 0..MaxIncidents

Init ==
  /\ RouterInit
  /\ job = "running" /\ step = "queued" /\ owned = FALSE /\ attempt = 0
  /\ row = [stagnation |-> 0, tier |-> "none"]
  /\ pc = "idle" /\ action = "none" /\ verified = FALSE
  /\ stagnation = 0 /\ episodes = 0 /\ level = 0
  /\ incidents = 0

Goto(place) == pc' = place

Incident == incidents < MaxIncidents /\ incidents' = incidents + 1

-----------------------------------------------------------------------------
(* The end of a session                                                    *)

ForgetLoop ==
  /\ pc' = "idle" /\ action' = "none" /\ verified' = FALSE
  /\ stagnation' = 0 /\ episodes' = 0 /\ level' = 0

\* update_step changes the step of its own worker only; otherwise it raises,
\* again in the exception handler, and the session ends with nothing written.
EndWith(status) ==
  /\ step' = IF owned THEN status ELSE step
  /\ ForgetLoop
  /\ UNCHANGED <<rowVars, routerVars>>

\* Mutant: a failed attempt goes back to the queue.
SessionRetries == pc = "failing" /\ EndWith("queued")

\* The exception handler of run_task: whatever was raised, the step has failed.
SessionFails == pc = "failing" /\ EndWith("failed")

\* Any statement of a session may raise: git head, branch, status and diff, a
\* branch that is not the one of the task, a query that fails.
Raises ==
  /\ pc \in {"starting", "boundary", "beating", "deciding", "acting",
             "recording", "closing"}
  /\ pc = "starting" => attempt <= MaxAttempts
  /\ Incident
  /\ Goto("failing")
  /\ UNCHANGED <<job, step, owned, attempt, row, action, loopVars, routerVars>>

-----------------------------------------------------------------------------
(* Starting and resuming                                                   *)

\* The scheduled attempt of a cloud tier.
Resumed(tier) == IF tier = "premium" THEN EscalateAfter + 1 ELSE EscalateAfter

\* A session that was last served by a cloud tier chooses that tier again.
RouteOnResume ==
  Choose(IF row.tier \in {"standard", "premium"} THEN Resumed(row.tier)
         ELSE attempt)

\* The claim counts the attempt.
Claim ==
  /\ pc = "idle" /\ job = "running" /\ step = "queued"
  /\ owned' = TRUE /\ step' = "running"
  /\ attempt' = attempt + 1
  /\ Goto("starting")
  /\ UNCHANGED <<job, row, action, loopVars, incidents, routerVars>>

\* In a later transaction too many attempts fail the step.
TooManyAttempts ==
  /\ pc = "starting" /\ attempt > MaxAttempts
  /\ EndWith("failed")

\* A session goes on from its row, if it has one.
Start ==
  /\ pc = "starting" /\ attempt <= MaxAttempts
  /\ stagnation' = row.stagnation
  /\ RouteOnResume
  /\ Goto(IF chain' = <<>> THEN "failing" ELSE "boundary")
  /\ UNCHANGED <<step, action, verified, episodes, level, rowVars>>

-----------------------------------------------------------------------------
(* The turn boundary                                                       *)

\* _controlled_result: update_step(QUEUED) when the job is not wanted now.
Controlled == job \in {"paused", "cancelled"}

CheckControl ==
  /\ pc = "boundary"
  /\ \/ Controlled /\ EndWith("queued")
     \/ /\ ~Controlled
        /\ Goto("beating")
        /\ UNCHANGED <<step, action, loopVars, rowVars, routerVars>>

\* Store.heartbeat of coder_agent/db.py.
HeartbeatOk == owned /\ step = "running" /\ job = "running"

Heartbeat ==
  /\ pc = "beating"
  /\ Goto(IF HeartbeatOk THEN "deciding" ELSE "fenced")
  /\ UNCHANGED <<step, action, loopVars, rowVars, routerVars>>

\* After a refused heartbeat the control is looked at again.  Without one the
\* lease is held to be lost, which is raised as an error.
Fenced ==
  /\ pc = "fenced"
  /\ \/ Controlled /\ EndWith("queued")
     \/ /\ ~Controlled
        /\ Goto("failing")
        /\ UNCHANGED <<step, action, loopVars, rowVars, routerVars>>

-----------------------------------------------------------------------------
(* Stagnation and escalation                                               *)

GreaterOf(a, b) == IF a > b THEN a ELSE b

\* The attempt an escalation asks the router for.
EscalatedAttempt(l) == GreaterOf(attempt + 2 + l, EscalateAfter + l - 1)

\* The first request of the turn, unless three turns in a row were idle.
Decide ==
  /\ pc = "deciding" /\ stagnation < 3
  /\ StartRequest
  /\ Goto("asking")
  /\ UNCHANGED <<step, action, loopVars, rowVars>>

\* Mutant: an escalation forgets the episodes before it.
EscalateAfresh ==
  /\ pc = "deciding" /\ stagnation >= 3
  /\ episodes' = 0
  /\ level' = 1
  /\ Choose(EscalatedAttempt(1))
  /\ stagnation' = 0
  /\ Goto(IF chain' = <<>> THEN "failing" ELSE "deciding")
  /\ UNCHANGED <<step, action, verified, rowVars>>

\* Mutant: one escalation too many.
EscalateOnceMore ==
  /\ pc = "deciding" /\ stagnation >= 3 /\ episodes <= MaxEpisodes
  /\ episodes' = episodes + 1
  /\ level' = level + 1
  /\ Choose(EscalatedAttempt(level + 1))
  /\ stagnation' = 0
  /\ Goto(IF chain' = <<>> THEN "failing" ELSE "deciding")
  /\ UNCHANGED <<step, action, verified, rowVars>>

Escalate ==
  /\ pc = "deciding" /\ stagnation >= 3 /\ episodes < MaxEpisodes
  /\ episodes' = episodes + 1
  /\ level' = level + 1
  /\ Choose(EscalatedAttempt(level + 1))
  /\ stagnation' = 0
  /\ Goto(IF chain' = <<>> THEN "failing" ELSE "deciding")
  /\ UNCHANGED <<step, action, verified, rowVars>>

GiveUp ==
  /\ pc = "deciding" /\ stagnation >= 3 /\ episodes >= MaxEpisodes
  /\ EndWith("blocked")

-----------------------------------------------------------------------------
(* The model call                                                          *)

\* One step of the request; a failing backend is an incident.
Ask ==
  /\ pc = "asking" /\ position > 0
  /\ \/ /\ \E b \in Backends :
             SkipOpen(b) \/ \E usage \in Usages : Answers(b, usage)
        /\ UNCHANGED incidents
     \/ (\E b \in Backends : Fails(b) \/ Garbles(b)) /\ Incident
  /\ Goto(IF reply' \in Backends THEN "acting"
          ELSE IF reply' \in Failures THEN "failing" ELSE "asking")
  /\ UNCHANGED <<job, step, owned, attempt, row, action, loopVars>>

-----------------------------------------------------------------------------
(* Executing and recording an action                                       *)

Execute(kind) ==
  /\ pc = "acting"
  /\ action' = kind
  /\ verified' = (verified \/ kind = "tested")
  /\ Goto("recording")
  /\ UNCHANGED <<step, stagnation, episodes, level, rowVars, routerVars>>

\* progress_classification: "blocked" and a "finish" that is not verified count
\* as no progress; a verified "finish" may come with changes of the tree.
Stagnates ==
  \/ action \in {"idle", "blocked"}
  \/ action = "finish" /\ ~verified

MayProgress == ~Stagnates
MayStagnate == Stagnates \/ action = "finish"

\* _model_tier goes by the provider and the name of the model.
TierOf(b) == IF b = "local" THEN "local"
             ELSE IF b \in PremiumNamed THEN "premium" ELSE "standard"

AfterRecord ==
  IF action \in {"blocked", "finish"}
    THEN Goto("closing") /\ UNCHANGED action
    ELSE Goto("boundary") /\ action' = "none"

\* record_engineering_action is not fenced by the lease.
RecordRow(count) ==
  row' = [stagnation |-> count, tier |-> TierOf(reply)]

RecordIdle ==
  /\ pc = "recording" /\ MayStagnate
  /\ RecordRow(stagnation + 1)
  /\ stagnation' = stagnation + 1
  /\ TakeReply
  /\ AfterRecord
  /\ UNCHANGED <<job, step, owned, attempt, verified, episodes, level, incidents>>

\* Progress ends an escalation: routine work goes back to the first tier.
RecordProgress ==
  /\ pc = "recording" /\ MayProgress
  /\ RecordRow(0)
  /\ stagnation' = 0
  /\ IF level > 0
       THEN Choose(attempt) /\ level' = 0 /\ episodes' = 0
       ELSE TakeReply /\ UNCHANGED <<level, episodes>>
  /\ IF reply' = "unavailable"
       THEN Goto("failing") /\ UNCHANGED action
       ELSE AfterRecord
  /\ UNCHANGED <<job, step, owned, attempt, verified, incidents>>

EndBlocked ==
  /\ pc = "closing" /\ action = "blocked"
  /\ EndWith("blocked")

\* "finish" is accepted with changes of its own and a passing test.
HandIn ==
  /\ pc = "closing" /\ action = "finish" /\ verified
  /\ EndWith("review")

\* No change of its own, no passing test, or a likely secret.
FinishRejected ==
  /\ pc = "closing" /\ action = "finish"
  /\ Goto("boundary") /\ action' = "none"
  /\ UNCHANGED <<step, loopVars, rowVars, routerVars>>

\* The explicit turn limit, looked at where a turn would begin.
TurnLimit ==
  /\ pc = "boundary" /\ TurnLimited
  /\ EndWith(IF Controlled THEN "queued" ELSE "blocked")

-----------------------------------------------------------------------------
(* Everything else                                                         *)

\* The process dies and comes up again: only the rows and files are left.
Crash ==
  /\ pc # "idle" /\ Incident
  /\ ForgetLoop
  /\ Restart
  /\ UNCHANGED <<job, step, owned, attempt, row>>

\* The lease of a session that died, or stalled, is recovered elsewhere.
LoseLease ==
  /\ owned /\ step = "running"
  /\ IF pc = "idle" THEN UNCHANGED incidents ELSE Incident
  /\ owned' = FALSE /\ step' = "queued"
  /\ UNCHANGED <<job, attempt, row, pc, action, loopVars, routerVars>>

PauseJob ==
  /\ job = "running" /\ Incident
  /\ job' = "paused"
  /\ UNCHANGED <<step, owned, attempt, row, pc, action, loopVars, routerVars>>

ResumeJob ==
  /\ job = "paused"
  /\ job' = "running"
  /\ UNCHANGED <<step, owned, attempt, row, pc, action, loopVars, incidents,
                 routerVars>>

CancelJob ==
  /\ job # "cancelled" /\ Incident
  /\ job' = "cancelled"
  /\ IF step = "complete" THEN UNCHANGED <<step, owned>>
     ELSE step' = "cancelled" /\ owned' = FALSE
  /\ UNCHANGED <<attempt, row, pc, action, loopVars, routerVars>>

\* A review sends the step back or lets it pass; a blocked or failed step is
\* retried, the attempts of which retry_job counts from zero.
Requeue ==
  /\ pc = "idle" /\ step \in {"review", "blocked", "failed"} /\ Incident
  /\ step' = "queued" /\ owned' = FALSE
  /\ attempt' \in IF step = "review" THEN {attempt} ELSE {attempt, 0}
  /\ UNCHANGED <<job, row, pc, action, loopVars, routerVars>>

Accept ==
  /\ pc = "idle" /\ step = "review"
  /\ step' = "complete"
  /\ UNCHANGED <<job, owned, attempt, row, pc, action, loopVars, incidents,
                 routerVars>>

BreakerCloses ==
  /\ \E b \in Backends : Elapse(b)
  /\ UNCHANGED sessionVars

-----------------------------------------------------------------------------

WorkOn ==
  \/ Claim \/ TooManyAttempts \/ Start
  \/ CheckControl \/ Heartbeat \/ Fenced
  \/ Decide \/ Escalate \/ GiveUp \/ Ask \/ SessionFails
  \/ \E kind \in Actions : Execute(kind)
  \/ RecordIdle \/ RecordProgress \/ EndBlocked \/ HandIn \/ FinishRejected
  \/ TurnLimit

Next ==
  \/ WorkOn
  \/ Raises \/ Crash \/ LoseLease \/ PauseJob \/ ResumeJob \/ CancelJob
  \/ Requeue \/ Accept \/ BreakerCloses

Spec == Init /\ [][Next]_vars

FairSpec == Spec /\ WF_vars(WorkOn)

-----------------------------------------------------------------------------
(* Properties                                                              *)

\* A session that stays on the job goes on making progress: three turns in a
\* row without any lead to an escalation, and MaxEpisodes escalations without
\* any end the session as "blocked", wherever its routes lead, whatever pauses
\* and crashes come in between (the stagnation counters of run_task).
StuckSessionEnds ==
  []<>(pc = "idle") \/ []<>(pc = "recording" /\ MayProgress)

\* The step is queued, or will be without a further incident: by the recovery
\* of a session that died, or by a session that sees its job paused.
MayBeginAgain ==
  \/ step = "queued"
  \/ step = "running" /\ pc = "idle"
  \/ job = "paused" /\ pc # "idle"

\* Every attempt but the first is paid for by a crash, an error, a lost lease,
\* a pause, a review or a retry: however its ends are reached, and whatever an
\* operator does in the middle of them, a session never puts its step back into
\* the queue of its own (the ends of run_task against claim_task).
AttemptsArePaid ==
  /\ attempt <= incidents + 1
  /\ MayBeginAgain => attempt <= incidents
=============================================================================
