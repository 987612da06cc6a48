# The agent team's delivery workflow in TLA+

This directory holds a formal model of the repository's delivery pipeline:
planning, engineering, review, verification and checkpoint of the steps of a
job, driven by any number of `agent-orchestrator` processes through PostgreSQL
and Git; the missions whose work packages these jobs carry out and whose branch
they are merged into; and the engineering session with the router that picks
its models. TLC checks the model on small instances; TLAPS proves what matters
most for every value of the constants. `src/` below is the repository.

1. [Inventory](#1-inventory)
2. [Plan](#2-plan)
3. [StepWorkflow](#3-stepworkflow)
4. [Checkpoint](#4-checkpoint)
5. [Missions and integration](#5-missions-and-integration)
6. [Session and router](#6-session-and-router)
7. [Runs](#7-runs)
8. [Where code and documentation disagree](#8-where-code-and-documentation-disagree)
9. [Proofs](#9-proofs)
10. [What is not modelled](#10-what-is-not-modelled)

## 1. Inventory

### Components

| Component | State it keeps | Operations | Correct when |
|---|---|---|---|
| Planner (`planner_agent/`) | job status, job lease, iterations, planner decisions, `next_retry_at` | `claim_job`, `context`, `heartbeat`, `apply_decision`, `defer`, CLI pause/resume/cancel/retry | one planner decides per job, never while a step is at work; the iteration budget holds; a job is completed only when its steps are |
| Engineering (`coder_agent/`, `orchestrator/orchestrator.py:_code`) | step lease, session (starting commit, baseline, turns, fingerprints), working tree | `claim_engineering`, a turn, `update_step`, `finish_engineering_handoff`, crash handling | one phase per tree; edits only what the session owns; an interrupted attempt is taken up again |
| Reviewer (`reviewer_agent/`) | review lease, reviews, verdict | `next_review_step`, `claim`, evidence, `complete`, `abandon`, `finish_review_handoff` | a verdict is about the change set that is in the tree; a rejection returns the same step |
| Verification (`orchestrator/verification.py`) | verification runs, `approved_files` | `claim_verification`, commands, `record_verification` | nothing reaches a checkpoint without it; a failure returns the step |
| Checkpoint (`orchestrator/checkpoint.py`) | checkpoint run with its marker, index, branch | `claim_checkpoint`, the Git commands, `record_checkpoint` | exactly the approved files, once, recoverable after a crash |
| Lease recovery (`orchestrator/store.py`, `_handle_recovery`) | all leases and repository locks | `recover_expired`, planner recovery, requeue or block, iteration limit | every abandoned row is taken up; nothing is taken from a live worker |
| Job controls (`store.control`, Planner CLI) | job and step status, owners | pause, resume, cancel, remove, retry, recover, rerun verification, refresh planning, answer | stops are durable, finished work stays finished |
| Work packages and missions (`orchestrator/mission.py`, `store.py`) | packages, dependencies, package leases, mission status | ensure, claim, advance, complete, recover, mission pause/stop/reconcile | dependencies respected, one owner, a stop reaches everything |
| Worktrees and integration (`worktrees.py`, `integration.py`) | worktrees, mission branch, integration rows | create/remove, merge in a detached worktree, `update-ref` | a package is merged once, onto the base it was merged with |
| Inference routing (`agent_core/llm.py`, routing agent) | circuit file, budgets, counters, route history | `choose`, failover, `_record_response` | every chain keeps to the policy, spending is counted, a failing provider is left alone and never the last word |
| Engineering session (`coder_agent/agent.py:run_task`) | session row, stagnation, episodes, escalation level, chain | a turn, escalation, resume, hand-in | a stuck session ends, none puts its own step back into the queue, an interrupted one is resumed |
| Human queue | requests, owners, outcomes | enqueue, claim, answer, outcome | one answer, applied once |
| Control Center | operations, web sessions, login attempts | request, acknowledge, finish; login, CSRF | audited, idempotent, throttled |
| Telemetry, metrics, evaluations, redaction, prompts, logging, backups | read models, text | | decide nothing in the workflow |

### How they interact

Nothing is passed in memory. A worker *claims* a row in one transaction
(`SELECT ... FOR UPDATE SKIP LOCKED` and an `UPDATE` that writes owner and
lease), works outside any transaction for seconds to hours (a model call, tests,
Git commands) under a heartbeat thread, and *records* the outcome in another
transaction; a third often hands the job label over. The job label
(`jobs.status`) says which agent is next and the step status what it finds.
The working tree is shared between phases, steps and jobs of one repository and
with humans; `repository_locks` serializes the phases that use it.

### What is hard here

* **Claims and records are far apart.** Between them a lease may run out, an
  operator may cancel, another coordinator may take over. Some records are fenced
  by owner (`apply_decision`, `record_verification`, `record_checkpoint`), some
  are not (the reviewer's `complete`).
* **Two transactions for one transition.** Verdict and hand-off, update and
  hand-off: a crash in between leaves rows that only a recovery query can find.
* **PostgreSQL and Git cannot commit together.** The marker in the commit message
  is the bridge; the index and the tree have none.
* **Several steps per job** share one label, one tree and one budget.
* **Operators act at any moment**, on every state.

`PROJECT.json` lists each hazard at its line, with the properties that watch it.

## 2. Plan

| # | Module | What | State |
|---|---|---|---|
| 1 | `StepWorkflow`, `Delivery` | jobs, steps, leases, lock, recovery, controls; the abstract promise | modelled, checked, twelve theorems |
| 2 | `Checkpoint` | the Git commands of one checkpoint, index, lock file, timeouts, a human in the tree | modelled, checked, six theorems |
| 3 | `Integration`, `MissionBranch` | merging packages into the mission branch by several processes; the abstract promise | modelled, checked, five theorems |
| 4 | `MissionWorkflow` | packages, dependencies, admission, mirroring, mission controls, job controls and reconciliation, composed with 3 | modelled, checked, nine theorems |
| 5 | `InferenceRouter` | chains, failover, breakers, budgets, accounting | modelled, checked, five theorems |
| 6 | `EngineeringSession` | turns, stagnation, model escalation, errors, resume, composed with 5 | modelled, checked, four theorems |
| 7 | `HumanQueue`, `ControlOperations`, `ControlAuth` | small state machines of the Control Center, on which nothing above depends | left, section 10 |
| 8 | pure functions | routing classifier, prompt truncation against reference definitions | left, section 10 |

Each component is checked in one run together with the component it talks to
(a mission with integration, a session with its router), not in one run per
property. Every invariant and every action property of the passing runs is proved as well
(section 9); what TLC alone checks is liveness. Left to prove: weaker hypotheses for the
theorems of `Exclusion_proofs`.

## 3. StepWorkflow

One action is one database transaction, one reading or writing of the tree, or
one event of the environment. The correspondence, phase by phase:

| Model | Code |
|---|---|
| `jobStatus`, `planner`, `plannerLease`, `iterations` | `jobs.status`, `planner_worker_id`, `lease_expires_at`, `current_iteration` |
| `stepStatus`, `approval` | `steps.status`, the last verdict |
| `engineer`/`reviewer`/`verifier` and leases | `steps.worker_id`, `reviewer_worker_id`, `orchestrator_worker_id` and their `*_lease_expires_at` |
| `lockOwner`, `lockLease` | `repository_locks` (owner `worker:phase:step`) |
| `pc`, `task`, `beating` | where `AgentOrchestrator.once()` is, for which row, and whether the `_lease_heartbeat` thread runs |
| `dirty`, `commit`, `base` | whose changes are in the tree; the commit that carries a step's marker; whether HEAD is the session's starting commit |
| `seals`, `fresh` | history variables: which judgements hold of the step's change set as it now is; whose reading of the tree is not outdated |

* *Planning*: `ClaimJob`, `PlannerReads` (`context`), `PlannerHeartbeat`, the
  decisions `PlannerCreatesSteps` / `PlannerRetriesStep` / `PlannerSettles`
  (complete, blocked, needs human: `apply_decision`), `PlannerDefers`,
  `PlannerLosesLease`. Completion is judged on what was *read*
  (`CompletionSupported`), and applied later under `OwnsPlan`.
* *Engineering*: `ClaimEngineering` (with `AcquireLock` and the concurrency
  limit), `EngineerTurns`, `EngineerActs` (an edit), `EngineerSeesControl`,
  `EngineerEnds`, `EngineerLosesLease`, `FinishEngineeringHandoff`,
  `InspectTree` and `AbandonEngineering` for a service crash, `ReleasePhase`.
* *Review*: `NextReviewStep`, `ClaimReview`, `CollectEvidence` (the reading of the
  tree), `ReviewCompletes`, `ReviewFails`, `FinishReviewHandoff`.
* *Verification and checkpoint*: `ClaimVerification`, `StartTests`,
  `RecordVerification`; `ClaimCheckpoint`, `FindCheckpoint`, `GitCommit`,
  `GitRefuses`, `RecordCheckpoint`, `RecordRefused`, `CompleteSession`.
* *Recovery*: `RecoverExpired` (locks, reviews, orchestrator leases),
  `RecoverExpiredPlanning`, `EnforceIterationLimit`, and the requeue or block of an
  abandoned engineering step after its tree was inspected.
* *Operators*: `Operate`, one disjunct per operation of `Operators`.
* *Environment*: a lease runs out (`Clock`), a coordinator dies (`Crash`).
  `Heartbeat` renews.

Abstractions. A coordinator is one process with all its worker identities. A
lease is `none`, `live` or `expired`. Statements that pick one row with `ORDER BY
... LIMIT 1` may take any row their `WHERE` admits. What a model says, which
checks pass and when a retry counter is exhausted are choices. File contents are
reduced to whose changes are in the tree and which judgements still hold of them.

`Delivery` is the abstract specification: a step is opened, approved, verified,
committed and complete, in that order; all but the commit may be lost again.
`StepWorkflow` implements it under the refinement mapping `Stage`
(`StepsAreDelivered`).

Bounds: `MaxIterations` (the code's own `max_iterations`), the constant sets, and
the two switches `Crashes` and `Stalls`. There are no other counters, so runs are
exhaustive.

**Fairness** (`Fairness`, `FairSpec`). Weak fairness of a coordinator's whole loop
and of its heartbeat, because `once()` is called forever and the thread is a
timer; of `PlannerEnds`, because `plan_once` makes at most `decision_retries`
attempts; of leases running out, because time passes. Crashes end eventually.
There is no fairness on the end of an engineering turn sequence: `max_turns` may be
unset, so an engineer may work forever under a live lease, and no property asks it
to stop.

## 4. Checkpoint

`StepWorkflow` takes a checkpoint as one atomic commit or a refusal.
`Checkpoint` opens it: the content of every file in the tree (`tree`), the index
(`index`) and the commits of the branch (`history`, each with the marker of its
step), `.git/index.lock` (`indexLock`), and the session's `start` and `baseline` and
the step's `approved` files.

| Action | `src/orchestrator/checkpoint.py` |
|---|---|
| `RecoverCheckpoint`, `StartCheckpoint` | 174-184, 300-314: the marker search comes first |
| `CheckHead`, `CheckIndex`, `ReadStatus` | 205-220, 329-381 |
| `Scan` | 222-229: whitespace and secrets, a choice |
| `Add`, `CheckStaged`, `Commit`, `Unstage`, `Confirm` | 231-267, 436-439 |
| `TimedOut` | 407-434: a killed command returns 124; its effect may be there and the lock file may stay |
| `ClaimCheckpoint`, `RecordCheckpoint` | `store.py` 2153-2275 |
| `Engineer` | `coder_agent/agent.py` 136-168: a session keeps its first baseline; engineering, review and verification together |
| `HumanEdits/Stages/Commits/Unlocks` | a human with the same checkout |
| `Crash` | the coordinator dies between two commands |

There is one program counter because the repository lock admits one phase to a
tree (`OneInTree`). A human may edit any file that is not part of a waiting
candidate and commit at any moment. `StagesMeanwhile` says whether she may also
use `git add` *during* a checkpoint. Nothing in the code excludes that: no check
follows the last look at the index (line 236), so a file staged just then is
committed along, and with `StagesMeanwhile = TRUE` TLC violates `CommitIsExact` in
11 steps. The run and two of the theorems state the assumption `FALSE`
explicitly; the other theorems do not need it.

Bounds: `MaxHumanCommits` and `MaxFaults` (crashes and killed commands).

## 5. Missions and integration

`Integration` is `IntegrationManager.integrate`, one Git command or one
transaction at a time, for any number of processes at once: `BeginIntegration`
(the evidence check and the row), `ReadBase` (`rev-parse`), `AddWorktree`,
`MergePackage` or `MergeConflicts`, `UpdateRef`, `RecordIntegration`;
`IntegrationFails` and `IntegratorDies` may come at every point. The mission
branch is the sequence of packages merged into it, which is enough to tell
whether the compare-and-set of `update-ref` succeeds. `Environment` stands for
all other code. `MissionBranch` is what a reader of the branch is promised:
a package is *earned* (approved, verified, committed), then *merged*, then
*recorded*, and never unmerged.

`MissionWorkflow` EXTENDS it with everything around the branch:

| Model | Code |
|---|---|
| `pkg`, `worker`, `tree`, `item` | `work_packages.status`, `worker_id`, `worktree`, `roadmap_reference` |
| `job`, `step`, `owner` | the job and the step of the package; who holds the lease of the phase the step is in |
| `evidence` | what `package_completion_evidence` finds: approving review, passing verification, committed checkpoint |
| `missionStatus`, `integration`, `branch` | `missions.status`, `mission_integrations.status`, the mission branch |
| `pc`, `task`, `site` | where a coordinator is in `once()`, for which package, in which checkout |
| `beating` | the coordinators whose heartbeat goes on, which renews lease and repository lock |
| `seen`, `found` | what it read and has not yet acted on |

* *Population* (`mission.py`, `orchestrator.py:246-260`): `StartPopulating`,
  `CreateFromRoadmap`, `EndPopulating`, then `ReadStatus` and `WriteStatus`, which are apart
  because `refresh_status` reads in some transactions and writes in another.
* *Admission* (`store.py:1381-1510`, `1885-1913`): `StartAdmission` and
  `CommitAdmission` are one long transaction during which the worktree is created and
  the row of the package is locked; `ClaimAdmittedStep` and `ReturnAdmission` are the
  two that follow. The second skips locked rows; a refusal of a step that could be claimed counts as an incident.
  `ClaimEngineering` is the plain claim, which knows no packages.
* *Carrying out*: each phase of `StepWorkflow` is a claim and an end here, and
  `SyncPackage` is the later transaction that tells the package of its step. The heartbeat begins
  with the phase and ends when it is refused (`HeartbeatStops`): by another owner or status of
  the step and, in Engineering, by a job that is not `running` or a package that is no longer the
  engineer's (`store.py:1806-1831`, `coder_agent/db.py:104-106`). The phase goes on without it.
  Ends are fenced by the owner (`LosePhase`, and `EngineeringCrashes` for an engineer whose
  `update_step` raises) but for the verdict, which is not.
* *Integration*: started by `_integrate_completed_package` or by the command line
  (`Commands`), ended by a refresh of the status.
* *Recovery*: `RecoverPackage`, `RecoverStep`, `ReconcileMissionControls`; `DetectAbandoned` and
  `Salvage` for an Engineering run, whose tree is inspected between two transactions, so that
  two coordinators may do it and the slower one requeues what has been claimed anew.
* *Operator*: `ControlMission` with `PauseMission`, `ResumeMission`, `CancelMission`;
  `Operate`, the requests for the job of a package: those that may `Disturb` it (pause, cancel and remove, the
  Planner CLI, refresh planning, answer, and a retry or a rerun of the verification of anything that has not been
  stopped or rejected) and those that `Restore` what has been (resume, retry, recover, rerun verification);
  `AnswerHuman`; `OperatorCreatesPackage`.

Abstractions. A lease has no clock. It is live while its owner's heartbeat goes on
(`Renewed`); once nobody renews it, any action that waits for the expiry may
happen (`ExpiredPhase`) and any action that respects a live lease may still see one
(`MayBeInFlight`). The same holds of the repository lock (`TreeIsFree`). A heartbeat that is not
refused is in time: a stalled process is in `StepWorkflow` only. Update and
hand-off of a step are one transaction here, as are a verdict and its hand-off; a package has one step, as
`create_work_package` makes it. The planner is kept from package jobs by their queued step
(`planner_agent/store.py:46-64`), so only its retry of a failed step is here, and of the operator's
`recover` only what it does to steps and packages; a job
whose step is complete stays `running`. Dependencies come from the store's
`create_work_package`; neither the roadmap nor the command line names any.
`AgentTakesPackages` says whether `_code` can hand a package to the agent at all: in the code as it is it cannot
(section 8). The run takes it to be able to, or it would show nothing about what comes after Engineering; the
theorems hold of both.

`MissionWorkflow` implements `Integration` (`ImplementsIntegration`): everything else in
the mission is within what `Environment` allows, so what is proved of
`Integration` holds of the mission.

**Fairness** (`FairMissionSpec`). Weak fairness of the reconciliation, which every pass
of `once()` begins with (`orchestrator.py:104-176`), and of the ends of the phases, which have
time-outs (tests, Git, model calls). An Engineering phase is taken to end only while its
job is paused or cancelled (`Controlled`): the next turn boundary sees that
(`coder_agent/agent.py:240-247`). Otherwise it may last, as in section 3.

## 6. Session and router

`InferenceRouter` is `agent_core/llm.py`. `Chain(attempt)` is every branch of `choose`; a chain is
walked by `StartRequest`, then for each backend `SkipOpen`, `Fails`, `Garbles` or `Answers`;
`RecordResponse` keeps the accounts; `Elapse` ends a cool-down; `Restart` reads the
circuit file, which other workers may have left in any state. Attempts beyond
`EscalateAfter + 1` are routed alike, so `PolicyIsKept` looks at all chains there are.
The answer of the Routing Agent is written into the route record and decides
nothing, so it is left out. `paid`, `priced` and `localWell` are history variables.

`EngineeringSession` is `EngineeringAgent.run_task` for one worker and one step, and
EXTENDS the router. A session begins with `Claim`, which counts the attempt, and in later
transactions `TooManyAttempts` or `Start`; an operator may come between them. One turn is
`CheckControl`, `Heartbeat` (`Fenced` when it is refused),
`Decide` / `Escalate` / `GiveUp`, `Ask` (steps of the router), `Execute`, and `RecordIdle` or
`RecordProgress`, then `HandIn`, `FinishRejected`, `EndBlocked` or the next boundary. `row` is
what the database keeps of the loop (`stagnation_count`, `current_model_tier`); the
rest dies with the process (`Crash`). An action of the model is one of five kinds, by
what it does to the loop. Progress is what the code takes for progress. `TierOf` goes by the name of
the model, as `_model_tier` does; `PremiumNamed` are the backends that have a premium name.

`Raises` is an exception at any statement of a session: a Git command that fails, a branch that is
not the one of the task, a query that fails. It leads to `failing`, as a failed request and a lost
lease do, and from there `SessionFails` writes `failed` if the worker still owns the step, whether
the job is running, paused or cancelled (`coder_agent/agent.py:470-490`).

`TurnLimited = TRUE` lets any turn be the last one, which covers every value of
`ENGINEERING_TURN_LIMIT` without a counter.

**Fairness** (`FairSpec`). Weak fairness of the worker as a whole: requests have
time-outs and `run_task` is one loop. No fairness chooses the outcome of a request or
the kind of an action.

## 7. Runs

| Run | Instance | Question and answer |
|---|---|---|
| `restart` | 1 coordinator that crashes, 1 step, 3 iterations, fair; 5,649 states | Does one process that dies anywhere commit only what was approved and verified, leave planning, and get past each checkpoint? Yes: `CommitIsSealed`, `PlanningEnds`, `CheckpointEnds` |
| `package` | 2 coordinators, 1 job, 2 steps, 2 iterations; 1.1 M states | Are packages paid for, is a job complete only when its steps are, though a planner may be overtaken while its model answers? Yes: `TypeOK`, `BudgetIsKept`, `JobCompleteIsEarned` |
| `shared_tree` | 2 coordinators, 2 jobs, one tree, no concurrency limit; 0.9 M | Does the lock alone keep phases apart, and is a complete step gone from the tree? Yes: `OneInTree`, `CompleteIsClean` |
| `takeover` | 2 coordinators that crash, 1 step, 2 iterations, fair; 0.3 M | Do take-overs preserve the order of delivery, keep planners away from active steps, and pick up every abandoned step? Yes: `StepsAreDelivered`, `PlanningIsAlone`, `AbandonedIsRecovered` |
| `operators` | 2 coordinators, 1 step, every operation at any moment; 0.7 M | Do owners keep leases, do complete steps keep their commit and stay complete? Yes: `OwnersAreLeased`, `CompleteIsCommitted`, `CompleteIsFinal` |
| `checkpoint` | 2 steps, 2 files, 1 human commit, 1 fault; 0.9 M | Is a commit exactly the approved files, found again, reported truly, and is the index given back? Yes: `TypeOK`, `RecordIsOwn`, `IndexIsGivenBack`, `CommitIsRecovered`, `CommitIsExact` |
| `mission` | 2 coordinators, 2 packages of which the second needs the first, 1 roadmap item, every request for the job of the first package, 1 incident, fair; 328,534 states | Are dependencies respected, is a complete package proven and a complete mission merged, does a pause admit nothing, does a cancel reach every step, are a review, a verification and a checkpoint at work left alone, is the branch only extended by earned packages? Yes: `TypeOK`, `DependenciesFirst`, `CompletePackageIsProven`, `PausedMissionAdmitsNothing`, `CompleteMissionIsMerged`, `IntegratedIsInBranch`, `CancelledPackageIsFinal`, `BoundedPhaseIsLeftAlone`, `ImplementsIntegration`, `MergesAreAtomic`, `CancelIsFinalized` |
| `engineering_session` | 1 worker, 4 policies, 3 states of the circuit file, 2 stagnation episodes, budget of 1 answer, 2 incidents, fair; 956,863 states | Is money counted and bounded, is every chain lawful, does a request walk back to the local model, does a stuck session end, does no session begin itself again? Yes: `TypeOK`, `SpendIsCounted`, `PolicyIsKept`, `WalksBack`, `StuckSessionEnds`, `AttemptsArePaid` |
| `edited_after_review`, `rejected_stranded`, `verdict_after_cancel`, `checkpoint_overtaken` | | section 8 |

Why the bounds are enough. Each hazard above needs at most two coordinators (one
overtaken, one that overtakes), two steps of one job or two jobs in one tree
(siblings, sharing), and two iterations (a first attempt and one after it); in
`restart` three iterations let a rejected step be followed by another. One crash per
phase is not a bound: with `Crashes` a coordinator may die any number of times.
In `checkpoint` a second human commit or a second fault does not make a new kind of
situation, since a fault ends its attempt; what it leaves behind (a commit, staged
files, a lock) meets every later attempt. Larger instances (one step with two
human commits, two steps without human commits and any number of faults) were
explored too. The theorems remove the bounds for the properties they cover.

In `mission` two packages are a dependency and its dependent, and two coordinators
are one that integrates, populates or admits and one that overtakes it. One *incident*
(a pause, crash, failure, rejection or conflict; resuming, cancelling and
the refusal of `update-ref` cost none) is one disturbance on every possible path; every
recovery is then taken undisturbed. Of the requests for a job, those that disturb it cost the incident, and those
that put back what something else has stopped are free; `Addressed` bounds them to one package, the one the other
depends on and the roadmap asks for. In `engineering_session` the two incidents are pairs such as a failing
backend after a crash, or a rejection after a pause; `EscalateAfter = 4` puts the first
attempts and all escalations on different sides of it; `MaxSpend = 2` is one more
than the budget.

`CHECK_DEADLOCK FALSE` everywhere: a complete or cancelled job is the end, and
`operators`' final states are legal. Symmetry over coordinators (and over steps
and files in `checkpoint`) is used in safety runs only. The `VIEW` of
`checkpoint` leaves out a history variable and the sessions of complete steps,
which no action and no property of the run reads.

The runs `takeover` and `operators` have `Stalls = FALSE` (a lease does not run out under a live
heartbeat). A worker that stalls and comes back late is in `verdict_after_cancel`
(its late verdict); `OwnersAreLeased` and `CompleteIsCommitted` are proved for `Stalls = TRUE` as well, and
no run checks them there. `shared_tree` has jobs of one step, so that siblings that move
their common label are not in it (section 8).

## 8. Where code and documentation disagree

Each is a run that TLC must find violated, and a finding in `PROJECT.json`.

* **`edited_after_review`** (`CommitIsSealed`). The repository lock is released
  between phases. While a reviewed step of one job waits for verification or its
  checkpoint, `claim_engineering` may start a step of another job in the same tree;
  the checkpoint compares paths, not contents, and commits the later edit.
* **`rejected_stranded`** (`RejectedIsRevised`). The reviewer's verdict and
  `finish_review_handoff` are two transactions. If the process dies in between, the
  job stays `reviewing` with its step in `changes_requested`; no claim and no recovery
  query matches that pair.
* **`verdict_after_cancel`** (`CancelIsDurable`). `ReviewerStore.complete` looks at
  neither status nor owner, so a verdict after a cancellation moves the cancelled
  step to `verification` or `changes_requested`.
* **`checkpoint_overtaken`** (`CompleteIsReviewed`). A `git commit` (or the
  `rev-parse`/`log` after it) that times out is reported as a failure although the
  commit exists. The step is revised; the next attempt finds the marker first and
  completes the step with the old commit, the revision staying uncommitted.
Observations made while modelling, without a run of their own:

* Sibling steps of one job share its label. A sibling that moves the label away from
  `running` makes the other's `heartbeat_engineering` fail (`store.py:1806`), so
  its lock may run out while it edits: `OneInTree` is checked for one step per
  job and tree occupant, and fails for two siblings without the concurrency limit.
  It is proved for jobs that have one *open* step at a time (`OneOpenPerJob`).
* A pause, a cancellation or `remove` stops an engineer's heartbeats in the same way, before the next
  turn boundary sees it; when the lock has expired another coordinator
  enters the tree. `OneInTree` therefore fails with each of these operations (`cancel` and
  `remove` let in another job that shares the tree), with the Planner CLI and with
  `rerun_verification`. A pause and a resume, the CLI and a rerun break `CompleteIsClean` too.
* A process that dies after its commit leaves the marker. If the next attempt is refused before it
  searches (automatic commits switched off, a Git command that fails), the step is edited again, and a
  later attempt takes the old commit for it: `CompleteIsClean` fails with one coordinator that crashes.
  It is `checkpoint_overtaken` with a crash instead of a time-out.
* `retry` does not end the planner's claim; a pause and a resume, the Planner CLI, or an answer
  put a job back to work or to planning likewise, under a planner whose model is still working.
  `PlanningIsAlone` fails with each of them. It also fails, with no operation at all, for two siblings of which one waits
  for its checkpoint while the other ends as `blocked` under a label that is back at `running`
  (`planner_agent/store.py:56-59` does not look for `checkpoint`), if a third iteration is left.
* `rerun_verification` accepts a rejected step (`store.py:1668`), which can then be
  committed without an approval. `CommitIsSealed` is therefore checked without operators.
* A `needs_human` verdict relabels a paused or cancelled job (`reviewer_agent/store.py:119`).
* Two coordinators may both inspect an expired engineering step; the slower one
  requeues it after it has been claimed anew (`store.py:2389-2395`). With crashes and
  two coordinators this also breaks `CommitIsSealed`, which is why `restart` has one.
* With `Stalls`, a late verdict of a reviewer that lost its lease breaks
  `StepsAreDelivered`, `CompleteIsFinal` and `JobCompleteIsEarned`, as the unfenced write suggests;
  without them all three are proved (section 9).
* A process that dies between `git add` and `git commit` leaves its own files
  staged; later attempts refuse them as "possible human work" until somebody
  unstages them. Documentation promises recovery only for a commit that was made.

Of missions and integration:

* A mission pause is to leave step and lock with the engineer until it acknowledges (`store.py:2541-2543`). But
  `heartbeat_engineering` asks for a running job, so the pause ends the heartbeats; in a long call the lease lapses,
  and once the mission is resumed, recovery may take the step from an engineer that is still editing. A cancelled
  mission does the same without a resume: reconciliation (`store.py:2727-2750`) cancels a step whose lease has
  lapsed that way. `BoundedPhaseIsLeftAlone` fails when it is extended to Engineering; it holds for reviews,
  verifications and checkpoints, whose heartbeats do not ask for the job.
* `rerun_verification` looks at the step only (`store.py:1666-1690`). A mission that is cancelled during a review
  leaves the step to the verdict; a rerun then sets the cancelled job and its cancelled package to `verifying`.
  It also takes the step from whatever works on it. `CancelledPackageIsFinal` and `BoundedPhaseIsLeftAlone` name it
  as their exception, and fail without.
* `_code` takes the package both for a dictionary (`.get`) and for a `WorkPackage` (`run_work_package`), and it
  cannot be both (`orchestrator.py:274-284`, `coder_agent/agent.py:594-601`). An attempt on a package therefore
  raises before its first turn and is requeued, or blocked, by the crash handler, again and again: with
  `AgentTakesPackages = FALSE` no package of the model is ever reviewed.
* A mission pause relabels the `pending` jobs of packages that wait for their dependencies,
  and a resume makes every paused job `running`; the plain `claim_engineering` then takes such
  a step, without its dependencies and in the mission's own checkout.
  `DependenciesFirst` is therefore about admissions (a package with a worker).
* `refresh_status` writes what it computed earlier, and an integration conflict writes
  `blocked`, whatever the mission has become; either may take a paused or cancelled
  mission back. Reconciliation then no longer looks at it: `CancelIsFinalized`
  promises the end of the steps only as long as the mission stays cancelled.
* A process that dies between `record_checkpoint` (or `record_verification`) and the
  transaction that tells the package leaves the package `verifying` for good, with a complete step;
  no recovery looks for that pair. A refused checkpoint, and an Engineering phase that ends
  as `blocked` or `failed`, are not mirrored either; and `_review` looks for the word `approved`, which
  the step never has by then (`orchestrator.py:336`).
* Two coordinators that populate at the same time create two packages for one roadmap item: what
  exists is read in an earlier transaction (`mission.py:51-80`), and no constraint excludes it.
* An error after `update-ref` has moved the branch records `failed` for an integration that
  took place, and a second integration of the same package may do so over `complete`; the branch is
  right in both cases. A repeated integration finds the package merged.
* A late word overwrites a newer one. `sync_package_for_step` spares only cancelled packages, so a coordinator that
  reports the verification after another one completed the step puts a complete package back to `verifying`;
  and a refused admission looks at its owner, not at the status (`store.py:1505-1508`), so it puts
  a package whose step was meanwhile completed through the plain claim back to `ready`, where it is admitted and
  refused again and again. The mission then stays `active`.
* `rerun_verification` of a rejected step leads to a complete package whose step has no approving review,
  which integration refuses for good. `CompletePackageIsProven` asks for the review only where nobody may run
  verifications again (`Required`); the branch is safe all the same (`MergesAreAtomic`).
* A second coordinator that inspects an abandoned Engineering run more slowly requeues a step, and restarts
  its job, that another engineer has claimed in the meantime, here as in `StepWorkflow`.
* Dependents are admitted when the commit of their dependency exists, not when it is
  integrated; their worktree starts from the mission branch all the same.
* The limit on packages at work is a count taken in the snapshot of the claim
  (`store.py:1381-1411`), so two claims at the same time may pass it together.

Of the session and the router:

* Progress resets the escalation level, which a resumed session starts at 0; a session that
  resumed on a cloud tier therefore never returns to the local one, against the comment in `agent.py:402-404`.
* The chain of a turn is kept until the next `choose`: the budget and the latency limit are
  not looked at again between the requests of an episode, and both are counted per process.
  `PolicyIsKept` is about the chains that would be built.
* An answer without a cost is charged the cost of the previous answer on the same route, and an
  answer without any usage is not counted; hence the two halves of `SpendIsCounted`.
* With the breaker of the standard cloud model open, a cloud attempt gets the local
  model alone though the premium one may be well; a chain built while the local breaker was open
  has no local model even after the cool-down (hence `localWell`).
* `private` uses the local model even where `ollama` is no allowed provider.
* A heartbeat that a pause refuses is followed by a second look at the job. If it has been resumed by then, the
  session fails its step with "engineering lease is no longer owned" (`coder_agent/agent.py:240-247`), though it
  owns it.
* Whatever raises in a session fails the step, of a paused or cancelled job too: a Git command, a branch that
  was switched, the attempt limit, which is looked at after the claim (`coder_agent/agent.py:122-134`). A
  pause therefore does not protect a step from becoming `failed`; what holds is that no step begins again unpaid
  (`AttemptsArePaid`).
* Reading three files in turn, over and over, counts as progress: `StuckSessionEnds` speaks of what
  the code takes for progress.
* `record_engineering_action` is not fenced by the lease (`coder_agent/db.py:233`).

## 9. Proofs

The `_proofs` modules are checked by TLAPS (SMT, Zenon, LS4), from the constant
assumptions of the modules alone.

**StepWorkflow** (for any jobs, steps, trees, coordinators and operations, with crashes
and stalls):

* `TypesAreKept`: `Spec => []TypeOK`. One lemma per phase; `ClaimOrchestrationTypes`
  serves both claims.
* `OwnersStayLeased`: `OwnersAreLeased` is inductive relative to `TypeOK`.
* `BudgetStaysKept`: `BudgetIsKept` is not inductive. It is strengthened by
  `PlanningIsPaid` (a job in planning has an iteration left) and `StepsExist` (nobody
  works on a step that the planner has not created); the cardinality of a package is bounded with the
  library's facts on finite sets, which is why `Steps` is assumed finite.
* `CompleteStaysCommitted`: `CompleteIsCommitted` needs `ReportIsTrue`, that a
  coordinator about to record a success has a step with a commit. All other actions
  share the frame `Uncompleted`.

**Delivery_proofs**, of `StepWorkflow` for any jobs, steps, trees and coordinators that crash, under
the assumption `~Stalls`, which each theorem states. It is necessary: with stalls the late verdict
of section 8 breaks all three.

* `CompleteStaysFinal`: `CompleteIsFinal`, for all operations. The writes of a late worker are fenced
  by different columns, or, for a verdict, not at all. `PhaseInv` says what each fence is worth: who is
  still the owner of a row finds it in the status its phase began with, and a review at work keeps
  its lease by its heartbeat, so its step is in `review` or was cancelled, and it is the only one.
* `JobCompletionStaysEarned`: `JobCompleteIsEarned`, for all operations. It is strengthened by `CompletionKnown`: what
  a planner judged before it asked the model still holds as long as it owns the plan. That rests on
  complete steps keeping status and verdict (`CompleteStays`), on no step being created by
  anybody but the planner in charge (`Uncharged`), and on ownership moving only by a claim (`Unsettled`).
* `WorkflowDelivers`: `StepsAreDelivered`, the refinement of `Delivery`, for all operations but
  `cancel`, `remove` and `rerun_verification` (`Undisturbed`): the git commit is not fenced by the
  database, so after one of these a coordinator may commit a step that is no longer verified.
  `CommitsHold` says that whoever is past the search for the marker and before the commit still
  has the row in `checkpoint`, the verifier's live lease, the live lock and a running
  heartbeat; each step of the workflow is then one move of `Delivery` or keeps `Stage`.

**Exclusion_proofs**, of `StepWorkflow` for any jobs, steps, trees and coordinators. The theorems
state their hypotheses:

| Theorem | Property | Hypotheses beyond `~Stalls` and `[]OneOpenPerJob` |
|---|---|---|
| `TreesStayExclusive` | `OneInTree` | `Steady` |
| `CompleteStaysClean` | `CompleteIsClean` | `Steady`, no crashes |
| `CommitsStaySealed` | `CommitIsSealed` | `Steady`, one open step per tree |
| `PlanningStaysAlone` | `PlanningIsAlone` | no operation of `PlanUndisturbed`; crashes allowed |

`OneOpenPerJob` says that a job has at most one step that is created and not complete: steps share the
job's label, and `heartbeat_engineering` depends on it. It is a hypothesis on the behaviour, since a planner may
create several steps at once. `SingleStepsAreSafe` concludes all four without it for jobs of one
step, which covers the instances of the runs `shared_tree`, `restart` and `takeover`. `Steady` excludes the
operations that stop a heartbeat or move a step under its coordinator (`pause`, `cancel`, `remove`, the Planner CLI,
`rerun_verification`), and admits crashes only without a second coordinator to take over;
`resume`, `retry`, `recover`, `refresh_planning` and the answers remain. TLC finds a counterexample to each of the
four properties when `~Stalls` is dropped and when `OneOpenPerJob` is; to the first three with two coordinators of which one crashes;
to `CommitIsSealed` with a shared tree (`edited_after_review`); and with the excluded operations as section 8 tells.

The inductive invariants, each checked with TLC before it was proved:

* `HoldInv`: whoever is in a phase that needs the tree has the lock on it, unexpired, with a running
  heartbeat, and has the step in that phase's status under its own unexpired lease; an
  engineer has the job's label as well. A lock has one owner, hence `OneInTree`. Without crashes every running
  step has its engineer, so nobody inspects a tree for abandoned work (`Manned`).
* `CleanInv`, on `HoldInv`: a step with a commit has no change in the tree, and is complete or in the
  hands of the coordinator that made the commit. Most actions are `Unsoiled`, which keeps it.
* `SealInv`, on `HoldInv`: a reviewer or a test run that is judging read the tree as it is; what waits for
  verification is approved as it is, what waits for its checkpoint verified too. No edit comes between, because
  the editor would need the step. Most actions are `Unjudged`.
* `PlanInv`: while a planner holds a job no step of it is active, in `checkpoint` or cancelled. The claim
  of a planner does not look for steps in `checkpoint`; it is kept from them by the label, which the invariant ties
  to the status.

**Checkpoint** (any steps, files, contents, number of human commits and faults). The
invariant has two parts, because they need different assumptions.

* `HistoryInv` says what the service knows of the branch at each point: past the
  search and before the commit the step has no commit (`NoneIsFound`), at `Confirm` it has
  one (`OneIsMade`), a found commit is its own (`FoundIsOwn`), and a fault ends
  its attempt (`FaultEnds`). From it `RecordsAreOwn`, `CommitsAreRecovered` and
  `StepsCommitOnce` (README.md:221-226 of the repository: it "finds that marker rather
  than committing twice"), whatever the human does.
* `IndexInv` says what the index holds: what it held at the claim
  (`IndexIsAsFound`), which was HEAD (`IndexWasClean`), and after `Add` HEAD with the
  planned files taken from the tree (`IndexIsPlan`), planned being exactly the approved
  files (`PlanIsApproved`). A human's commit changes index, HEAD and what was found
  alike, so it disturbs none. From it `IndexesAreGivenBack` and `CommitsAreExact`, both
  under `~StagesMeanwhile`.

Both invariants were checked with TLC before they were proved.

**Integration** (any packages, any number of processes that fail and die anywhere, any
environment). `IntegrationInv` adds to the two invariants what a process in the middle
knows (`Prepared`): a base that still equals the branch has the package of this process merged onto
it in `tip`; a base that does not is shorter than the branch, which only grows, and will
never equal it again. So `update-ref` either extends the branch by one earned package or
is refused: `IntegratedStaysInBranch`, `BranchStaysEarned`, `BranchNeverShrinks`, and the refinement
`IntegrationIsAtomic`.

**InferenceRouter** (any policies, breakers, chains and attempts). `RouterInv` adds `LocalIsAhead`: as
long as the local model may be used and was well since the chain was built, it is still ahead
of the position of the request. `SpendingIsCounted` and `AlwaysWalksBack` follow from it;
`PolicyIsAlwaysKept` from `Joined` and `Single` about how chains are put together, for every branch of
`choose`.

**EngineeringSession** (any limits). `SessionUsesRouter` shows that the session is within
`RouterSpec`, so the router's theorems hold of it (`SessionRoutesLawfully`); it needs that attempts and
levels are numbers (`SessionInv`). `AttemptsStayPaid` proves `AttemptsArePaid`.
`SessionTypesAreKept` bounds every counter. The hard one is `attempt`, which nothing in a session resets:
`AttemptsArePaid` says that a step begins again only after an incident (a crash, an error, a lost lease, a
pause, a requeue). It is inductive with `MayBeginAgain`, the states in which the next beginning is already
paid for, and `OwnerIsAtWork`, that a worker which owns its step has it running. That the
stagnation count stays within three needs `LoopFits`: a request is made only below three, and the escalation
level is the number of episodes.

**MissionWorkflow** (any packages, dependencies, coordinators, commands and incidents). Three
layers, each an invariant that the next one uses:

* `StepInv`: the types; whoever owns a step in its phase finds it in that phase's status, and
  a reviewer, whose verdict is fenced by nothing, owns the step under a living heartbeat or has lost it to a
  cancellation (`PhaseIsOwn`); the status of a step and its evidence agree (`EvidenceFits`); a
  package is called complete only when its step is (`SyncIsTrue`). Every step also has an *effect*: complete
  steps stay so, bounded phases stay as they are (`BoundedPhasesAreLeftAlone`), and
  evidence changes for one package that is not yet earned. The last is what `Environment`
  demands, so `MissionIntegrates` proves the refinement and `MissionKeepsItsBranch` carries
  the promises of `Integration` over. `MissionTypesAreKept` needs both. What the operator, the planner,
  recovery and a late engineer do to a step is one of a few moves (`Moved`), and one lemma shows what each keeps.
* `PackageInv` adds what an admission under way knows (`AdmissionIsSound`: its package is ready,
  its dependencies are complete, the mission is not paused, nobody else admits it), which none of
  its own steps re-reads: other writers of the package wait for its row. From it `DependenciesComeFirst`,
  `CompletePackagesAreProven`, `PausedMissionsAdmitNothing` and `CancelledPackagesAreFinal`.
* `MergedInv` says the same of a mission that is complete and of a process that has *found* it
  complete and has yet to write so. It survives whatever happens in between because what is
  merged stays merged (`BranchNeverShrinks`) and a package keeps its roadmap item. Hence
  `CompleteMissionsAreMerged`.

All nine hold for every set of `Operations`. `rerun_verification` interrupts whatever works on the step, needs no
approval and revives what was cancelled (section 8); it is therefore an exception inside `BoundedPhaseIsLeftAlone`
and `CancelledPackageIsFinal`, and takes the approval out of `Required`. Within the proofs the part of `EvidenceFits`
that speaks of the approval is conditional on `NoReruns`. `Requests` reduces the requests to five kinds, by what they
do to step, job and package.

Only model-checked: the liveness properties `PlanningEnds`, `CheckpointEnds`, `AbandonedIsRecovered`,
`CancelIsFinalized` and `StuckSessionEnds`, since liveness under fairness is beyond this prover. What happens outside
the hypotheses of `Delivery_proofs` and `Exclusion_proofs` (stalls, several open steps of one job, operations during a
phase) is described in section 8.

## 10. What is not modelled

* The human queue's bookkeeping (owner, priority, history of a request) and the Control Center's audit
  rows, web sessions, CSRF and login throttling: what an answer or an operation does to jobs, steps
  and missions is modelled, and nothing in the workflow reads the rest.
* The commands that move a package by hand (`claim-package`, `advance-package` and the store methods
  behind them), which by-pass the orchestrator; diagnosis, repair and cleanup of worktrees.
* The Routing Agent and the health probes: the router records their answers and does not act on them.
* In `Checkpoint`: branch and protected-branch checks, renames, the optional push,
  and `AUTO_COMMIT` disabled, which is a refusal.
* In `MissionWorkflow`: stalled processes, several steps in one package, the time between
  an update of a step and its hand-off, and the states of a job that only its planner and its completion
  use.
* In `StepWorkflow`: what happens inside an engineering attempt (`EngineeringSession`); retry
  counters; the text of prompts and decisions. In `EngineeringSession`: a second worker on the same
  session, files and the tests themselves.
* Telemetry, evaluations, redaction, logging, backups, plugins and the transaction
  manager: they decide nothing in the workflow.
