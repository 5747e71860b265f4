# TLA+ models of trading-manager

The manager drives historical model training: it prepares data requests, calls
providers in bounded slices, runs feature and model-generation commands in
dependency order, and keeps everything it knows in files and SQL tables that
several processes read and rewrite.  Nothing numerical is interesting here; what
is hard is that the checkpoint, the locks, the receipts, the task rows and the
failure register are separate records, written at different moments by
processes that may die between any two of them.

The models are translated from `src/src/trading_manager_tasks/`.  `PROJECT.json`
names, for each definition, the lines it stands for; paths below are relative to
that directory.

## 1. Inventory

| component | state | operations | talks to |
|---|---|---|---|
| scheduler locks (`scheduler_locks.py`, `scheduler_daemon.py` 1700-1765) | one file per lock, holding a pid | acquire (exclusive create, inspect, unlink, re-create), release | every scheduler process |
| workflow plan (`model_training_workflow.py`) | none: rebuilt on every load | layers, stages, order and blockers for a scope | checkpoint (read), task keys, feed artifacts |
| workflow checkpoint (`model_training_state.py`, `model_training_invalidation.py`) | one JSON file per month or fold: status, reason and evidence of each stage | refresh, started, succeeded, failed, blocked by coverage, ingest receipts, reset, invalidate | tick, executor, reconcile, rerun command, fold worker |
| scheduler tick (`scheduler.py`) | none of its own | prepare inputs, run one offline stage, run one slice of a provider stage | all of the above |
| stage executor (`stage_executor.py`) | receipts and logs of stage commands | select, run with a progress guard, report | checkpoint |
| provider dispatch (`stage_run_controller.py`, `stage_run_dashboard.py`, `provider_dispatch.py`, `option_chain_source_acquisition.py`) | completion receipts, one file per request | choose a slice, lock it, call, retry | providers, receipts, SQL |
| reconcile, coverage, failure register (`stage_reconcile.py`, `stage_coverage.py`, `failure_register.py`) | `task_summary` rows, failure rows | normalise receipts, propose and correct failures, judge coverage, advance the checkpoint | receipts, SQL, checkpoint |
| daemon (`scheduler_daemon.py`) | daemon state, decision log, daemon lock | pick month, target and fold, seed a fold, tick, run the model-group lifecycle | tick, replay, evaluation |
| model group (`model_group_replay*.py`, `model_group_attribution.py`, `model_group_evaluation.py`, `model_promotion.py`, `review_decision.py`) | replay, review, evaluation and decision receipts | one lifecycle step per fold | daemon |
| rerun (`model_group_rerun.py`) | clearance receipts | reset a workflow from a cutpoint, ask the storage project to clear its artifacts | checkpoint, storage project |
| requests (`historical_training.py`, `request_payloads.py`, `request_handoff.py`) | `manager_request` rows, payload files, bindings | plan, persist, bind, check before a dispatch | providers, SQL |
| completion (`control_plane.py`, migrations) | `run_manifest`, `artifact_ref`, `ready_signal`, view `task_summary` | record a receipt, read a task's status | every component that writes receipts |
| event feeds (`event_feed_*.py`, `model_03_event_impact_inputs.py`) | task keys, receipts, saved files, the event pool of M03 | prepare, buy, materialize | feed commands, storage project |
| event evidence (`event_family_*.py`) | routes, review handoffs, enriched macro rows | collect evidence, route a family, enrich a release | feeds, reviewers |
| dataset evidence (`dataset_evidence.py`, `dataset_expansion.py`, `information_pass.py`) | evidence and plan files | read seven tables, decide which dataset to ask for | trading-model's tables |
| agent errors (`agent_error_*.py`, `agent_repair_closure.py`, `safe_error_repair.py`) | error catalog, packets, diagnoses, closure receipts | register, diagnose, announce, repair, close | daemon, executor, controller timer |
| ledger and status (`workflow_transition_ledger.py`, `scheduler_status.py`) | ledger, latest transition, decision log, daemon state | append, cut, show | daemon, owner |
| dashboard (`dashboard_read_models.py`) | none of its own | make the list of tasks and the owner's status of what the others wrote | everything above |

Everything else (feature computation, attribution statistics, registry and client helpers)
is listed in `PROJECT.json` with the reason it is not modelled.

**How they interact.**  The daemon (one process, guarded by a lock file) ticks.
A tick loads the checkpoint, which re-computes `ready` and `blocked` from the
plan, and takes the first ready stage.  An offline stage runs under the
`month_stage` lock; the executor loads the checkpoint, selects the stage again,
stores it as started, runs the command, and stores its copy with the outcome.  A
provider stage is marked started under that lock, and then dispatched and
reconciled under locks of their own; the reconcile step turns receipts into SQL
rows, rows into a failure register and a coverage report, and the report into a
stage that is succeeded or blocked.  Command-line ticks, resets, invalidations and
reviews go to the same files and tables from other processes.  What fails is registered as
an error, answered by an agent and closed by a controller that a timer starts.  The
status command and the dashboard read all of these files while they are written.

**What is hard.**  Load-compute-store on whole files with and without locks; the
lock protocol itself; stale copies held across commands that run for hours;
crashes between a command and its record; provider runs that end late, twice or
after a retry; reviews that race proposals; a workflow that must come to rest
rather than spin or starve; readers that join files of different moments.  The 40 hazards
of `PROJECT.json` are at the lines where these bite.

**What makes each part correct.**

- Locks: one owner; a release removes only the owner's file; a lock left behind does
  not block for ever.
- Plan: splits of a fold in chronological and layer order; what is done was computed
  from the latest run of what it builds on; every workflow can end.
- Checkpoint: it never offers a stage whose upstream work is not done; a stage ends
  once; a reset or invalidation survives until the stage is executed again.
- Tick and executor: one execution per stage at a time; the workflow comes to rest.
- Provider stage: a stage unlocks only when each request has data or is given up; a
  ready request stays ready and has no open failure when the stage is judged; a paid
  call is not repeated; the stage unlocks or waits for a repair.
- Daemon and model group: folds progress serially; the lane is released once the fold's
  lifecycle is decided; no target starves; a scheduler that does not get on says so.
- Requests and completion: row, file and binding of a request say the same, and so do the
  three tables of a completion.
- Feeds and evidence: nothing is bought twice or dropped without cause; a handoff, a
  summary or an expansion is explained by what was observed.
- Errors: one number an error; nobody waits for an answer that nobody will give; no
  closure without cause.
- Status and dashboard: what is shown was so, and a failure is hidden only by what is known.

## 2. Modules

| module | models |
|---|---|
| `SchedulerLock` | the lock file, system call by system call, for any set of processes |
| `WorkflowOps` | the checkpoint's data operations (constant level), shared by the modules below |
| `WorkflowCheckpoint` | one checkpoint file, its writers and their loads and stores |
| `WorkflowProgress` | abstract specification: what the checkpoint promises to a reader |
| `WorkflowCheckpointProofs` | theorems about the checkpoint for every layered plan, that it implements `WorkflowProgress`, and about `DatasetEvidence` |
| `WorkflowPlan` | the plan the code builds for each scope, executed on `WorkflowOps` |
| `ProviderStage` | dispatch, receipts, rows, failure register and coverage of one provider stage |
| `FoldLane` | the daemon loop of one target: months, folds, model-group lifecycle, rerun resets |
| `FoldSequence` | abstract specification: the order in which folds are opened and closed |
| `RerunReset` | resets of a fold, their clearance receipts and the artifacts they name |
| `StageProcess` | one stage as a child process under the executor's guard |
| `SchedulerLoop` | the loop over the target queue, the daemon's own checkpoint and its stall guard |
| `TargetFeed` | the branch of the tick that buys the months the second layer waits for |
| `ReplayInputs` | how a replay's missing option chains and contract paths are fetched |
| `AgentErrors` | registration, diagnosis, alert, repair and closure of errors |
| `RequestHandoff` | row, payload file and binding of a request |
| `CompletionRows` | receipts as rows of three tables, and the view of them |
| `RequestRecords` | the two together: what the control plane keeps of a request |
| `EventFeeds` | the monthly feeds from preparation to the event pool of M03 |
| `MarketCalendar` | the sessions announced to M03: closures, half days, expirations |
| `EventEvidence` | evidence packets, their routes, the enrichment of macro releases |
| `DatasetEvidence` | what is known of the models' datasets, and which is asked for |
| `TransitionLedger` | what the daemon writes of itself and what the status command shows |
| `TaskTimeline` | the list of tasks and the owner's status of the dashboard |
| `SchedulerProofs` | theorems about `SchedulerLock`, `SchedulerLoop` and `TaskTimeline` |
| `StageProcessProofs` | theorems about `StageProcess` and `ReplayInputs` |
| `ProviderStageProofs` | theorems about `ProviderStage` |
| `FoldLaneProofs` | theorems about `FoldLane`, and that it implements `FoldSequence` |
| `AgentErrorProofs` | theorems about `AgentErrors` and `TransitionLedger` |
| `EventFeedProofs` | theorems about `EventFeeds` and `EventEvidence` |
| `WorkflowWriterProofs` | theorems about `TargetFeed`, `RerunReset`, `RequestRecords` and `WorkflowPlan` |
| `MC*` | the instances TLC checks |

Modules that share no variable may share a run: each of them then moves only from the
initial state of the others, so that the run's states are the sum of theirs, not the
product.  The MC module of the run says which do.

### SchedulerLock

`lock` is the file at the path (absent, created but empty, written), `pc` the place of each
process in `acquire_scheduler_lock`.  `Create`, `Inspect`, `Probe`, `Unlink`,
`Recreate`, `Write`, `Release` are one system call each, because the path is shared between
them.  `Die` is a process ending anywhere, `GrowOld` the age after which a file without
a pid is stale.  Pids are not reused.  `PromptWrite` says that a live creator fills its
file before that age, which the code does not enforce: the run has it FALSE.  `usurped` is history: a replacement has unlinked a live
owner's file.

### WorkflowOps and WorkflowCheckpoint

A checkpoint is the status of every stage and `hold`, the one reason the refresh
respects.  Blockers are sets of alternatives (`"<stage>_complete"`, a whole layer,
feature or input), and a blocker outside the checkpoint is one nothing meets until it is
removed from `missing`.  `Refresh` is `refresh_workflow_state`; the mark, coverage,
reset and invalidation operators are the functions of the same names.

`WorkflowCheckpoint` splits each writer at its load and its store: `SeedLoad/SeedStore`
(fold worker), `Tick`, `Prepare`, `Rest`, `EnterLane` (the tick), `Select`, `Stamp`, `Run`,
`Report` (executor), `Begin`, `BeginStore`, `Dispatch`, `EnterReconcile`, `Collect`,
`Advance` (provider branch), `ResetLoad/InvalidateLoad/OpStore` (commands that take
no lock).  Locks are ideal here: free when no live process holds them; `SchedulerLock`
says how far that is true.  The preparation of layer 1 uses the lock of the work
selected instead of the missing stage's, which no process holds then.

`WorkflowProgress` knows only which stages are done and which failed.  The mapping reads
both from the file; the run `wf_daemon` checks that one scheduler process implements it.

### WorkflowPlan

The stages are pairs of a layer and a kind; `Has` and `Blockers` follow
`_build_layer_workflow`, `Order` puts the stages of a scope (`StagesFor`) at their `Place` in it.
`scope` is one of the twelve scopes the code distinguishes: month or fold, foundation catch-up
or full, with target, with listed options or with both.  Inputs the blockers ask for (`task_keys`, `feeds`) arrive one by one.  The
first ready stage runs to success or failure; resets (from the first stage of a layer
and type) and invalidations (of a layer and those above) interleave.

### ProviderStage

For every request: the completion `receipt`, the `row` of `task_summary`, the rows of the
failure `register`; for each process its `slice`, the provider commands `running`, and the
proposals it has computed.  A slice is a set; the rank of a request in the plan says which is called next (`Sooner`).
`Look` chooses the slice, `Enter` takes the partition
locks, `Check` is the dispatch's own refusal, `Start` and `Finish` a call, `Return` the end
of the slice, `EnterReconcile`, `Normalize`, `Propose`, `Persist`, `Cover` the
reconcile step with its writes in the order of the code.  A crash leaves provider
commands behind (`stray`), as does a dispatch from the command line; `Review` accepts a
failed request.  `Persist` merges the two statements that close and upsert failures.
`unlocked` never goes back: a later demotion is modelled in `WorkflowCheckpoint`
(`LoseCoverage`).

`Coverage` is the report of the task rows (`TaskCoverage`) with the gate of the option source
on it (`GatedOut`): an options stage that is ready otherwise is blocked while the source
table has no row (`sourced`), unless as many runs as there are ready requests say that they
saved none (`ZeroRows`).  The reconcile asks with the selected target's symbol and the
dashboard without, so that the dashboard never counts such runs.  A run saves its rows before
it writes its receipt; the table is kept by the storage project and may lose them
(`LoseSource`).  One target's requests are modelled, with one signal time each; what the gate
does to a checkpoint is in `WorkflowCheckpoint` (`source_gap`).

### FoldLane

How far a fold is is written nowhere: each step of the loop reads other files and decides
for itself.  The model keeps those files - `fold` (state file), `alpha` (checkpoint, with the
generation that wrote it and its parent's), `frozen` (replay dataset), `runs` (the set
of replay receipts, each with its time of creation, review, verdict and evaluation), `readiness` (promotion readiness record) -
and the operators `Complete`, `PreReplayComplete`, `SplitsComplete`, `OpenFolds`,
`NeedsReplay`, `NeedsReview`, `EvaluationRuns`, `LifecycleComplete` are the different looks
the code takes at them.  File times are modelled by what they are compared with: storing
a fold's state file makes the records about it stale (`fresh`, `settled`).

The loop is `pc`: `Probe` (does a lifecycle hold the lane?), ingest, model worker, dataset,
replay, review, evaluation, then again.  A command is two actions, its start (with
what it read, in `job`) and its end, so that a reset or a crash falls between.

Abstracted: a fold's months become ready at once, in the order of the folds; the ticks of a
fold are one for all splits and one for the checkpoint; a failure and a backoff are the same
(`TrainNothing`, `SkipReplay`, `FailReplay`, `SkipReview`); a replay covers all its months
or none; a command of a daemon that died does not go on; every reset reopens
a split.  The replay dataset, once frozen, stays compatible.  The readiness record
and the clearing of a reset are made by other repositories (`Promote`, `Cleared`): the
clearing is assumed to be at once, which the documents demand "before reentry" and
nothing in the code enforces.

`FoldSequence` knows the number of opened folds and the set of closed ones: a fold is opened
when all before it are closed, and only a reset reopens.  `ImplementsFoldSequence`
is the refinement.  The history variable `torn` has the folds that were reset while a command
for them ran, `lone` says that a reset spared a later fold; they delimit what the
code does not promise.

### StageProcess

Per executor: the attempt, its child (`leader`, `helper` for what the child has forked), the
progress file all workers share (`file`, `news`, `fresh`), the `verdict` and the `receipts`.
`Poll` is one round of the guard, `Stop` the SIGTERM to the process group, `Kill` what follows
when it does not go, `Conclude` and `Finish` the verdict, the retry after a repair and the
receipt.  `ChildMoves` is everything a child may do: report, hang, fork, get stuck in the
kernel, end.  Only the child itself writes progress; what survived an earlier attempt is out of
sight; the memory guard may trigger at any poll.  When the service manager restarts the daemon
it kills the daemon's children with it (`Service`).

### SchedulerLoop

`month` and `lane` are the files the loop looks at, `mem` and `disk` the daemon's state in
memory and on disk, `turn` what an iteration has found out.  `Iteration` goes from the choice
of the target through the stall guard to the ingest and model workers and the save; `Raise` is
a worker that raises.  Fold f needs the months 1 to f, which stands for the rolling eighteen;
the lifecycle workers are one, which executes, backs off or waits for a known reason; time
passes in whole windows (`Age`).  The service is the one of the unit file: it selects its work
and pins no target.  `enabled` are the targets of the queue that operators have not disabled.

### TargetFeed

M02 waits for the bars of every month of its fold.  `SeeBlocked` finds months without a
receipt that has rows; under the lock (`EnterFeed`) the first of them are chosen again (`Slice`)
and bought one by one (`Call`, `AfterCall`), and the rows are materialized (`Materialize`).  The command line buys months beside it without the
lock, and the provider may stop or begin to have rows of a month (`supply`).  The bars stage of
M01 is one step (its detail is `ProviderStage`), a failed M02 stays so (its reset is in
`RerunReset`), a receipt is written at once, and a tick that is killed takes its children along.
A window of two months and slices of one stand for eighteen and five.

### RerunReset

A reset is `LoadForReset`, `WriteState` and then `WriteReceipt`, which asks the storage project to
clear (`Clear`); ticks of the daemon, the storage project and an interruption come between.  A tick is one
step here: the lost update against a running stage is `WorkflowCheckpoint`'s.  The artifacts of a
stage lie at one place; storage clears by scope; source data, which is protected, and the
batch receipts, which summarise, are left out.

### ReplayInputs

`source`, `feature`, `marker` and `receipt` say what there is of each signal; `artifact` is the list a
replay has written of the signals it lacked, `status` the one status file of all drains.  A drain
reads, takes the lock, asks, settles, generates and reports batch by batch; an operator's
drain and replay run beside it.  One fold; the database is always reachable and the artifact's
policy current; a generator that succeeds is complete; time budgets are a drain that may
stop anywhere; the lock of a dead daemon is taken over (`SchedulerLock`); a run writes down
the first n signals it misses (`Reach`).

### AgentErrors

A handler registers an error under the catalog's lock, files the request, calls the agent,
alerts and retries, without a lock; the controller, one at a time because its unit is oneshot,
recovers requests whose call was abandoned and closes repairs.  `Crash` kills a handler at any
step, `GrowOld` passes the age for recovery, which is longer than a handler waits.  A failed
call and one that was queued and never made are one outcome, `unanswered`; alerts that get lost
are left out; a verdict that no action is needed is given at the daemon's wrapper only; the
actions of a closure are one step and its receipt another.  What the controller found in the
three directories is a set of places (`closer.todo`), taken up in their order.  There is no
liveness here, because the code has none: `OnlyForgottenWait` says which requests nobody takes up again.

### RequestHandoff and CompletionRows

A request is named by source, symbol and month, so two batches plan it with other contents.
`RequestHandoff` writes the rows of a batch in one transaction, its files one by one and its
bindings in another, checks and dispatches; the content of each is the name of the batch
that wrote it.  What a command has still to do are places of its batch (`todo`), taken in
order.  Promotion requests take their locks first and are one transaction.  Checks that
ids agree hold by construction and are left out; what the components do with a dispatch is
external.

`CompletionRows` turns a receipt into `runs`, `artifactRefs` and `signals`, each a transaction, for several
recorders; `After`, `TaskStatus` and the rest are the view `task_summary`.  Runs are appended,
except those of the shadow handoff and of rehearsals, which are written anew (`Rewritten`);
the number of signals at its insertion stands for the `created_at` of a signal, which is the
same within a transaction and is kept when the row is replaced.

### EventFeeds and MarketCalendar

`Prepare`, `Dispatch` with the calls of its feeds one by one in the order of the plan
(`todo` is a set, `FirstIn` its first), `Materialize`, and the storage
project's compaction of receipts (`Compact`).  Feeds that a killed dispatcher leaves run on.  All targets of a month
share the output directory of a source, and with it the receipt.  The dispatch that only
validates is left out, a feed run that fails leaves no readable trace, and a materialization is
one step.  `MarketCalendar` computes the sessions of a month the way `scheduler.py` does; its
properties compare Easter with the tables of the church and the announced days with what an
exchange calendar must satisfy.

### EventEvidence

Families of four kinds, each with what its gates read: filings and closures of a window as
numbers, news as a row for each place in time, crawls as the sets of fields they have.  `RouteFamily`
walks the families in the order of the code, `Summarise` ends the walk, `Enrich` reads the crawls
again.  The list of families is what the operator names, and may name one twice (the option
`--event-family-id` is not deduplicated): the last entry of a family is the route on disk.  Texts are
abstracted to the subtype they match; packets are not kept, their routes are.  The control gates
are never performed by any code, so a family is never admissible for review by evidence alone.

### DatasetEvidence

The manager reads seven tables one after the other (`QueryTable`) while snapshots, splits, labels,
evaluations and metrics are written (`BuildDatasets`, external: one transaction for a snapshot
with its splits).  `PlanFor`, `PlanExpansion` and `InformationPass` are the decisions.  What
holds is less than the names suggest, and the properties say what: months are added up over
snapshots, so a month built twice counts twice; labels and evaluations are credited to the first
snapshot in an unordered query (`PlacesOf`, `SnapshotRef`); a split counts for a role when its name contains an alias (`is`
in "history"); the information pass never names a target, so layers that need one stay blocked.

### TransitionLedger

Decision log, ledger, latest transition and daemon state are four writes; the status command
reads them in its own order and the checkpoints last.  The fold is all months of the
instance, its model group holds the lane when they are complete.  Log and latest transition are read
in one step, and so are the checkpoints; rows are as long as one unit or as the whole log may be.
The stage, lock plan and next action that the command also shows are left out.

### TaskTimeline

The dashboard reads five sources in turn (`ReadNext`): the log and latest transition of the
daemon with its state, the checkpoints of the folds and months, the artifacts of the folds' life
after training, the errors, the failure register; the daemon, agents and operators go on between
(`WritersMove`).  `Rows` makes the list, `Gated` holds later folds up behind the first that is
open, `Attached` adds failures and errors, `ActiveTask` and `OwnerStatus` say what is going on.

- `OnHold`: a fold that was reset from its foundation on shows every unfinished stage as blocked
  while one of its months lacks its own foundation.  The daemon does not wait for that: it takes up
  an open fold and gives it its foundation again (`SeedFold`), which ends the hold.
- `HandedOn`: the readiness record is the latest of any fold.  Once one fold was handed over,
  an eligible later one shows its maintenance as completed, and `NothingIsAhead` says so.
- `ActiveTask` prefers the lifecycle task that the latest transition names (`SaidOf`); a selected
  fold is shown as the active task without a row of its own (`Superseded`).
- The replay dataset's compatibility is not told apart: `_replay_dataset_scope_status` returns
  `compatible` for every manifest.

Left out: progress counters, the review status they imply and with it the review tasks that come
first among the active ones; the activity a replay reports of itself; rows of single months; the
filter of errors by target; superseded errors; all texts.  An error is known by its stage, and a
failed acquisition leaves one row of the register.  The log line and the transition file are
written in one step and read in one, and so are the checkpoints.  Which months a selection counts
as done is left out, so `SelectWork` may happen at any decision.  The acquisition of layer 1 stands
for the foundation.  A fold is reset at most once, while no command of it runs, and its artifacts
are cleared with it (`FoldLane` and `RerunReset` have the other cases).

## 3. Runs

| run | bounds | shows |
|---|---|---|
| `task_timeline` | 2 folds of 2 layers with overlapping windows, 1 reset, from the first or the third stage, 1 failure, 1 stop, 1 change during a read | the list of tasks is never ahead of the workflow, shows one fold at work and hides no failure but for a later decision |
| `wf_daemon` | 5 stages in 2 layers, 1 process, 3 crashes, 2 failures, 2 losses; 2 models, 2 snapshots, 2 facts | the checkpoint implements `WorkflowProgress` and settles; evidence of datasets is explained by what was built (`DatasetEvidence`) |
| `wf_writers` | 3 stages, 2 processes, 1 failure, loss and revision; 1 fold, 2 operators, 2 resets; 2 months, 2 ticks, 4 calls | a ready stage has its blockers met, in the file and in every copy; artifacts are accounted for (`RerunReset`); so are the months that are bought (`TargetFeed`) |
| `plan_scopes` | the real plan of 12 scopes, 1 failure, 2 revisions | order, freshness, and which workflows never end |
| `provider_batch` | 2 requests, slices of 1, 2 processes, 1 failure, 1 review, 1 crash, manual call or lost table | the three records agree, and the stage unlocks or waits for a repair, unless a review jams it or the option source is missing |
| `fold_lane` | 3 folds, 1 reset of any set of folds, 1 crash | folds are serial, a verdict is on the present checkpoint, what can keep the lane held for ever |
| `errors_repair` | 2 occurrences of one error, 1 handler and the controller, 2 units of time, 1 upset; 3 months, 3 rows | numbers, alerts, closures and who is forgotten; the status of the command is explained (`TransitionLedger`) |
| `replay_inputs` | 3 signals of 2 months, slices of 2 and 3, 2 contracts, 1 death or operator | what a refusal costs, when a replay goes back undrained, what jams it |
| `loop_guard` | 3 processes and a lock file; 2 targets, 2 months and folds, 1 death, 1 operator's move | exclusion, own-file release and replacement of dead locks, until a live owner's file is unlinked (`SchedulerLock`); the queue moves by hand only; a silent standstill has a cause |
| `stage_process` | a daemon and an operator, 1 stage each, 1 death | what a stop leaves, what receipts say; no child holds its executor for ever |
| `event_feeds` | 2 targets, 2 feeds, 1 month, 2 dispatchers, 3 calls, 1 compaction; the years 1980 to 2007 | what is bought twice, what a clean end means, what leaves the pool; the calendar is orderly |
| `event_evidence` | a family of each kind, 3 places in time, 2 crawls; 3 requests, 3 commands; 2 tasks, 3 recordings | releases, routes and handoffs; the records of a request and of a receipt agree |

**Why the bounds are enough.**  Three processes are one owner, one that replaces and one
that gets in; two give the stale-copy races of the checkpoint, whose actions involve a
process and the file.  The plan of two layers has every shape of blocker the real plan
has, and `WorkflowPlan` has the real plan.  Two requests with slices of one leave one
request over while the other is ready, failed or accepted, which is what the coverage and
the slice choice tell apart.  One crash, failure, loss or revision per interleaving is
what each property needs to be violated; the daemon run has several because it is small.

Three folds are one in work, one before and one after it; one reset of any
set gives two generations of a checkpoint, and a crash falls at every step.
Two folds of two layers whose windows share a month are the least in which a failure of one
fold can be taken for the other's; the change during a read falls between any two of its five
parts, and the theorem about the list has no such bound.  A reset of the first fold from its
foundation is the one that is held, a reset from its second layer the one that is not.  Two months with slices of one leave a month behind one that
never has rows.  Three signals in batches of two leave one that shares a batch and one that
does not.  Three months of the transition ledger are one open, one before it and one after it that
may be completed by hand: with two, a failure is never recorded under an open month when a later
one is done.  The years of the calendar contain the late paschal moon of 1981, every weekday a
year can start with, and the ad-hoc closures.

**What holds only with an exception** is stated with it: each property names the causes the
code really has (`usurped`, `raced`, `compacted`, `torn`, `lapsed`, `late`, `mixed`,
`byHand` and so on are history variables for them), and its mutant breaks it without one.

**Fairness.**  Weak fairness of each process's step: the daemon loop ticks for ever and
systemd restarts it (`Restart=always`); a refused lock raises and the next tick tries again.
Crashes, failures and operator commands are never forced.  `wf_daemon` adds that a
provider that is asked again and again delivers at some time (strong fairness of
`Delivers`), without which a provider stage may stay partial for ever; nobody revises the
checkpoint meanwhile.  `provider_batch` needs no such assumption because its failures are
bounded.  `plan_scopes` assumes that inputs arrive and the scheduler ticks.
`fold_lane` has weak fairness of the loop, strong fairness of the successful outcomes of what
is tried again in every cycle (the sources are external and a failure is not for
ever), and weak fairness of the promotion of an eligible candidate.  Under these,
`OnlyTheseJam` says that every fold is closed unless one is left ragged, overtaken or torn -
three ways in which the lane really stops (see the hazards).  `replay_inputs` assumes the same
of its loop and of an operator's script, and that answers, generator and paths come in the
end; `loop_guard` that the loop goes on, whether its workers raise or not, that lock files age,
and that time passes; `stage_process` that executors go on and time passes, and nothing of children.  The
others check safety only.

## 4. Findings

None is listed as a violation: where the code does less than a document says, a property
says what it does.  What a maintainer may want to know:

1. Replacing a stale lock is inspect, unlink, create.  Two contenders that saw the same dead
   pid can both own the lock (`usurped`).
2. A reset or invalidation made while a stage command runs is overwritten when the executor
   stores the copy it made before; the seeding of a fold marks foundation stages succeeded
   before every tick, also after they were reset; the executor selects again inside a lock
   taken for an earlier selection.
3. Accepted and ready requests are counted in overlapping sets (`OverlapIsTheOnlyHole`), and
   the dispatch refuses while the report lists failed requests, reviewed ones included
   (`OnlyReviewsAndGapsJam`).  An options stage whose requests have all succeeded while the source
   table is empty is blocked for good: no call repeats a request that has succeeded.
4. A reset that is interrupted between state and receipt leaves artifacts that nobody will
   clear; a clearance that comes late takes what a stage has made anew.
5. Months of a target that the provider has nothing of are paid for in every tick and hold
   up all that follow (`HeldUpByDeadMonths`).
6. One refused option request marks its whole batch as having no source; a drain of another
   artifact vouches for that of the replay.
7. A scheduler that does nothing is not always reported within the window: the reason of
   what is over counts as a boundary, a checkpoint written by the other worker counts as
   progress (`Silenced`), and a target at the head of the queue with nothing left to do
   keeps the others from starting until somebody disables it (`RotationIsByHand`).
8. A request whose handler died before filing it, that grew old before an agent answered,
   whose call failed, or that stands behind others in every slice, is never closed.
9. Two batches that plan one request at a time can leave a row that is not its file's.
10. M03 reads coverage from receipts without fallback: compaction drops a source from its
    pool although the saved file is there.
11. Failures in the first tick of a month are recorded under the month before, which may be open
    while a later one is completed, and, with a queued target, not shown as blocked; a log line as long as the log may be empties it.
12. A failed model stage vanishes from the list of tasks as soon as the next tick backs off
    ("no executable stage" counts as transient while the daemon runs), and the owner's status
    then reads running; with a rejected earlier fold and no active task it even reads
    complete.  Register rows are matched by overlapping months, so the failure of one fold
    makes the same task of a later one current; the readiness record of one fold completes the
    maintenance of every eligible one; a fold that was reset is shown as held although the daemon
    takes it up; a wait is matched by task, not by fold; errors
    that wait for a retry count as closed and hide the rows they belong to.
13. A family that is named twice on the command line of the routing gets two entries in its
    summary (`--event-family-id` is not deduplicated), and the last is the route on disk.

## 5. Proofs

Every theorem is about the specification TLC checks, for any value of its constants that
satisfies the module's assumption; the assumptions name what the code fixes (an order has
each stage once, a limit is a number) and are evaluated in every run.  The argument is always
the same: an inductive invariant, checked by TLC on the run before it was proved, is
true initially and kept by every action, one lemma for each part of it; the property follows.  What
the invariant adds to the property is why the code works, so it is named here.

`SchedulerProofs`, for any processes, targets, folds, layers and bounds:

- `OwnersHaveTheirFile`: while `~usurped`, the file at the path names every process that is
  writing or holding.  Exclusion alone is not inductive: a release by a process whose
  file has been replaced would remove another's.  `ExclusiveLock`
  (`ExclusiveUnlessUsurped`) and `ReleaseIsOwn` (`ReleaseRemovesOwnFile`) follow.
- `RotationTakesAHand` (`RotationIsByHand`): the targets of the turn, of the checkpoint in memory
  and of the one on disk all lead the queue (`OnlyLeaders`).  The last of them matters after a
  death, and a target that leads goes on to lead because the queue only shrinks.
- `ListIsExplained` (`TimelineIsExplained`).  What was read of a file is not taken back while the
  others are read: a success stays, a fold is no less far (`ReachedStages`, `ReachedLife`), unless
  it was reset since the first read.  Without a reset no two folds are open (`OneOpen`).  A
  failed stage is of the fold at work, and its failure is the last decision, the one still to
  be logged, or followed by an idle one (`FailuresAreLogged`); a failure once logged is still
  there or was taken up (`KnownFailure`).  What the list makes of that are lemmas about its
  operators: a row passes the gate only if nothing before it is open (`GatedRows`,
  `OpenFoldHasARow`), a failure of the register makes it current (`AttachedRows`), the active
  task differs by its status only (`ShownActiveRows`).

`WorkflowCheckpointProofs`, for every plan whose blockers look at the same or an earlier
layer (`PlanIsLayered`), any number of processes and any bounds:

- `ReadyStagesAreSound` (`ReadyIsSound`) and `CopiesAreSoundToo` (`CopiesAreSound`).
  `SInv` says that the file, every process's copy and the copy of the operator
  command are sound at once: each store makes the file one of the copies, each load makes a
  copy of the file.  The lemmas say that every operator of `WorkflowOps` yields a sound
  checkpoint from any or from a sound one; the invalidation, which does not refresh, is
  the one that needs the plan to be layered.
  The real plans are: `RealPlansAreLayered` below.
- `DaemonImplementsProgress`: the checkpoint implements `WorkflowProgress`, the refinement
  that the run `wf_daemon` checks.  It holds for one scheduler process and no operator command
  (`OneWorker`), which is what the daemon's lock gives and what the abstract specification
  is about - with two, the lost updates of `wf_writers` reopen what was done - and for a foundation
  that builds on nothing but itself (`SeedsAreClosed`), which the seeding of a fold needs so
  that what it marks succeeded has its blockers met.

and, of `DatasetEvidence`, for any models that build on lower ones, any splits and names of splits,
any minimum of months and any writers of the tables:

- `EvidenceStaysExplained` (`EvidenceIsExplained`).  Rows are only added, and a snapshot that is
  written again only moves (`TablesGrow`, `Rewritten`), so that what was read is still there
  (`WereRead`), however the reads and the writes interleave; and what a plan was right about when
  it was written stays right (`OrderStays`).  That a plan is right when it is written are lemmas
  about the decision: months that are counted once each are at most those built (`CountIsReal`, an
  injection), nothing is left to want only when no model lacks months, because the least that
  does builds on models that do not (`NothingWanted`), and the forward holdout comes first only
  when no other role is short, so that the gap that asks for it was reported (`ForwardIsLast`,
  `ForwardWasReported`).

`StageProcessProofs`, for any set of executors:

- `AccountedFor` (`ExecutionsAreAccountedFor`).  The invariant says of each control point what
  the child, the verdict and the receipts are (`Stages`), that only a crash leaves an orphan
  (`OrphansAreLapsed`) and whose the entry in the progress file is (`EntryIsOfARun`).

and, of `ReplayInputs`, for any signals, sizes of batches, and number of deaths and drains:

- `RefusalsCostTheirBatches` (`RefusalCostsItsBatch`).  A count of marks is not inductive by itself:
  the invariant (`Charges`) charges each mark that is nobody's own to a refused signal and the
  drainer that met the refusal, and no pair twice, for a batch never asks for what is marked.
  Every action is one of two kinds (`StepOf`): it marks what was answered without rows, or all
  that a refused batch asked for.  The bound is then that of a family of sets.
- `UndrainedReplaysHaveCause` (`UndrainedOnlyByRefusal`): a batch that says "ready" or "repaired" has
  the whole artifact covered (`Drained`), what is covered stays so (`CoverGrows`), and the status
  file says "ready" of the newest artifact only on such a word.

`ProviderStageProofs`, for any plan of requests, workers and slices:

- `UnlockedIsAccountedFor` (`OverlapIsTheOnlyHole`).  An acceptance can be overwritten by a
  proposal that was made before it, so the property alone is not inductive; from the moment the
  stage is unlocked the reconcile lock keeps such a proposal away (`Firm`).
- `OptionCallsAreFirst` (`OptionPaidOnce`): whom a worker waits for it has the partition lock of
  (`InHand`), and without a success unless it was left running (`Paid`).
- `ReadyRowsAreSettled` (`ReadyIsSettled`): a ready row has a successful receipt, nothing is
  proposed against it, and what was open is closed before the coverage is taken (`Rows`).

`FoldLaneProofs`, for any number of folds, any scope of resets and any number of them:

- `VerdictsAreCurrent` (`ClosedIsCurrent`).  The invariant has what a running command counts on
  (`InHand`), that only the fold evaluation looks at can be halfway between verdict and
  evaluation (`Evidence`), that a fold not reset under a command has replays of the
  checkpoint it has (`Current`), and that, while no reset spared a later fold, nothing
  is built on an open one (`Lineage`).
- `LaneImplementsSequence`: the lane implements `FoldSequence`.  Each step maps to a step or a
  stutter: selecting an absent fold opens the next one, because all before it are closed when
  the worker is reached; the promotion, the end of the evaluation or a state file
  written again closes; a reset reopens.

`AgentErrorProofs`, for any requests, handlers, windows and limits: `NumbersHold`
(`NumbersAreKept`), `PendingIsWaitedFor` (`PendingHasACaller`), `RepairsAreActedOnOnce`
(`ActedOnce`), `ClosuresHaveCause` (`ClosedHasCause`) and `OnlyTheForgottenWait`
(`OnlyForgottenWait`).

- The numbers need that what a handler has in hand is a row of the catalog (`InHand`,
  `Bounded`), that whatever is filed, diagnosed or in the controller's line was raised
  (`AllMet`), and that each alert, sent or to be sent, takes a call of its own (`Counted`).
- A repair is acted on once because the controller's line has no closed request and none
  twice, and a request acted on has a receipt, is the one in hand, or was lost in a crash
  (`Closing`).

and, of `TransitionLedger`, for any number of months, length of the log and place of the row:

- `StatusHolds` (`StatusIsExplained`).  What the daemon remembers and has stored was current once:
  all it holds complete is so, and the month it names was reached (`MemoryIsPast`, `MemoryReached`).  A
  selection is told only when what is stored is no longer current, and it is the one applied, unless
  a month slipped in between (`Selecting`).  A month is open
  behind complete ones, or one after it was completed by hand (`OpenInOrder`); so a failure that
  names another month than the one that failed names a complete one, or both are behind one
  (`FailuresExcused`, for the row at each of its places).  The ledger and the latest
  transition are kept together but for the moment between them (`LineIsLast`).

`EventFeedProofs`, for any feeds, months, targets, dispatchers, families and releases:

- `RacesAreExplained` (`RacesHaveCause`) needs that a request that runs was not bought before and
  that two runs of one are known to have raced (`RunsAreFirst`, `TwoRunsRace`);
  `NothingIsLost` (`NothingBoughtIsLost`) that a dispatch that is to stop at the first failure has
  still to visit what it has not bought (`NothingSkipped`), and that what the pool was made of is
  there or compacted (`PoolIsCovered`).
- `HandoffsHaveCause` (`HandoffHasCause`) is not inductive because it speaks of the sample, which
  arriving news change; that what was observed stays observed is (`HandoffWasSeen`).
  `SummariesAreComplete` (`SummaryIsComplete`) follows from what a routing under way has made
  and has to do (`RoutingIsInStep`), `ReleasesAreKept` (`ReleaseIsKept`) from an enriched row being one
  of the crawls (`CalendarIsCrawled`).

`WorkflowWriterProofs`:

- `FeedAccounted` (`FeedIsAccountedFor`), for any window and slice: a tick that buys holds the lock
  (`LockIsHeld`), has the first months that wait in hand and buys none with rows
  (`SliceInHand`), and materializes a whole fold (`WholeInHand`).  That dead months hold up the
  others is not inductive, for a month may lose its rows; that a month nobody asked for stands
  behind a slice of asked ones is (`HeldUp`, `Untouched`).
- `ArtifactsAccounted` (`ArtifactsAreAccountedFor`), for any plan whose order lists stages of it:
  references and status agree in file and copies (`RefsAgree`), an operator's request is for what
  its copy forgets (`CopiesAgree`, `OwnNumbers`), and what a request will clear was made by a run it
  knows or after it (`RerunsAreKnown`).
- `RecordsAlwaysAgree` (`RecordsAgree`), for any batches, commands, tasks and processes, from two
  invariants.  `HandoffInv`: a file that differs from its binding is about to be bound, or to be
  checked by the command that bound it last (`MismatchPends`); while one command holds a request,
  the row is what it holds and so is the file once written (`RowIsInStep`); two that meet are known
  (`MeetingsAreKnown`).  `CompletionInv`: what a lone recorder has written is what it has read
  (`WrittenAsRead`, `TwoAreMixed`), all other runs tell the same in the three tables
  (`OthersAgree`), the rows the next table refers to are there (`RowsAreThere`), and
  a receipt that is only appended to still says what was read of it (`ReceiptsAreKept`).  That the
  view finds a signal to show uses that finitely many were written.
- `DoneStaysCurrent` (`DoneIsCurrent`), for any of the plans, whenever inputs arrive and whatever fails,
  is reset or invalidated.  That what is done has its blockers met is not enough, for a done
  stage may look at one that is open; the invariant adds that all that a done stage builds on has
  ended (`Grounded`).  It is kept because the stage that is executed is the first ready one:
  if it is the feature stage of a layer, everything before it in the order has ended or
  builds on what is missing, and the feature stage of a layer whose data is complete is itself
  ready (`FeatureFollowsData`, `FirstReadyIsSettled`).  A reset and an invalidation reopen with a stage
  all that is built on it.
- `RealPlansAreLayered`: each of these plans is what `WorkflowCheckpoint` assumes of its constant
  plan - layered, and with a foundation that stands alone once task keys are prepared - so that
  the theorems of `WorkflowCheckpointProofs` hold of the plans the code builds.

Only model-checked:

- liveness, which is out of the prover's reach: `EventuallySettled`, `LeftBehindIsReplaced`,
  `OnlyKnownScopesStall`, `OnlyReviewsAndGapsJam`, `OnlyTheseJam`, `OnlyTheseHoldReplay`,
  `SilenceHasCause`, `HungIsLeft`;
- `CalendarIsOrderly`, a computation over given years: the arithmetic of the calendar, with its
  divisions by 19, 25, 100, 400 and 451, is beyond the SMT solver, and whether it holds of every
  year is not known from a run over some.

## 6. Not modelled, and the plan

Statistics over data have no state of their own: the metrics of evaluation and
attribution (`model_group_*attribution.py`, most of `model_group_evaluation.py`), the
universe metrics and the feature computations.  Thin clients, wrappers and migrations are
pure I/O.  Of the dashboard, charts, diagnostics and issues only select and format what
`TaskTimeline` reads.

What would come next:

1. Receipt ingestion and observed provider calls, which a reset and a re-run count twice.
2. The resuming of a replay and the rows it keeps.
3. The loop for a fixed scope without automatic selection.
4. Proofs: that `WorkflowProgress` is implemented while the inputs of the real plan arrive, for which
   the plan would have to be a variable of `WorkflowCheckpoint`.
