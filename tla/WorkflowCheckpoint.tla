------------------------- MODULE WorkflowCheckpoint -------------------------
(* One workflow checkpoint file and everybody who rewrites it:                *)
(*   - scheduler processes (run_scheduler_once in scheduler.py), which run    *)
(*     offline stages through execute_next_ready_stage and provider stages    *)
(*     through _execute_autonomous_provider_stage and reconcile_provider_stage*)
(*   - the model worker of the daemon, which before each tick of a fold marks *)
(*     the fold's foundation stages succeeded (seed_model_worker_fold_state)  *)
(*   - the rerun command (execute_model_group_rerun_reset) and the            *)
(*     invalidation command (invalidate_layer_downstream_outputs), which take *)
(*     no lock.                                                               *)
(* Every writer loads the file, computes on its own copy and stores the whole *)
(* copy, so the steps below are the loads and the stores.  The file locks are *)
(* taken as ideal here (SchedulerLock says how far they are): a lock is free  *)
(* when nobody alive holds it, a refused acquisition raises RuntimeError.     *)
EXTENDS WorkflowOps, FiniteSets

CONSTANTS
    Worker,      \* scheduler processes: the daemon, command-line ticks
    Plan,        \* the plan every process builds for this checkpoint
    Provider,    \* the stages in PROVIDER_STAGE_MODEL_LAYERS
    OptionSource,\* the provider stages whose coverage is gated on SQL rows
    Preparable,  \* stages with a blocker outside the checkpoint: task keys to
                 \* prepare, target-local feed artifacts to acquire
    SeedOptions, \* the sets of stages a tick may mark succeeded beforehand: {} for
                 \* the checkpoint of a month, the foundation stages for a fold's
    NoStage, NoWorker,
    MaxCrashes,  \* bound on worker crashes
    MaxFailures, \* bound on stage commands that fail
    MaxLosses,   \* bound on provider stages that lose their source coverage
    MaxRevisions \* bound on resets and invalidations

Stage == StagesOf(Plan)

ASSUME PlanAssumption ==
    /\ IsPlan(Plan)
    /\ NoStage \notin Stage
    /\ NoWorker \notin Worker

ASSUME PlanIsLayered == IsLayered(Plan)

ASSUME BoundsAssumption ==
    /\ Provider \subseteq Stage /\ OptionSource \subseteq Provider
    /\ Preparable \subseteq Stage /\ SeedOptions \subseteq SUBSET Stage
    /\ MaxCrashes \in Nat /\ MaxFailures \in Nat
    /\ MaxLosses \in Nat /\ MaxRevisions \in Nat

VARIABLES
    disk,      \* the checkpoint file
    seed,      \* the stages a tick marks succeeded before it starts
    missing,   \* stages whose blocker outside the checkpoint is not met
    covered,   \* provider stages whose requests all have source coverage
    pc,        \* where each worker is
    view,      \* each worker's copy of the checkpoint
    aim,       \* the stage whose lock the worker takes
    job,       \* the stage the worker executes
    result,    \* how the stage command ended
    lane,      \* month_stage lock of each stage
    rlane,     \* reconcile lock of each provider stage
    op,        \* the operator command in progress: [pc, view]
    budget     \* what is left of the four bounds

vars == <<disk, seed, missing, covered, pc, view, aim, job, result, lane, rlane, op, budget>>

local == <<pc, view, aim, job, result>>

-----------------------------------------------------------------------------
\* The plan as it is built now: an outside blocker that is not met is one that
\* nothing in the checkpoint satisfies.
PlanWith(gone) ==
    [Plan EXCEPT !.blockers = [s \in Stage |->
        IF s \in gone THEN Plan.blockers[s] \cup {{}} ELSE Plan.blockers[s]]]

PlanNow == PlanWith(missing)

\* load_workflow_state of the stored rows, with the refresh it ends in.
Loaded == Refresh(PlanNow, disk)

\* What a process that has loaded nothing holds.
Blank == [status |-> [s \in Stage |-> "pending"], hold |-> [s \in Stage |-> FALSE]]

Init ==
    /\ seed \in SeedOptions
    /\ missing = Preparable \ seed
    /\ disk = Initial(PlanNow)
    /\ covered = {}
    /\ pc = [w \in Worker |-> "idle"]
    /\ view = [w \in Worker |-> Blank]
    /\ aim = [w \in Worker |-> NoStage]
    /\ job = [w \in Worker |-> NoStage]
    /\ result = [w \in Worker |-> "none"]
    /\ lane = [s \in Stage |-> NoWorker]
    /\ rlane = [s \in Stage |-> NoWorker]
    /\ op = [pc |-> "idle", view |-> Blank]
    /\ budget = [crash |-> MaxCrashes, fail |-> MaxFailures,
                 lose |-> MaxLosses, revise |-> MaxRevisions]

Goto(w, label) == pc' = [pc EXCEPT ![w] = label]

\* The worker goes back to the loop with nothing in hand.
GoIdle(w) ==
    /\ Goto(w, "idle")
    /\ view' = [view EXCEPT ![w] = Blank]
    /\ aim' = [aim EXCEPT ![w] = NoStage]
    /\ job' = [job EXCEPT ![w] = NoStage]
    /\ result' = [result EXCEPT ![w] = "none"]

Take(locks, s, w) == [locks EXCEPT ![s] = w]

\* Mutant of Drop: a process leaves its lock behind and stays alive.
DropNothing(locks, w) == locks

Drop(locks, w) == [s \in Stage |-> IF locks[s] = w THEN NoWorker ELSE locks[s]]

-----------------------------------------------------------------------------
\* seed_model_worker_fold_state for the fold that select_model_worker_fold found
\* open: load, mark the foundation succeeded whatever its status, refresh ...
SeedLoad(w) ==
    /\ pc[w] = "idle" /\ seed # {}
    /\ ~AllDone(Plan, Loaded)
    /\ view' = [view EXCEPT ![w] = Refresh(PlanNow, AllSucceeded(Loaded, seed))]
    /\ Goto(w, "seed")
    /\ UNCHANGED <<seed, disk, missing, covered, aim, job, result, lane, rlane, op,
                   budget>>

\* ... and store.  No lock of this file is held.
SeedStore(w) ==
    /\ pc[w] = "seed"
    /\ disk' = view[w]
    /\ view' = [view EXCEPT ![w] = Blank]
    /\ Goto(w, "tick")
    /\ UNCHANGED <<seed, missing, covered, aim, job, result, lane, rlane, op,
                   budget>>

AtTick(w) == pc[w] = IF seed = {} THEN "idle" ELSE "tick"

(* run_scheduler_once up to the choice of the branch: no lock is held.        *)
Tick(w) ==
    LET next == NextReady(Plan, Loaded, NoStage) IN
    /\ AtTick(w)
    /\ next # NoStage
    /\ aim' = [aim EXCEPT ![w] = next]
    /\ Goto(w, IF next \in Provider THEN "provider" ELSE "offline")
    /\ UNCHANGED <<seed, disk, missing, covered, view, job, result, lane, rlane, op,
                   budget>>

\* The stage is the first blocked one, or the very first and not done.
NeedsInput(s) ==
    LET state == Loaded
        at    == CHOOSE i \in DOMAIN Plan.order : Plan.order[i] = s
    IN  /\ state.status[s] = "blocked" \/ (at = 1 /\ ~Done(state, s))
        /\ \A i \in 1..(at - 1) : state.status[Plan.order[i]] # "blocked"

Waiting(s) == s \in missing /\ NeedsInput(s) /\ lane[s] = NoWorker

\* No stage is ready and one waits for an outside blocker: task keys are
\* written, or one slice of target-local feed acquisition runs, under the lock.
Prepare(w) ==
    /\ AtTick(w)
    /\ NextReady(Plan, Loaded, NoStage) = NoStage
    /\ \E s \in Stage : Waiting(s) /\ missing' = missing \ {s}
    /\ GoIdle(w)
    /\ UNCHANGED <<seed, disk, covered, lane, rlane, op, budget>>

\* The tick finds nothing to do; the model worker seeds again before the next.
Rest(w) ==
    /\ pc[w] = "tick"
    /\ NextReady(Plan, Loaded, NoStage) = NoStage
    /\ ~ \E s \in Stage : Waiting(s)
    /\ GoIdle(w)
    /\ UNCHANGED <<seed, disk, missing, covered, lane, rlane, op, budget>>

\* acquire_scheduler_lock(month_stage_lock_ref(month, aim)) or RuntimeError.
EnterLane(w) ==
    /\ pc[w] \in {"offline", "provider"}
    /\ \/ /\ lane[aim[w]] = NoWorker
          /\ lane' = Take(lane, aim[w], w)
          /\ Goto(w, IF pc[w] = "offline" THEN "select" ELSE "begin")
          /\ UNCHANGED <<seed, view, aim, job, result>>
       \/ /\ lane[aim[w]] # NoWorker
          /\ GoIdle(w)
          /\ UNCHANGED lane
    /\ UNCHANGED <<seed, disk, missing, covered, rlane, op, budget>>

-----------------------------------------------------------------------------
(* Offline branch: execute_next_ready_stage inside the lane of aim.           *)

\* Reloads the checkpoint and picks the next ready stage again; "no ready
\* workflow stage" is an error and leaves the lane.
Select(w) ==
    LET next == NextReady(Plan, Loaded, NoStage) IN
    /\ pc[w] = "select"
    /\ \/ /\ next # NoStage
          /\ view' = [view EXCEPT ![w] = Loaded]
          /\ job' = [job EXCEPT ![w] = next]
          /\ Goto(w, "stamp")
          /\ UNCHANGED <<seed, aim, result, lane>>
       \/ /\ next = NoStage
          /\ GoIdle(w)
          /\ lane' = Drop(lane, w)
    /\ UNCHANGED <<seed, disk, missing, covered, rlane, op, budget>>

\* mark_stage_started and write_workflow_state; the command starts.
Stamp(w) ==
    /\ pc[w] = "stamp"
    /\ view' = [view EXCEPT ![w] = Started(view[w], job[w])]
    /\ disk' = Started(view[w], job[w])
    /\ Goto(w, "run")
    /\ UNCHANGED <<seed, missing, covered, aim, job, result, lane, rlane, op, budget>>

\* execute_stage_process returns: the receipt is on disk, the checkpoint is not.
Run(w) ==
    /\ pc[w] = "run"
    /\ \/ /\ result' = [result EXCEPT ![w] = "succeeded"]
          /\ UNCHANGED budget
       \/ /\ budget.fail > 0
          /\ result' = [result EXCEPT ![w] = "failed"]
          /\ budget' = [budget EXCEPT !.fail = @ - 1]
    /\ Goto(w, "report")
    /\ UNCHANGED <<seed, disk, missing, covered, view, aim, job, lane, rlane, op>>

\* What is stored at the end: the copy of the checkpoint made before the
\* command ran, with the outcome; refreshed after a success only.
Outcome(plan, ck, s, how) ==
    IF how = "succeeded" THEN Refresh(plan, Succeeded(ck, s)) ELSE Failed(ck, s)

Report(w) ==
    /\ pc[w] = "report"
    /\ disk' = Outcome(PlanNow, view[w], job[w], result[w])
    /\ lane' = Drop(lane, w)
    /\ GoIdle(w)
    /\ UNCHANGED <<seed, missing, covered, rlane, op, budget>>

-----------------------------------------------------------------------------
(* Provider branch: _execute_autonomous_provider_stage.                       *)

\* In the lane: requests are prepared and the checkpoint is loaded ...
Begin(w) ==
    /\ pc[w] = "begin"
    /\ view' = [view EXCEPT ![w] = Loaded]
    /\ job' = [job EXCEPT ![w] = aim[w]]
    /\ Goto(w, "begun")
    /\ UNCHANGED <<seed, disk, missing, covered, aim, result, lane, rlane, op, budget>>

\* ... and stored with the stage marked started; the lane is left.
BeginStore(w) ==
    /\ pc[w] = "begun"
    /\ disk' = Started(view[w], job[w])
    /\ lane' = Drop(lane, w)
    /\ Goto(w, "dispatch")
    /\ UNCHANGED <<seed, missing, covered, view, aim, job, result, rlane, op, budget>>

\* run_stage_controller_step: one bounded slice of provider requests, which may
\* or may not complete the coverage of the stage.  No lock of this file.
Dispatch(w) ==
    /\ pc[w] = "dispatch"
    /\ \/ covered' = covered \cup {job[w]}
       \/ UNCHANGED covered
    /\ Goto(w, "reconcile")
    /\ UNCHANGED <<seed, disk, missing, view, aim, job, result, lane, rlane, op, budget>>

\* reconcile_provider_stage takes the reconcile lock or raises.
EnterReconcile(w) ==
    /\ pc[w] = "reconcile"
    /\ \/ /\ rlane[job[w]] = NoWorker
          /\ rlane' = Take(rlane, job[w], w)
          /\ Goto(w, "collect")
          /\ UNCHANGED <<seed, view, aim, job, result>>
       \/ /\ rlane[job[w]] # NoWorker
          /\ GoIdle(w)
          /\ UNCHANGED rlane
    /\ UNCHANGED <<seed, disk, missing, covered, lane, op, budget>>

\* collect_stage_coverage, then advance_workflow_state up to its store.  A stage
\* that is not covered reports "partial" or, for option sources with no SQL row,
\* "source_gap".
Reports(s) ==
    IF s \in covered THEN {"ready"}
    ELSE {"partial"} \cup (IF s \in OptionSource THEN {"source_gap"} ELSE {})

Collect(w) ==
    /\ pc[w] = "collect"
    /\ \E report \in Reports(job[w]) :
          view' = [view EXCEPT ![w] =
                      Refresh(PlanNow, CoverageApplied(Loaded, job[w], report))]
    /\ Goto(w, "advance")
    /\ UNCHANGED <<seed, disk, missing, covered, aim, job, result, lane, rlane, op, budget>>

Advance(w) ==
    /\ pc[w] = "advance"
    /\ disk' = view[w]
    /\ rlane' = Drop(rlane, w)
    /\ GoIdle(w)
    /\ UNCHANGED <<seed, missing, covered, lane, op, budget>>

-----------------------------------------------------------------------------
\* The process dies.  Its locks name a dead pid, so they are free to take.
Crash(w) ==
    /\ pc[w] # "idle"
    /\ budget.crash > 0
    /\ budget' = [budget EXCEPT !.crash = @ - 1]
    /\ lane' = Drop(lane, w)
    /\ rlane' = Drop(rlane, w)
    /\ GoIdle(w)
    /\ UNCHANGED <<seed, disk, missing, covered, op>>

\* Source rows or requests change, and a stage's coverage is no longer complete.
LoseCoverage ==
    /\ budget.lose > 0
    /\ \E s \in covered : covered' = covered \ {s}
    /\ budget' = [budget EXCEPT !.lose = @ - 1]
    /\ UNCHANGED <<seed, disk, missing, local, lane, rlane, op>>

\* execute_model_group_rerun_reset: load and compute ...  (The cut is the first
\* stage of a layer and stage type; the plans of the runs have one of each.)
ResetLoad ==
    /\ op.pc = "idle" /\ budget.revise > 0
    /\ \E cut \in DOMAIN Plan.order :
          op' = [pc   |-> "store",
                 view |-> ResetFrom(PlanNow, Loaded, cut)]
    /\ budget' = [budget EXCEPT !.revise = @ - 1]
    /\ UNCHANGED <<seed, disk, missing, covered, local, lane, rlane>>

\* invalidate_layer_downstream_outputs: read the rows and rewrite them ...
InvalidateLoad ==
    /\ op.pc = "idle" /\ budget.revise > 0
    /\ \E floor \in {Plan.layer[s] : s \in Stage} :
          op' = [pc   |-> "store",
                 view |-> Invalidated(Plan, disk, floor)]
    /\ budget' = [budget EXCEPT !.revise = @ - 1]
    /\ UNCHANGED <<seed, disk, missing, covered, local, lane, rlane>>

\* ... and store.
OpStore ==
    /\ op.pc = "store"
    /\ disk' = op.view
    /\ op' = [pc |-> "idle", view |-> Blank]
    /\ UNCHANGED <<seed, missing, covered, local, lane, rlane, budget>>

Step(w) ==
    \/ SeedLoad(w) \/ SeedStore(w)
    \/ Tick(w) \/ Prepare(w) \/ Rest(w) \/ EnterLane(w)
    \/ Select(w) \/ Stamp(w) \/ Run(w) \/ Report(w)
    \/ Begin(w) \/ BeginStore(w) \/ Dispatch(w)
    \/ EnterReconcile(w) \/ Collect(w) \/ Advance(w)

Operator == ResetLoad \/ InvalidateLoad \/ OpStore

DaemonNext == LoseCoverage \/ \E w \in Worker : Step(w) \/ Crash(w)
Next == DaemonNext \/ Operator

Spec == Init /\ [][Next]_vars

\* The daemon loop keeps ticking and every process that is not killed finishes
\* what it does; a provider that is asked again and again ends up delivering.
\* Nobody revises the checkpoint meanwhile.
Delivers(w) == Dispatch(w) /\ job[w] \in covered'

FairSpec ==
    /\ Init /\ [][DaemonNext]_vars
    /\ \A w \in Worker : WF_vars(Step(w)) /\ SF_vars(Delivers(w))

-----------------------------------------------------------------------------
TypeOK ==
    /\ disk \in Checkpoints(Plan) /\ seed \in SeedOptions
    /\ missing \subseteq Stage /\ covered \subseteq Stage
    /\ pc \in [Worker -> {"idle", "offline", "select", "stamp", "run", "report",
                          "provider", "begin", "begun", "dispatch", "reconcile",
                          "collect", "advance", "seed", "tick"}]
    /\ view \in [Worker -> Checkpoints(Plan)]
    /\ aim \in [Worker -> Stage \cup {NoStage}]
    /\ job \in [Worker -> Stage \cup {NoStage}]
    /\ result \in [Worker -> {"none", "succeeded", "failed"}]
    /\ lane \in [Stage -> Worker \cup {NoWorker}]
    /\ rlane \in [Stage -> Worker \cup {NoWorker}]
    /\ op \in [pc : {"idle", "store"}, view : Checkpoints(Plan)]
    /\ budget \in [crash : Nat, fail : Nat, lose : Nat, revise : Nat]

\* The file never offers a stage whose upstream work is not done: whatever the
\* interleaving of stale writers, demotions, resets, invalidations and crashes,
\* a ready stage of the stored checkpoint has all its blockers met by the same
\* checkpoint.  next_ready_or_blocked_stage executes whatever is ready.
ReadyIsSound ==
    \A s \in Stage : disk.status[s] = "ready" => Unblocked(Plan, disk, s)

\* What a process is about to store is as sound as what it read.
CopiesAreSound ==
    \A w \in Worker : \A s \in Stage :
        view[w].status[s] = "ready" => Unblocked(Plan, view[w], s)

\* The stages the file reports as done and as failed, read as WorkflowProgress.
Progress == INSTANCE WorkflowProgress
    WITH Blockers <- Plan.blockers,
         done     <- {s \in Stage : Done(disk, s)},
         failed   <- {s \in Stage : disk.status[s] = "failed"}

\* With one scheduler process and no operator command every store is at most one
\* stage that ends, after all it builds on, and never one that ended before is
\* reopened or changes its outcome, across crashes and restarts at any step and
\* reconciles that find less coverage than before.
ImplementsProgress == Progress!Spec

\* One scheduler process brings the workflow to an end: everything done, or a
\* failed stage or a held option source that waits for a repair.
Settled == \/ AllDone(Plan, disk)
           \/ \E s \in Stage : disk.status[s] = "failed" \/ disk.hold[s]
EventuallySettled == <>[]Settled

=============================================================================
