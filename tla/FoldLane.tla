------------------------------ MODULE FoldLane ------------------------------
(* The lane of one training target: run_daemon_loop with its selection of     *)
(* months and folds, the model-group lifecycle of each fold (replay dataset,  *)
(* replay, replay review, evaluation and decision), and the operator's rerun  *)
(* reset of folds.                                                            *)
(*                                                                            *)
(* Nothing but files says how far a fold is, and each step looks at other     *)
(* files: the worker at the earliest open fold, the hold at the first fold    *)
(* without a fresh verdict, replay at the first fold without a replay, review *)
(* at the latest replay of any fold, evaluation at the latest fold.           *)
EXTENDS Integers, FiniteSetsExt

CONSTANTS
    Folds,       \* number of folds with complete months, at most
    ResetScopes, \* sets of folds one rerun may reset
    MaxResets,   \* bound on reruns
    MaxCrashes   \* bound on deaths of the daemon

Fold == 1..Folds

ASSUME LaneAssumption ==
    /\ Folds \in Nat \ {0}
    /\ ResetScopes \subseteq SUBSET Fold
    /\ {MaxResets, MaxCrashes} \subseteq Nat

VARIABLES
    ready,     \* folds whose months have their foundation
    fold,      \* the state file of each fold
    alpha,     \* the after-cost alpha checkpoint of each fold; gen 0 is no file
    frozen,    \* the replay dataset is frozen and complete
    runs,      \* replay receipts with their review and evaluation
    readiness, \* a promotion readiness record newer than the state file
    pc,        \* where the daemon is in its cycle
    job,       \* what the running command was started with
    resets, crashes,
    torn,      \* history: folds reset while a command for them was running
    lone       \* history: a reset left a later fold as it was

vars == <<ready, fold, alpha, frozen, runs, readiness, pc, job,
          resets, crashes, torn, lone>>

inputs == <<ready, frozen>>
history == <<resets, crashes, torn, lone>>
evidence == <<runs, readiness>>

\* "built": every split is generated, the checkpoint stage is not done.
\* "ragged": splits and checkpoint are done and another stage is not, for example
\* a failed feature stage beside a finished acquisition.
Statuses == {"absent", "open", "built", "ragged", "complete"}

Idle == [fold |-> 0, had |-> "absent", gen |-> 0, parent |-> 0]

Init ==
    /\ ready = 0 /\ frozen = FALSE
    /\ fold = [f \in Fold |-> "absent"]
    /\ alpha = [f \in Fold |-> [gen |-> 0, parent |-> 0]]
    /\ runs = {}
    /\ readiness = [f \in Fold |-> FALSE]
    /\ pc = "probe" /\ job = Idle
    /\ resets = 0 /\ crashes = 0
    /\ torn = {} /\ lone = FALSE

-----------------------------------------------------------------------------
In(statuses) == {f \in Fold : fold[f] \in statuses}

\* _completed_training_folds: all stages that come before the replay are done.
Complete == In({"complete"})

\* _workflow_payload_pre_replay_complete: splits and checkpoint are done.
PreReplayComplete == In({"ragged", "complete"})

\* The folds evaluation looks at: the splits are done.
SplitsComplete == In({"built", "ragged", "complete"})

\* _fold_payload_has_open_model_worker_stage
OpenFolds == In({"open", "built"})

RunsOf(f) == {r \in runs : r.fold = f}

\* The receipt created last.
Latest == {r \in runs : \A q \in runs : q.created <= r.created}

\* The generation of the checkpoint fold f continues from.
Parent(f) == IF f = 1 THEN 0 ELSE alpha[f - 1].gen

\* _fold_model_group_lifecycle_complete: a terminal decision whose replay receipt
\* exists, or a readiness record, not older than the state file.
LifecycleComplete(f) ==
    \/ \E r \in RunsOf(f) : r.verdict = "terminal" /\ r.fresh
    \/ readiness[f]

\* model_group_lifecycle_blocks_next_fold
Blocks == \E f \in PreReplayComplete : ~LifecycleComplete(f)

\* select_model_worker_fold, select_model_worker_target
Selectable ==
    IF Blocks THEN {}
    ELSE IF OpenFolds # {} THEN {Min(OpenFolds)}
    ELSE LET unopened == {f \in In({"absent"}) : f <= ready}
         IN  IF unopened = {} THEN {} ELSE {Min(unopened)}

\* _next_training_fold_needing_replay; receipts are told apart by fold only.
NeedsReplay ==
    IF frozen THEN {f \in Complete : RunsOf(f) = {}} ELSE {}

NeedsDataset == ~frozen /\ Complete # {}

\* Mutant of NeedsReview: a replay without rows is left alone.
NeedsReviewOfRows == \E r \in Latest : ~r.reviewed /\ r.rows

\* The latest receipt of any fold has neither a review nor a rejection.
NeedsReview == \E r \in Latest : ~r.reviewed

\* The reviewed replay of the latest fold, while it has no evaluation newer than
\* the fold's state file.
EvaluationRuns ==
    IF SplitsComplete = {} THEN {}
    ELSE {r \in RunsOf(Max(SplitsComplete)) : r.rows /\ r.reviewed /\ ~r.settled}

-----------------------------------------------------------------------------
Goto(label) == pc' = label /\ job' = Idle

Work(label, j) == pc' = label /\ job' = j

\* What the receipts of fold f become.
Amended(f, Op(_)) == {IF r.fold = f THEN Op(r) ELSE r : r \in runs}

Stale(r) == [r EXCEPT !.fresh = FALSE, !.settled = FALSE]

\* Every write of a state file makes the records about its fold older than it.
Store(f, status) ==
    /\ fold' = [fold EXCEPT ![f] = status]
    /\ runs' = Amended(f, Stale)
    /\ readiness' = [readiness EXCEPT ![f] = FALSE]

Trained(f, parent) ==
    alpha' = [alpha EXCEPT ![f] = [gen |-> resets + 1, parent |-> parent]]

-----------------------------------------------------------------------------
\* Mutant of Probe: the hold of the lane does not ask the evaluation.
ProbeLifecycle ==
    /\ pc = "probe"
    /\ Goto(IF Blocks \/ NeedsDataset \/ NeedsReplay # {} \/ NeedsReview
            THEN "dataset" ELSE "ingest")
    /\ UNCHANGED <<inputs, fold, alpha, evidence, history>>

\* The start of a cycle: does a fold's lifecycle hold the lane?
Probe ==
    /\ pc = "probe"
    /\ Goto(IF Blocks \/ NeedsDataset \/ NeedsReplay # {} \/ NeedsReview
                \/ EvaluationRuns # {}
            THEN "dataset" ELSE "ingest")
    /\ UNCHANGED <<inputs, fold, alpha, evidence, history>>

\* select_month_ingest_worker_months yields a month only while no fold is open,
\* held or selectable; here a fold's months become ready at once.
IngestMonths ==
    /\ pc = "ingest"
    /\ ready < Folds /\ ~Blocks /\ OpenFolds = {} /\ Selectable = {}
    /\ ready' = ready + 1
    /\ Goto("worker")
    /\ UNCHANGED <<frozen, fold, alpha, evidence, history>>

IngestNothing ==
    /\ pc = "ingest"
    /\ Goto("worker")
    /\ UNCHANGED <<inputs, fold, alpha, evidence, history>>

\* _run_model_worker_decision: select, seed the state file, start a tick.
SelectWork ==
    /\ pc = "worker"
    /\ \E f \in Selectable :
        LET status == IF fold[f] = "built" THEN "built" ELSE "open"
        IN  /\ Store(f, status)
            /\ Work("training", [fold |-> f, had |-> status, gen |-> 0, parent |-> Parent(f)])
    /\ UNCHANGED <<inputs, alpha, history>>

SelectNothing ==
    /\ pc = "worker" /\ Selectable = {}
    /\ Goto("dataset")
    /\ UNCHANGED <<inputs, fold, alpha, evidence, history>>

\* The tick ends; it stores the copy of the state it loaded, with the outcome.
TrainSplits ==
    /\ pc = "training" /\ job.had = "open"
    /\ Store(job.fold, "built")
    /\ Goto("dataset")
    /\ UNCHANGED <<inputs, alpha, history>>

\* The checkpoint stage continues from the previous fold's checkpoint.
TrainCheckpoint ==
    /\ pc = "training" /\ job.had = "built"
    /\ job.fold = 1 \/ job.parent # 0
    /\ \E status \in {"complete", "ragged"} : Store(job.fold, status)
    /\ Trained(job.fold, job.parent)
    /\ Goto("dataset")
    /\ UNCHANGED <<inputs, history>>

TrainNothing ==
    /\ pc = "training"
    /\ Store(job.fold, job.had)
    /\ Goto("dataset")
    /\ UNCHANGED <<inputs, alpha, history>>

-----------------------------------------------------------------------------
\* run_model_group_replay_dataset_if_ready: while it has a decision, prepared,
\* acquired or frozen, there is no replay in the cycle.
Freeze ==
    /\ pc = "dataset" /\ NeedsDataset
    /\ frozen' = TRUE
    /\ Goto("review")
    /\ UNCHANGED <<ready, fold, alpha, evidence, history>>

DatasetWaits ==
    /\ pc = "dataset"
    /\ Goto(IF NeedsDataset THEN "review" ELSE "replay")
    /\ UNCHANGED <<inputs, fold, alpha, evidence, history>>

\* run_model_group_replay_if_ready up to the command: the previous fold's
\* checkpoint must exist, a missing one of this fold is trained now.
StartReplay ==
    /\ pc = "replay" /\ NeedsReplay # {}
    /\ LET f   == Min(NeedsReplay)
           gen == IF alpha[f].gen = 0 THEN resets + 1 ELSE alpha[f].gen
       IN  /\ f = 1 \/ Parent(f) # 0
           /\ IF alpha[f].gen = 0 THEN Trained(f, Parent(f)) ELSE UNCHANGED alpha
           /\ Work("replaying", [Idle EXCEPT !.fold = f, !.gen = gen])
    /\ UNCHANGED <<inputs, fold, evidence, history>>

\* Nothing to replay, or a backoff: no parent checkpoint, training failed, ...
SkipReplay ==
    /\ pc = "replay"
    /\ Goto("review")
    /\ UNCHANGED <<inputs, fold, alpha, evidence, history>>

Receipt(f, gen, rows) ==
    [fold |-> f, gen |-> gen, rows |-> rows, reviewed |-> FALSE,
     verdict |-> "none", fresh |-> FALSE, settled |-> FALSE,
     created |-> 1 + Max({0} \cup {r.created : r \in runs})]

\* The runner has written its receipt, with or without decision rows.
EndReplay ==
    /\ pc = "replaying"
    /\ \E rows \in BOOLEAN : runs' = runs \cup {Receipt(job.fold, job.gen, rows)}
    /\ Goto("review")
    /\ UNCHANGED <<inputs, fold, alpha, readiness, history>>

FailReplay ==
    /\ pc = "replaying"
    /\ Goto("review")
    /\ UNCHANGED <<inputs, fold, alpha, evidence, history>>

\* run_model_group_replay_review_if_ready
StartReview ==
    /\ pc = "review" /\ NeedsReview
    /\ \E r \in Latest : Work("reviewing", [Idle EXCEPT !.fold = r.fold, !.gen = r.gen])
    /\ UNCHANGED <<inputs, fold, alpha, evidence, history>>

\* Nothing to review, or a backoff for outcome data.
SkipReview ==
    /\ pc = "review"
    /\ Goto("evaluate")
    /\ UNCHANGED <<inputs, fold, alpha, evidence, history>>

\* A replay without decision rows is rejected here, and terminally.
Reviewed(r) ==
    IF r.rows THEN [r EXCEPT !.reviewed = TRUE]
    ELSE [r EXCEPT !.reviewed = TRUE, !.verdict = "terminal", !.fresh = TRUE]

EndReview ==
    /\ pc = "reviewing"
    /\ runs' = Amended(job.fold, Reviewed)
    /\ Goto("evaluate")
    /\ UNCHANGED <<inputs, fold, alpha, readiness, history>>

\* run_model_group_evaluation_if_ready
StartEvaluation ==
    /\ pc = "evaluate"
    /\ \E r \in EvaluationRuns :
        Work("settling", [Idle EXCEPT !.fold = r.fold, !.gen = r.gen])
    /\ UNCHANGED <<inputs, fold, alpha, evidence, history>>

SkipEvaluation ==
    /\ pc = "evaluate" /\ EvaluationRuns = {}
    /\ Goto("probe")
    /\ UNCHANGED <<inputs, fold, alpha, evidence, history>>

\* The decision is written before the receipt that makes the evaluation done.  A
\* decision about a replay receipt that is gone counts for nothing.
Decide ==
    /\ pc = "settling"
    /\ \E verdict \in {"terminal", "eligible"} :
        LET Decided(r) == [r EXCEPT !.verdict = verdict, !.fresh = TRUE]
        IN  runs' = Amended(job.fold, Decided)
    /\ Work("decided", job)
    /\ UNCHANGED <<inputs, fold, alpha, readiness, history>>

Settled(r) == [r EXCEPT !.settled = TRUE]

EndEvaluation ==
    /\ pc = "decided"
    /\ runs' = Amended(job.fold, Settled)
    /\ Goto("probe")
    /\ UNCHANGED <<inputs, fold, alpha, readiness, history>>

-----------------------------------------------------------------------------
\* The promotion of an eligible candidate ends with a readiness record, written
\* outside this program.
Promote(f) ==
    /\ ~readiness[f]
    /\ \E r \in RunsOf(f) : r.verdict = "eligible" /\ r.fresh
    /\ readiness' = [readiness EXCEPT ![f] = TRUE]
    /\ UNCHANGED <<inputs, fold, alpha, runs, pc, job, history>>

\* Mutant of Cleared: the replays of a fold that is reset are kept.
ClearedCheckpoints(scope) ==
    /\ alpha' = [f \in Fold |-> IF f \in scope THEN [gen |-> 0, parent |-> 0] ELSE alpha[f]]
    /\ runs' = {IF r.fold \in scope THEN Stale(r) ELSE r : r \in runs}

\* trading-storage deletes the checkpoints and the replay, review and evaluation
\* runs of the folds that were reset.  The documents ask for it before the daemon
\* steps again, and nothing checks that it has happened: it is assumed here.
Cleared(scope) ==
    /\ alpha' = [f \in Fold |-> IF f \in scope THEN [gen |-> 0, parent |-> 0] ELSE alpha[f]]
    /\ runs' = {r \in runs : r.fold \notin scope}

\* execute_model_group_rerun_reset for each fold of a batch, at any moment: it
\* takes no lock.  Every cutpoint reopens some split.
Reset(scope) ==
    /\ resets < MaxResets
    /\ scope # {} /\ scope \cap In({"absent"}) = {}
    /\ fold' = [f \in Fold |-> IF f \in scope THEN "open" ELSE fold[f]]
    /\ Cleared(scope)
    /\ readiness' = [f \in Fold |-> readiness[f] /\ f \notin scope]
    /\ resets' = resets + 1
    /\ torn' = torn \cup (scope \cap {job.fold})
    /\ lone' = (lone \/ \E f \in scope, g \in Fold \ scope : f < g /\ fold[g] # "absent")
    /\ UNCHANGED <<inputs, pc, job, crashes>>

\* The daemon dies and systemd starts it again.
Crash ==
    /\ crashes < MaxCrashes /\ pc # "probe"
    /\ crashes' = crashes + 1
    /\ Goto("probe")
    /\ UNCHANGED <<inputs, fold, alpha, evidence, resets, torn, lone>>

-----------------------------------------------------------------------------
Cycle ==
    \/ Probe \/ IngestMonths \/ IngestNothing
    \/ SelectWork \/ SelectNothing \/ TrainSplits \/ TrainCheckpoint \/ TrainNothing
    \/ Freeze \/ DatasetWaits
    \/ StartReplay \/ SkipReplay \/ EndReplay \/ FailReplay
    \/ StartReview \/ SkipReview \/ EndReview
    \/ StartEvaluation \/ SkipEvaluation \/ Decide \/ EndEvaluation

Next ==
    \/ Cycle
    \/ \E f \in Fold : Promote(f)
    \/ \E scope \in ResetScopes : Reset(scope)
    \/ Crash

Spec == Init /\ [][Next]_vars

\* The daemon goes on; a command that is tried again and again succeeds at some
\* time; whoever promotes an eligible candidate does so at some time.
FairSpec ==
    /\ Spec /\ WF_vars(Cycle)
    /\ SF_vars(IngestMonths) /\ SF_vars(Freeze)
    /\ SF_vars(TrainSplits) /\ SF_vars(TrainCheckpoint)
    /\ SF_vars(StartReplay) /\ SF_vars(EndReplay) /\ SF_vars(StartReview)
    /\ \A f \in Fold : WF_vars(Promote(f))

-----------------------------------------------------------------------------
\* The values of the variables; a fold has one replay receipt at most, which the
\* code enforces by never replaying a fold that has one.
TypeOK ==
    /\ ready \in 0..Folds /\ frozen \in BOOLEAN
    /\ fold \in [Fold -> Statuses]
    /\ alpha \in [Fold -> [gen : 0..(MaxResets + 1), parent : 0..(MaxResets + 1)]]
    /\ runs \subseteq [fold : Fold, gen : 1..(MaxResets + 1), rows : BOOLEAN,
                       reviewed : BOOLEAN, verdict : {"none", "terminal", "eligible"},
                       fresh : BOOLEAN, settled : BOOLEAN, created : Nat]
    /\ \A q, r \in runs : q.fold = r.fold => q = r
    /\ readiness \in [Fold -> BOOLEAN]
    /\ job.fold \in 0..Folds
    /\ resets \in 0..MaxResets /\ crashes \in 0..MaxCrashes
    /\ torn \subseteq Fold /\ lone \in BOOLEAN

\* A fold's lifecycle is over: the hold of the lane and the evaluation agree that
\* nothing is left to do.
Closed(f) ==
    /\ f \in PreReplayComplete /\ LifecycleComplete(f)
    /\ \A r \in RunsOf(f) : r.rows => r.settled

\* The fold whose evidence a later fold keeps evaluation from looking at.
Overtaken(f) == ~Closed(f) /\ \E g \in SplitsComplete : g > f

opened == Cardinality(Fold \ In({"absent"}))
closed == {f \in Fold : Closed(f)}

Lane == INSTANCE FoldSequence

\* Folds progress serially (docs/26 185-191): whatever is reset, crashes or has to
\* be tried again, a fold is opened only when every earlier fold is closed, and
\* only a reset takes a closed fold back.
ImplementsFoldSequence == Lane!Spec

\* The verdict a fold is closed with is about the checkpoint it has now, unless it
\* was reset while one of its commands was running (docs/25 133).
VerdictIsCurrent ==
    \A f \in Fold \ torn : Closed(f) =>
        \A r \in RunsOf(f) : r.gen = alpha[f].gen

\* The checkpoint of a closed fold continues from the checkpoint the fold before
\* it has now, unless a reset spared a later fold or hit a running command.  The
\* code compares the path of the parent, never what it contains.
LineageIsCurrent ==
    ~lone /\ torn = {} =>
        \A f \in Fold \ {1} : Closed(f) => alpha[f].parent = alpha[f - 1].gen

\* What a fold is closed with is about what it and the fold before it are now.
ClosedIsCurrent == VerdictIsCurrent /\ LineageIsCurrent

\* Every fold is closed in the end, unless one is left ragged, one is overtaken by
\* a later fold, or one was reset while one of its commands was running.
OnlyTheseJam ==
    \/ <>[](closed = Fold)
    \/ <>[](\/ torn # {}
            \/ \E f \in Fold : fold[f] = "ragged" \/ Overtaken(f))
=============================================================================
