----------------------------- MODULE TaskTimeline -----------------------------
(***************************************************************************)
(* The list of tasks that dashboard_read_models.py shows the owner of the  *)
(* workflow.  It is made of files that the daemon, the agents and the      *)
(* model-group programs write meanwhile: the status with the latest        *)
(* decision, the checkpoints of the folds, the artifacts of each fold's    *)
(* life after training, the catalog of errors and the failure register     *)
(* are read one after the other, and one list is made of the five.         *)
(*                                                                         *)
(* A layer of a fold has an acquisition and a model stage; the acquisition *)
(* of layer 1 stands for the foundation, which a fold is given by that of  *)
(* its months.  The counters of progress, the review_required status and   *)
(* the texts of a row are left out: a ready acquisition that shows         *)
(* requests under way reads as ready.  Errors are told apart by their      *)
(* stage, as the list does, and a failed acquisition leaves one row of the *)
(* failure register, for one month.                                        *)
(* A fold is reset for a rerun while no command of it is running, and its  *)
(* artifacts are cleared with the reset: FoldLane has the other cases.     *)
(***************************************************************************)
EXTENDS Integers, Sequences, FiniteSetsExt

CONSTANTS
    LaneFolds,   \* the folds are 1 .. LaneFolds, in their order
    MonthsOf,    \* [1 .. LaneFolds -> SUBSET Nat]: windows that overlap
    NumLayers,   \* the layers of the stack are 1 .. NumLayers
    Reruns,      \* bound: the resets, [fold, stage] records; a fold has one
    MaxMoves,    \* bound: steps of the others while a list is being made
    MaxFailed,   \* bound: stages that fail
    MaxStops     \* bound: stops of the daemon

ASSUME TimelineAssumption ==
    /\ LaneFolds \in Nat \ {0} /\ NumLayers \in Nat \ {0}
    /\ MonthsOf \in [1 .. LaneFolds -> SUBSET Nat]
    /\ Reruns \subseteq [fold : 1 .. LaneFolds, stage : 1 .. 2 * NumLayers]
    /\ MaxMoves \in Nat /\ MaxFailed \in Nat /\ MaxStops \in Nat

FoldIds == 1 .. LaneFolds
LayerTasks == 1 .. NumLayers
\* Stages 2l-1 and 2l are the acquisition and the model of layer l.
StageIds == 1 .. 2 * NumLayers
LayerOf(i) == (i + 1) \div 2
Acquires(i) == i % 2 = 1

\* How far a fold has come after training, and the tasks that take it there.
Replayed == 1
Reviewed == 2
Rejected == 3
Eligible == 4
HandedOver == 5
Replay == NumLayers + 1
Promotion == NumLayers + 4
Maintenance == NumLayers + 5
LifecycleTasks == Replay .. Maintenance

VARIABLES
    foldFile,     \* per fold, the status of every stage, or <<>>: no file yet
    lifecycle,    \* per fold, 0 or how far it has come after training
    frozen,       \* the replay dataset is frozen: all folds share it
    handoff,      \* there is a readiness record, whichever fold it is of
    unbuilt,      \* months that lack their foundation
    lastDecision, \* the last line of the decision log
    selection,    \* what was selected since, as the transition file says
    unlogged,     \* a decision that is still to be logged
    daemonUp,
    register,     \* [stage, month]: failures that wait for a retry
    handled,      \* per stage: how far its error is handled
    looking,      \* how many of the five files were read; 6: the list is shown
    found,        \* what they said
    shown,        \* the list, and the status of the whole
    wasReset,     \* per fold: "never", "before" or, since the first read, "now"
    moves, failed, stops

timelineVars == <<foldFile, lifecycle, frozen, handoff, unbuilt, lastDecision,
                  selection, unlogged, daemonUp, register, handled, looking, found,
                  shown, wasReset, moves, failed, stops>>
viewVars == <<looking, found, shown>>
lifeVars == <<lifecycle, frozen, handoff>>
errorVars == <<register, handled>>
resetVars == <<unbuilt, wasReset>>
fileVars == <<foldFile, lifeVars, unbuilt, errorVars>>
logVars == <<lastDecision, selection, unlogged, daemonUp>>

NoDecision == [fold |-> 0, task |-> 0, status |-> "none"]
NothingSeen ==
    [decision |-> NoDecision, selection |-> "none", up |-> FALSE,
     files |-> [f \in FoldIds |-> <<>>], unbuilt |-> {},
     pre |-> [f \in FoldIds |-> FALSE], life |-> [f \in FoldIds |-> 0],
     frozen |-> FALSE, handoff |-> FALSE,
     handled |-> [i \in StageIds |-> "none"], register |-> {}]
NothingShown == [tasks |-> {}, owner |-> "none"]

\* A fold that the daemon takes up has its foundation.
NewFold == [i \in StageIds |-> CASE i = 1 -> "succeeded"
                                 [] i = 2 -> "ready"
                                 [] OTHER -> "blocked"]

TimelineInit ==
    /\ foldFile = [f \in FoldIds |-> IF f = 1 THEN NewFold ELSE <<>>]
    /\ lifecycle = [f \in FoldIds |-> 0]
    /\ frozen = FALSE /\ handoff = FALSE /\ unbuilt = {}
    /\ lastDecision = NoDecision /\ unlogged = NoDecision
    /\ selection = "none" /\ daemonUp = TRUE
    /\ register = {}
    /\ handled = [i \in StageIds |-> "none"]
    /\ looking = 0 /\ found = NothingSeen /\ shown = NothingShown
    /\ wasReset = [f \in FoldIds |-> "never"]
    /\ moves = 0 /\ failed = 0 /\ stops = 0

-----------------------------------------------------------------------------
(* The writers.                                                            *)

Trained(file) == file # <<>> /\ \A i \in StageIds : file[i] = "succeeded"
Closed(f) == Trained(foldFile[f]) /\ lifecycle[f] \in {Rejected, HandedOver}
\* A trained fold that is not closed holds the lane; else the first open
\* fold has it.
Holding == {f \in FoldIds : Trained(foldFile[f]) /\ ~Closed(f)}
Untrained == {f \in FoldIds : foldFile[f] # <<>> /\ ~Trained(foldFile[f])}
Lane == IF Holding # {} THEN Holding
        ELSE {f \in Untrained : \A g \in Untrained : f <= g}
NextStageOf(f) == Min({i \in StageIds : foldFile[f][i] # "succeeded"})
Decides == daemonUp /\ unlogged = NoDecision

BeginStage(f) ==
    /\ Decides /\ ~Trained(foldFile[f])
    /\ foldFile[f][NextStageOf(f)] = "ready"
    /\ foldFile' = [foldFile EXCEPT ![f][NextStageOf(f)] = "started"]
    /\ UNCHANGED <<lifeVars, errorVars, resetVars, logVars, failed, stops>>

\* Success unblocks the next stage, clears the stage's rows in the months of
\* the fold, and is the retry that closes the stage's error.
EndStage(f, ok) ==
    /\ Decides /\ ~Trained(foldFile[f])
    /\ LET i == NextStageOf(f)
       IN  /\ foldFile[f][i] = "started"
           /\ unlogged' = [fold |-> f, task |-> LayerOf(i),
                           status |-> IF ok THEN "executed" ELSE "failed"]
           /\ foldFile' = [foldFile EXCEPT ![f] =
                  [j \in StageIds |->
                      IF j = i THEN IF ok THEN "succeeded" ELSE "failed"
                      ELSE IF j = i + 1 /\ ok THEN "ready" ELSE @[j]]]
           /\ IF ok
              THEN /\ register' = {r \in register :
                                       r.stage # i \/ r.month \notin MonthsOf[f]}
                   /\ handled' = [handled EXCEPT ![i] =
                                      IF @ = "none" THEN @ ELSE "closed"]
                   /\ failed' = failed
              ELSE /\ failed < MaxFailed /\ failed' = failed + 1
                   /\ handled' = [handled EXCEPT ![i] = "open"]
                   /\ IF Acquires(i)
                      THEN \E m \in MonthsOf[f] :
                               register' = register \cup {[stage |-> i, month |-> m]}
                      ELSE register' = register
    /\ UNCHANGED <<lifeVars, resetVars, lastDecision, selection, daemonUp, stops>>

\* The task that takes a trained fold on from where it is; the preparation
\* of the dataset is no task of the list.
NextTask(f) == IF ~frozen THEN 0 ELSE Replay + lifecycle[f]
DecisionOf(f) == [fold |-> f, task |-> NextTask(f), status |-> "executed"]

FreezeDataset(f) ==
    /\ Decides /\ Trained(foldFile[f]) /\ ~frozen
    /\ frozen' = TRUE /\ unlogged' = DecisionOf(f)
    /\ UNCHANGED <<foldFile, lifecycle, handoff, errorVars, resetVars, lastDecision,
                   selection, daemonUp, failed, stops>>

\* Replay, replay review, or evaluation with its decision.
AdvanceLifecycle(f) ==
    /\ Decides /\ Trained(foldFile[f]) /\ frozen /\ lifecycle[f] < Rejected
    /\ \E n \in IF lifecycle[f] = Reviewed THEN {Rejected, Eligible}
                ELSE {lifecycle[f] + 1} :
           lifecycle' = [lifecycle EXCEPT ![f] = n]
    /\ unlogged' = DecisionOf(f)
    /\ UNCHANGED <<foldFile, frozen, handoff, errorVars, resetVars, lastDecision,
                   selection, daemonUp, failed, stops>>

\* Another repository takes an eligible fold over and writes its readiness
\* record; the daemon does nothing about it.
HandOver(f) ==
    /\ lifecycle[f] = Eligible
    /\ lifecycle' = [lifecycle EXCEPT ![f] = HandedOver]
    /\ handoff' = TRUE
    /\ UNCHANGED <<foldFile, frozen, errorVars, resetVars, logVars, failed, stops>>

\* The lane, or a fold of it, is recorded when the daemon's scope has changed
\* since: which months it counts as done is left out.
SelectWork ==
    /\ Decides /\ Lane # {} /\ selection = "none"
    /\ selection' = IF Holding # {} THEN "held" ELSE "fold"
    /\ UNCHANGED <<fileVars, wasReset, lastDecision, unlogged, daemonUp, failed, stops>>

\* A tick without anything to execute: no stage of the fold is ready, or an
\* input of its next lifecycle task is missing.
BackOff(f) ==
    /\ Decides
    /\ \/ /\ ~Trained(foldFile[f])
          /\ foldFile[f][NextStageOf(f)] = "failed"
          /\ lastDecision' = [fold |-> f, status |-> "idle",
                              task |-> LayerOf(Min({NextStageOf(f) + 1, 2 * NumLayers}))]
       \/ /\ Trained(foldFile[f]) /\ lifecycle[f] < Rejected
          /\ lastDecision' = [DecisionOf(f) EXCEPT !.status = "waiting"]
    /\ selection' = "none"
    /\ UNCHANGED <<fileVars, wasReset, unlogged, daemonUp, failed, stops>>

LogDecision ==
    /\ daemonUp /\ unlogged # NoDecision
    /\ lastDecision' = unlogged /\ unlogged' = NoDecision /\ selection' = "none"
    /\ UNCHANGED <<fileVars, wasReset, daemonUp, failed, stops>>

StopDaemon ==
    /\ daemonUp /\ stops < MaxStops
    /\ daemonUp' = FALSE /\ unlogged' = NoDecision /\ stops' = stops + 1
    /\ UNCHANGED <<fileVars, wasReset, lastDecision, selection, failed>>

StartDaemon ==
    /\ ~daemonUp /\ daemonUp' = TRUE
    /\ UNCHANGED <<fileVars, wasReset, lastDecision, selection, unlogged, failed, stops>>

\* The first fold that has no file and whose months have their foundation.
CreateFold(f) ==
    /\ Decides /\ Lane = {}
    /\ foldFile[f] = <<>> /\ MonthsOf[f] \cap unbuilt = {}
    /\ \A g \in 1 .. f - 1 : foldFile[g] # <<>> \/ MonthsOf[g] \cap unbuilt # {}
    /\ foldFile' = [foldFile EXCEPT ![f] = NewFold]
    /\ UNCHANGED <<lifeVars, errorVars, resetVars, logVars, failed, stops>>

\* The fold is given its foundation again, whether its months have theirs or
\* not, before one of its stages is taken up.
SeedFold(f) ==
    /\ Decides /\ ~Trained(foldFile[f]) /\ foldFile[f][1] = "reset"
    /\ foldFile' = [foldFile EXCEPT ![f] = NewFold]
    /\ UNCHANGED <<lifeVars, errorVars, resetVars, logVars, failed, stops>>

\* The operator resets a fold from stage c on, and some of its months. The
\* readiness record stays, and the stage that is ready keeps the reason of the
\* reset: it is looked at only when the foundation is not there.
ResetFold(f, c) ==
    /\ wasReset[f] = "never"
    /\ foldFile[f] # <<>> /\ \A i \in StageIds : foldFile[f][i] # "started"
    /\ foldFile' = [foldFile EXCEPT ![f] =
           [i \in StageIds |->
               IF i < c THEN @[i]
               ELSE IF c = 1 /\ i = 1 THEN "reset"
               ELSE IF i = c /\ @[i - 1] = "succeeded" THEN "ready"
               ELSE "blocked"]]
    /\ lifecycle' = [lifecycle EXCEPT ![f] = 0]
    /\ \E months \in SUBSET MonthsOf[f] : unbuilt' = unbuilt \cup months
    /\ wasReset' = [wasReset EXCEPT ![f] = IF looking > 0 THEN "now" ELSE "before"]
    /\ UNCHANGED <<frozen, handoff, errorVars, logVars, failed, stops>>

BuildMonth(m) ==
    /\ m \in unbuilt /\ unbuilt' = unbuilt \ {m}
    /\ UNCHANGED <<foldFile, lifeVars, errorVars, wasReset, logVars, failed, stops>>

\* An agent repairs the cause of an open error and asks for a retry.
RepairError(i) ==
    /\ handled[i] = "open"
    /\ handled' = [handled EXCEPT ![i] = "awaiting_retry"]
    /\ UNCHANGED <<foldFile, lifeVars, register, resetVars, logVars, failed, stops>>

RetryStage(f, i) ==
    /\ foldFile[f] # <<>> /\ foldFile[f][i] = "failed"
    /\ handled[i] = "awaiting_retry"
    /\ foldFile' = [foldFile EXCEPT ![f][i] = "ready"]
    /\ UNCHANGED <<lifeVars, errorVars, resetVars, logVars, failed, stops>>

WritersMove ==
    /\ looking < 6
    /\ looking > 0 => moves < MaxMoves
    /\ moves' = IF looking > 0 THEN moves + 1 ELSE moves
    /\ \/ \E f \in Lane : \/ SeedFold(f) \/ BeginStage(f)
                          \/ \E ok \in BOOLEAN : EndStage(f, ok)
                          \/ FreezeDataset(f) \/ AdvanceLifecycle(f)
                          \/ BackOff(f)
       \/ SelectWork \/ LogDecision \/ StopDaemon \/ StartDaemon
       \/ \E f \in FoldIds : CreateFold(f) \/ HandOver(f)
       \/ \E r \in Reruns : ResetFold(r.fold, r.stage)
       \/ \E m \in unbuilt : BuildMonth(m)
       \/ \E i \in StageIds : \/ RepairError(i)
                              \/ \E f \in FoldIds : RetryStage(f, i)
    /\ UNCHANGED viewVars

-----------------------------------------------------------------------------
(* The rows of the list, of what was read: v.                              *)

Visible(v) == {f \in FoldIds : v.files[f] # <<>>}

\* A fold that was reset is held until each of its months has its foundation,
\* or its own foundation is done.
OnHold(v, f) == v.files[f][1] = "reset" /\ MonthsOf[f] \cap v.unbuilt # {}

StageShown(v, f, i) ==
    CASE v.files[f][i] = "succeeded" -> "succeeded"
      [] v.files[f][i] # "succeeded" /\ OnHold(v, f) -> "blocked"
      [] v.files[f][i] = "started" /\ ~OnHold(v, f) -> "running"
      [] v.files[f][i] = "reset" /\ ~OnHold(v, f) -> "ready"
      [] OTHER -> v.files[f][i]

\* A failed stage, or the first that is not done, speaks for its layer.
LayerShown(v, f, l) ==
    LET acquisition == StageShown(v, f, 2 * l - 1)
        model == StageShown(v, f, 2 * l)
    IN  IF "failed" \in {acquisition, model} THEN "failed"
        ELSE IF acquisition # "succeeded" THEN acquisition ELSE model

\* The first ready layer of the fold that the decision names, or of all.
Heads(v) ==
    LET folds == IF v.decision.fold \in Visible(v) THEN {v.decision.fold}
                 ELSE Visible(v)
        ready == {t \in folds \X LayerTasks : LayerShown(v, t[1], t[2]) = "ready"}
    IN  {t \in ready : \A u \in ready :
            t[1] < u[1] \/ (t[1] = u[1] /\ t[2] <= u[2])}

IsCurrent(v, f, l) ==
    \/ <<f, l>> \in Heads(v)
    \/ LayerShown(v, f, l) = "running"
    \/ Heads(v) = {} /\ v.decision.task = l /\ LayerShown(v, f, l) = "ready"

FailedLast(v, f, l) ==
    v.decision = [fold |-> f, task |-> l, status |-> "failed"]

LayerRow(v, f, l) ==
    [fold |-> f, task |-> l, status |-> LayerShown(v, f, l),
     state |-> CASE FailedLast(v, f, l) -> "failed"
                 [] ~FailedLast(v, f, l) /\ LayerShown(v, f, l) = "succeeded"
                       -> "completed"
                 [] ~FailedLast(v, f, l) /\ IsCurrent(v, f, l) -> "current"
                 [] OTHER -> "future"]

\* Its artifacts count once its training is complete.
LifeShown(v, f) == IF v.pre[f] THEN v.life[f] ELSE 0

DatasetFrozen(v, f)    == v.pre[f] /\ v.frozen
ReplayDone(v, f)       == LifeShown(v, f) >= Replayed
ReviewDone(v, f)       == LifeShown(v, f) >= Reviewed
PromotionDecided(v, f) == LifeShown(v, f) >= Rejected
IsRejected(v, f)       == LifeShown(v, f) = Rejected
IsEligible(v, f)       == LifeShown(v, f) >= Eligible
\* The latest readiness record is taken, of whichever fold it is.
HandedOn(v, f)         == IsEligible(v, f) /\ v.handoff

\* What a fold has done after training, and what it is to do.
IsDone(v, f, t) ==
    \/ t = Replay /\ ReplayDone(v, f)
    \/ t = Replay + 1 /\ ReviewDone(v, f)
    \/ t \in {Replay + 2, Promotion} /\ PromotionDecided(v, f)
    \/ t = Maintenance /\ HandedOn(v, f)
IsDue(v, f, t) ==
    \/ t = Replay /\ v.pre[f]
    \/ t = Replay + 1 /\ ReplayDone(v, f)
    \/ t = Replay + 2 /\ ReviewDone(v, f)
    \/ t = Promotion /\ PromotionDecided(v, f)
    \/ t = Maintenance /\ IsEligible(v, f)

LifecycleRow(v, f, t) ==
    LET done == IsDone(v, f, t)
        due  == IsDue(v, f, t)
        can  == IF t = Replay THEN DatasetFrozen(v, f) ELSE due
        skip == t = Maintenance /\ IsRejected(v, f)
    IN  [fold |-> f, task |-> t,
         state |-> CASE done -> "completed"
                     [] skip -> "skipped"
                     [] due /\ ~done /\ ~skip -> "current"
                     [] OTHER -> "future",
         status |-> CASE done -> IF t = Promotion /\ IsRejected(v, f)
                                 THEN "rejected" ELSE "succeeded"
                      [] skip -> "not_applicable"
                      [] can /\ ~done /\ ~skip -> "ready"
                      [] OTHER -> "blocked"]

Rows(v) ==
    {LayerRow(v, f, l) : f \in Visible(v), l \in LayerTasks}
    \cup {LifecycleRow(v, f, t) : f \in Visible(v), t \in LifecycleTasks}

IsTerminal(t) == \/ t.status \in {"succeeded", "not_applicable"}
                 \/ t.state \in {"completed", "skipped"}

\* Mutant: only the open fold itself shows what blocks it.
GatedAlone(rows) ==
    LET open == {t.fold : t \in {u \in rows : ~IsTerminal(u)}}
    IN  {IF open # {} /\ t.fold = Min(open) /\ ~IsTerminal(t)
            /\ t.status = "blocked" /\ t.state # "current"
         THEN [t EXCEPT !.state = "blocked"] ELSE t : t \in rows}

\* The first fold with an open task holds up the later ones.
Gated(rows) ==
    LET open == {t.fold : t \in {u \in rows : ~IsTerminal(u)}}
        Gate(t) ==
            CASE IsTerminal(t) \/ t.fold < Min(open) -> t
              [] ~IsTerminal(t) /\ t.fold > Min(open) ->
                    [t EXCEPT !.state = "blocked", !.status = "blocked"]
              [] ~IsTerminal(t) /\ t.fold = Min(open) ->
                    IF t.status = "blocked" /\ t.state # "current"
                    THEN [t EXCEPT !.state = "blocked"] ELSE t
    IN  IF open = {} THEN rows ELSE {Gate(t) : t \in rows}

\* The rows of the register that are of the layer and of a month of the
\* fold, whichever fold they were written for.
FailuresOf(v, t) ==
    {r \in v.register : LayerOf(r.stage) = t.task /\ r.month \in MonthsOf[t.fold]}

\* The errors of the layer, of any fold.
ErrorsOf(v, t) ==
    {v.handled[i] : i \in {j \in StageIds : LayerOf(j) = t.task}} \ {"none"}

\* A failure that waits makes its task a running one while its error is
\* open, or when no error was ever raised; errors that wait for a retry are
\* taken for closed.
Attached(v, t) ==
    IF /\ FailuresOf(v, t) # {}
       /\ ErrorsOf(v, t) = {} \/ "open" \in ErrorsOf(v, t)
       /\ t.state \notin {"completed", "skipped", "failed"}
    THEN [t EXCEPT !.state = "current", !.status = "running"]
    ELSE t

\* What is to come is not shown.
PublicRows(v) ==
    {t \in {Attached(v, u) : u \in Gated(Rows(v))} : t.state # "future"}

-----------------------------------------------------------------------------
(* The task that is named as the active one, and the status of the whole.  *)

Before(t, u) == t.fold < u.fold \/ (t.fold = u.fold /\ t.task <= u.task)
FirstRow(rows) == {t \in rows : \A u \in rows : Before(t, u)}
Latest(rows) == FirstRow({t \in rows : \A u \in rows : u.task <= t.task})

\* What the transition file says last, and the task it says it of: no row of
\* the list is that of a selection.
Said(v) == CASE v.selection = "none" -> v.decision.status
             [] v.selection = "fold" -> "selected"
             [] v.selection = "held" -> "waiting"
SaidOf(v, t) == v.selection = "none" /\ v.decision.task = t.task

\* The lifecycle task that the daemon is at, the latest of those that are
\* current, the first current layer, the first task that is ready: the second
\* alone when the daemon is down.
ActiveTask(v, rows) ==
    LET current == {t \in rows : t.state = "current"}
        group   == {t \in current : t.task \in LifecycleTasks}
        at      == {t \in group : v.up /\ SaidOf(v, t)}
        ready   == {t \in rows : t.status = "ready"}
        layers  == {t \in ready : t.task \in LayerTasks}
    IN  CASE at # {} -> FirstRow(at)
          [] at = {} /\ group # {} -> Latest(group)
          [] v.up /\ group = {} /\ current # {} -> FirstRow(current)
          [] v.up /\ current = {} /\ ready # {} ->
                FirstRow(IF layers # {} THEN layers ELSE ready)
          [] OTHER -> {}

\* A decision that executed nothing, and a selection, tell of activity, and of
\* a wait when they give a reason of their own. It is compared by its task, not
\* by its fold.
Activity(v) == Said(v) \in {"idle", "waiting", "selected"}
Matches(v, t) == Activity(v) /\ SaidOf(v, t)

\* A fold that was selected is shown as the active task, without a row.
Superseded(v) == v.up /\ v.selection = "fold"
ShownTask(v, rows) == IF Superseded(v) THEN {} ELSE ActiveTask(v, rows)

ShownActive(v, t) ==
    LET waits == Matches(v, t) /\ Said(v) = "waiting"
        moved == Activity(v) /\ ~Matches(v, t)
    IN  CASE ~v.up \/ t.state # "current" -> t
          [] v.up /\ t.state = "current" /\ waits -> [t EXCEPT !.status = "blocked"]
          [] /\ v.up /\ t.state = "current" /\ ~waits
             /\ t.status = "ready" \/ (t.status = "blocked" /\ moved)
                -> [t EXCEPT !.status = "running"]
          [] OTHER -> t

OutcomeTask(rows) == {t \in rows : t.state = "completed" /\ t.status = "rejected"}

\* What is made of the last transition without any row: of its activity, as
\* the active task, or of the reason the workflow is blocked for.
Projected(v) ==
    CASE Said(v) = "waiting" \/ (Said(v) = "idle" /\ ~v.up) -> "blocked"
      [] OTHER -> IF v.up THEN "running" ELSE "ready"

\* The latest failed execution speaks for all; then the active task; then a
\* fold that was rejected, unless the daemon tells of activity.
OwnerStatus(v, rows) ==
    LET active == {ShownActive(v, t) : t \in ShownTask(v, rows)}
    IN  CASE v.decision.status = "failed" ->
                IF v.up THEN "running_with_failure" ELSE "action_required"
          [] v.decision.status # "failed" /\ active # {} ->
                IF \E t \in active : t.status = "blocked" THEN "blocked"
                ELSE IF v.up THEN "running" ELSE "ready"
          [] v.decision.status # "failed" /\ active = {} ->
                IF OutcomeTask(rows) # {} /\ ~(v.up /\ Activity(v)) THEN "complete"
                ELSE Projected(v)

\* Five reads, in this order.
ReadNext ==
    /\ looking \in 0 .. 4
    /\ looking' = looking + 1
    /\ found' = CASE looking = 0 -> [found EXCEPT !.decision = lastDecision,
                                       !.selection = selection, !.up = daemonUp]
                 [] looking = 1 -> [found EXCEPT !.files = foldFile,
                                                !.unbuilt = unbuilt]
                 [] looking = 2 -> [found EXCEPT
                        !.pre = [f \in FoldIds |-> Trained(foldFile[f])],
                        !.life = lifecycle, !.frozen = frozen, !.handoff = handoff]
                 [] looking = 3 -> [found EXCEPT !.handled = handled]
                 [] looking = 4 -> [found EXCEPT !.register = register]
    /\ UNCHANGED <<fileVars, logVars, wasReset, shown, moves, failed, stops>>

\* The list, and the status of the whole, that are made of what was read.
Timeline(v) ==
    LET rows   == PublicRows(v)
        active == ShownTask(v, rows)
    IN  [tasks |-> (rows \ active) \cup {ShownActive(v, t) : t \in active},
         owner |-> OwnerStatus(v, rows)]

ShowTimeline ==
    /\ looking = 5 /\ looking' = 6
    /\ shown' = Timeline(found)
    /\ UNCHANGED <<fileVars, logVars, wasReset, found, moves, failed, stops>>

\* What is shown is looked at at once.
LookAway ==
    /\ looking = 6 /\ looking' = 0
    /\ found' = NothingSeen /\ shown' = NothingShown /\ moves' = 0
    /\ wasReset' = [f \in FoldIds |-> IF wasReset[f] = "now" THEN "before" ELSE wasReset[f]]
    /\ UNCHANGED <<fileVars, logVars, failed, stops>>

TimelineNext == WritersMove \/ ReadNext \/ ShowTimeline \/ LookAway
TimelineSpec == TimelineInit /\ [][TimelineNext]_timelineVars

-----------------------------------------------------------------------------
(* Properties.                                                             *)

DoneBy(t) == CASE t = Replay -> {Replayed, Reviewed, Rejected, Eligible, HandedOver}
               [] t = Replay + 1 -> {Reviewed, Rejected, Eligible, HandedOver}
               [] t \in {Replay + 2, Promotion} -> {Rejected, Eligible, HandedOver}
               [] t = Maintenance -> {HandedOver}

\* A stage of the layer is failed in the checkpoint of the fold.
HasFailed(f, l) == \E i \in StageIds : LayerOf(i) = l /\ foldFile[f][i] = "failed"

\* Nothing is shown as done, or as due, before it is so, unless its fold was
\* reset since the first read; the hand-over of an eligible fold is shown as
\* done with the readiness record of another.
NothingIsAhead ==
    \A t \in shown.tasks : wasReset[t.fold] # "now" =>
        /\ t.task \in LayerTasks /\ (t.state = "completed" \/ t.status = "succeeded") =>
               \A i \in {2 * t.task - 1, 2 * t.task} :
                   foldFile[t.fold][i] = "succeeded"
        /\ t.task \in LifecycleTasks /\ t.state \in {"current", "completed", "skipped"} =>
               Trained(foldFile[t.fold])
        /\ t.task \in LifecycleTasks /\ t.state = "completed" =>
               \/ lifecycle[t.fold] \in DoneBy(t.task)
               \/ t.task = Maintenance /\ lifecycle[t.fold] = Eligible /\ handoff
        /\ t.state = "skipped" => lifecycle[t.fold] = Rejected

\* A task is current or running while an earlier fold, as the list was made,
\* still had to be decided, or handed over before any was, only because the
\* failure register has a row of its layer for a month that both folds contain.
OneFoldAtATime ==
    \A t \in shown.tasks :
        t.state = "current" \/ t.status = "running" =>
            \/ \A f \in 1 .. t.fold - 1 : found.files[f] # <<>> =>
                   /\ Trained(found.files[f]) /\ found.pre[f]
                   /\ \/ found.life[f] \in {Rejected, HandedOver}
                      \/ found.life[f] = Eligible /\ found.handoff
            \/ FailuresOf(found, t) # {}

\* A fold was reset for a rerun.
EverReset == \E f \in FoldIds : wasReset[f] # "never"

\* A failed stage of a checkpoint that was read is missing in the list only
\* when the decision that was read is not that of its failure: the daemon has
\* backed off since, has gone to a fold that was reset, has not logged it yet,
\* had not done so when the log was read, stopped before it could, or the stage
\* was given back meanwhile; and when its error is no longer open, or there is
\* no request to retry.
FailuresAreShown ==
    \A f \in Visible(found), l \in LayerTasks :
        /\ looking = 6 /\ LayerShown(found, f, l) = "failed"
        /\ \A t \in shown.tasks : t.fold # f \/ t.task # l
        => /\ \/ found.decision.fold = f /\ found.decision.status = "idle"
              \/ found.decision.fold # f /\ EverReset
              \/ unlogged = [fold |-> f, task |-> l, status |-> "failed"]
              \/ found.decision # lastDecision
              \/ stops > 0
              \/ ~HasFailed(f, l)
           /\ \/ "open" \notin ErrorsOf(found, LayerRow(found, f, l))
              \/ FailuresOf(found, LayerRow(found, f, l)) = {}

\* A task that is shown as failed although its stages are not is one that was
\* taken up: its error is repaired, or it has failed again since, or its fold is
\* trained by now; unless a fold was reset.
FailedIsKnown ==
    \A t \in shown.tasks : t.state = "failed" =>
        /\ shown.owner \in {"running_with_failure", "action_required"}
        /\ t.status # "failed" =>
               \/ Trained(foldFile[t.fold])
               \/ HasFailed(t.fold, t.task)
               \/ EverReset
               \/ \E i \in StageIds : LayerOf(i) = t.task
                                      /\ handled[i] \in {"awaiting_retry", "closed"}

\* The list of tasks, although its five sources change while it is made, is
\* never ahead of the workflow, shows one fold at work, and hides no failure
\* but for a later decision.
TimelineIsExplained ==
    NothingIsAhead /\ OneFoldAtATime /\ FailuresAreShown /\ FailedIsKnown

=============================================================================
