---------------------------- MODULE SchedulerLoop ---------------------------
(* run_daemon_loop as a service: which target and which work it takes up, the *)
(* checkpoint it keeps of itself, and the guard that reports a scheduler that *)
(* does not get on (handle_scheduler_progress_stall).                         *)
(*                                                                            *)
(* The guard sees only the checkpoint: the reasons of the last selection and  *)
(* of the last decision, and the time of the last executed decision.  Each    *)
(* worker of the loop writes its own idea of the selection there, and the     *)
(* guard compares it with a selection it makes itself.                        *)
EXTENDS SequencesExt, FiniteSetsExt

CONSTANTS
    Months,     \* completed months; fold f needs the months 1 .. f
    Queue,      \* model_training_target_queue.json
    MaxCrashes, \* bound on deaths of the daemon
    MaxByHand   \* bound on what operators do beside it

Month == 1 .. Months
Target == ToSet(Queue)

ASSUME LoopAssumption ==
    /\ Months \in Nat \ {0}
    /\ Queue \in Seq(Target) /\ IsInjective(Queue) /\ Queue # <<>>
    /\ "none" \notin Target   \* the target of a checkpoint that names none
    /\ {MaxCrashes, MaxByHand} \subseteq Nat

VARIABLES
    month,   \* the checkpoint of each month: absent, open or its foundation complete
    lane,    \* of each target and fold: none, open, held (to be replayed),
             \* reviewed (to be evaluated) or done
    enabled, \* the targets of the queue that are enabled
    disk,    \* historical_scheduler_state.json
    mem,     \* the same in the running daemon
    active,  \* the month it last took up
    at,
    turn,    \* of this iteration: target, the fold that holds its lane (0 for none),
             \* and whether a worker has decided anything
    busy,    \* another process keeps a running task's progress fresh
    crashes, byHand,
    idle,    \* history: nothing has been executed for the length of the window
    alarms,  \* history: stalls reported since something was executed
    lapsed   \* history: the daemon has died since something was executed

loopVars == <<month, lane, enabled, disk, mem, active, at, turn, busy, crashes, byHand,
              idle, alarms, lapsed>>

world == <<month, lane, enabled>>
history == <<idle, alarms, lapsed>>
bounds == <<crashes, byHand>>

\* Reasons the daemon is known to make no progress for
\* (_scheduler_waiting_for_known_nonprogress_boundary).
BoundaryReasons == {"waiting", "lifecycle holds", "evaluation complete"}

Reasons == BoundaryReasons \union
    {"none", "bootstrap", "open fold", "gap", "fold ready", "open month", "next month",
     "worker selected", "lifecycle ready", "evaluation ready"}

-----------------------------------------------------------------------------
(* Selections.                                                                *)

In(status) == {m \in Month : month[m] = status}
Known == Month \ In("absent")

FoldsOf(t, statuses) == {f \in Month : lane[t][f] \in statuses}

\* model_group_lifecycle_blocks_next_fold
Held(t) == FoldsOf(t, {"held", "reviewed"})

\* The first fold without a state file whose months are complete.
Unopened(t) ==
    LET ready == {f \in FoldsOf(t, {"none"}) : 1 .. f \subseteq In("complete")}
    IN  IF ready = {} THEN {} ELSE {Min(ready)}

\* Months before the last known one that have no checkpoint.
Gaps(from) == {m \in In("absent") : from <= m /\ \E n \in Known : m < n}

\* select_next_historical_work
Selection(t, from) ==
    LET sel(scope, reason) == [scope |-> scope, reason |-> reason,
                               done |-> In("complete"), open |-> In("open"), target |-> t]
    IN  IF FoldsOf(t, {"open"}) # {} THEN sel(<<"fold", Min(FoldsOf(t, {"open"}))>>, "open fold")
        ELSE IF Held(t) # {} THEN sel(<<"fold", Min(Held(t))>>, "lifecycle holds")
        ELSE IF Gaps(from) # {} THEN sel(<<"month", Min(Gaps(from))>>, "gap")
        ELSE IF Unopened(t) # {} THEN sel(<<"fold", Min(Unopened(t))>>, "fold ready")
        ELSE IF In("open") # {} THEN sel(<<"month", Min(In("open"))>>, "open month")
        ELSE IF Known = {} THEN sel(<<"month", from>>, "bootstrap")
        ELSE IF Known = Month THEN sel(<<"month", Months>>, "waiting")
        ELSE sel(<<"month", Max(Known) + 1>>, "next month")

\* Mutant: a pin that names no enabled target is filled in from the end of the queue.
ActiveLast(asked) ==
    IF asked \in enabled THEN asked ELSE Queue[Max({i \in DOMAIN Queue : Queue[i] \in enabled})]

\* active_model_worker_target_symbol
Active(asked) ==
    IF asked \in enabled THEN asked ELSE Queue[Min({i \in DOMAIN Queue : Queue[i] \in enabled})]

\* apply_auto_work_selection: what the checkpoint says of the selection is replaced
\* when any part of it differs.
Refreshed(s, from) ==
    LET sel == Selection(Active(s.target), from)
    IN  [field \in DOMAIN s |-> IF field \in DOMAIN sel THEN sel[field] ELSE s[field]]

\* select_month_ingest_worker_months
IngestMonths(t) ==
    IF FoldsOf(t, {"open"}) \union Held(t) \union Unopened(t) # {} THEN {}
    ELSE IF Gaps(active) # {} THEN {Min(Gaps(active))}
    ELSE IF In("open") # {} THEN {Min(In("open"))}
    ELSE IF Known = {} THEN {active}
    ELSE {m \in Month : m = Max(Known) + 1}

-----------------------------------------------------------------------------
NewState == [scope |-> <<"month", 1>>, reason |-> "none", done |-> {}, open |-> {}, target |-> "none",
             atBoundary |-> FALSE, recent |-> TRUE, alarmed |-> FALSE]

LoopInit ==
    /\ month = [m \in Month |-> "absent"]
    /\ lane = [t \in Target |-> [f \in Month |-> "none"]]
    /\ enabled = Target
    /\ disk = NewState /\ mem = NewState
    /\ active = 1
    /\ at = "start"
    /\ turn = [target |-> Head(Queue), block |-> 0, decided |-> FALSE]
    /\ busy = FALSE
    /\ crashes = 0 /\ byHand = 0
    /\ idle = FALSE /\ alarms = 0 /\ lapsed = FALSE

GoOn(label) == at' = label

Start ==
    /\ at = "start"
    /\ mem' = Refreshed(disk, 1)
    /\ active' = mem'.scope[2]
    /\ GoOn("top")
    /\ UNCHANGED <<world, disk, turn, busy, bounds, history>>

\* The target of the state file is asked for: the loop never leaves it open.
Top ==
    /\ at = "top"
    /\ LET t == Active(mem.target)
       IN  turn' = [target |-> t, block |-> IF Held(t) = {} THEN 0 ELSE Min(Held(t)), decided |-> FALSE]
    /\ GoOn("ingest")
    /\ UNCHANGED <<world, disk, mem, active, busy, bounds, history>>

\* Mutant: a report of a stall is remembered for good.
DecidedAlarmed(s, outcome) ==
    [s EXCEPT !.atBoundary = outcome = "known wait", !.recent = @ \/ outcome = "executed"]

\* update_state_from_decision
Decided(s, outcome) ==
    [s EXCEPT !.atBoundary = outcome = "known wait",
              !.recent = @ \/ outcome = "executed",
              !.alarmed = @ /\ outcome # "executed"]

Progress(outcome) ==
    IF outcome = "executed" THEN idle' = FALSE /\ alarms' = 0 /\ lapsed' = FALSE
                            ELSE UNCHANGED history

\* A worker that raises leaves the selection alone (update_state_from_error).
Raise ==
    /\ at \in {"ingest", "model", "lifecycle", "evaluation"}
    /\ mem' = [mem EXCEPT !.atBoundary = FALSE]
    /\ GoOn("stall")
    /\ UNCHANGED <<world, disk, active, turn, busy, bounds, history>>

\* One stage of the month's foundation: a month that is executed may be complete.
Ingest(outcome) ==
    LET work == IF turn.block # 0 THEN {} ELSE IngestMonths(turn.target) IN
    /\ at = "ingest"
    /\ \/ work = {} /\ outcome = "none" /\ UNCHANGED <<month, mem, active, turn, history>>
       \/ \E m \in work, s \in {"open", "complete"} :
             /\ outcome \in {"executed", "backoff"} /\ (s = "complete" => outcome = "executed")
             /\ month' = [month EXCEPT ![m] = s]
             /\ active' = m
             /\ turn' = [turn EXCEPT !.decided = TRUE]
             /\ mem' = Decided([mem EXCEPT !.scope = <<"month", m>>, !.open = {m}], outcome)
             /\ Progress(outcome)
    /\ GoOn("model")
    /\ UNCHANGED <<lane, enabled, disk, busy, bounds>>

\* select_model_worker_target and select_model_worker_fold with the target pinned
Folds(t) ==
    IF Held(t) # {} THEN {}
    ELSE IF FoldsOf(t, {"open"}) # {} THEN {Min(FoldsOf(t, {"open"}))}
    ELSE Unopened(t)

Model(outcome) ==
    LET work == IF turn.block # 0 THEN {} ELSE Folds(turn.target) IN
    /\ at = "model"
    /\ \/ work = {} /\ outcome = "none" /\ UNCHANGED <<lane, mem, turn, history>>
       \/ \E f \in work, s \in {"open", "held"} :
             /\ outcome \in {"executed", "backoff"} /\ (s = "held" => outcome = "executed")
             /\ lane' = [lane EXCEPT ![turn.target][f] = s]
             /\ turn' = [turn EXCEPT !.decided = TRUE]
             /\ mem' = Decided([mem EXCEPT !.scope = <<"fold", f>>, !.reason = "worker selected",
                                           !.open = 1 .. f, !.target = turn.target], outcome)
             /\ Progress(outcome)
    /\ GoOn("lifecycle")
    /\ UNCHANGED <<month, enabled, disk, active, busy, bounds>>

\* The workers of the lifecycle, from the replay dataset to the review: one of them
\* stands for all.  What holds the lane need not give any of them work.
Lifecycle(outcome) ==
    LET work == FoldsOf(turn.target, {"held"}) IN
    /\ at = "lifecycle"
    /\ \/ outcome = "none" /\ UNCHANGED <<lane, mem, turn, history>>
       \/ \E f \in work, s \in {"held", "reviewed"} :
             /\ outcome # "none" /\ (s = "reviewed" => outcome = "executed")
             /\ lane' = [lane EXCEPT ![turn.target][f] = s]
             /\ turn' = [turn EXCEPT !.decided = TRUE]
             /\ mem' = Decided([mem EXCEPT !.scope = <<"month", active>>, !.reason = "lifecycle ready"], outcome)
             /\ Progress(outcome)
    /\ GoOn("evaluation")
    /\ UNCHANGED <<month, enabled, disk, active, busy, bounds>>

\* The evaluation.  When it has nothing either and the lifecycle held the lane, the
\* checkpoint says so if nothing was decided in the whole iteration.
Evaluation(outcome) ==
    LET work == FoldsOf(turn.target, {"reviewed"}) IN
    /\ at = "evaluation"
    /\ \/ /\ outcome = "none"
          /\ mem' = IF turn.block # 0 /\ ~turn.decided
                    THEN [mem EXCEPT !.scope = <<"fold", turn.block>>,
                                     !.reason = "lifecycle holds", !.target = turn.target]
                    ELSE mem
          /\ UNCHANGED <<lane, history>>
       \/ \E f \in work :
             /\ outcome \in {"executed", "backoff"}
             /\ lane' = [lane EXCEPT ![turn.target][f] = IF outcome = "executed" THEN "done" ELSE @]
             /\ mem' = [Decided([mem EXCEPT !.scope = <<"month", active>>], outcome) EXCEPT
                           !.reason = IF outcome = "executed" THEN "evaluation complete" ELSE "evaluation ready",
                           !.atBoundary = outcome = "executed"]
             /\ Progress(outcome)
    /\ GoOn("stall")
    /\ UNCHANGED <<month, enabled, disk, active, turn, busy, bounds>>

NeedsReport(s) == ~s.alarmed

\* handle_scheduler_progress_stall: a new selection takes the place of a report.
Stall ==
    LET known(s) == s.reason \in BoundaryReasons \/ s.atBoundary
        fresh    == Refreshed(mem, mem.scope[2])
    IN
    /\ at = "stall"
    /\ IF known(mem) \/ mem.recent \/ busy THEN UNCHANGED <<mem, alarms>>
       ELSE IF fresh # mem /\ (known(fresh) \/ fresh.reason # "bootstrap")
            THEN mem' = fresh /\ UNCHANGED alarms
       ELSE IF NeedsReport(mem) THEN mem' = [mem EXCEPT !.alarmed = TRUE] /\ alarms' = alarms + 1
       ELSE UNCHANGED <<mem, alarms>>
    /\ GoOn("write")
    /\ UNCHANGED <<world, disk, active, turn, busy, bounds, idle, lapsed>>

\* write_daemon_state and the sleep that follows
WriteState ==
    /\ at = "write"
    /\ disk' = mem
    /\ GoOn("top")
    /\ UNCHANGED <<world, mem, active, turn, busy, bounds, history>>

-----------------------------------------------------------------------------
(* The rest of the system.                                                    *)

\* A whole window passes.
Age ==
    /\ mem' = [mem EXCEPT !.recent = FALSE] /\ disk' = [disk EXCEPT !.recent = FALSE]
    /\ idle' = TRUE
    /\ UNCHANGED <<world, active, at, turn, busy, bounds, alarms, lapsed>>

\* The service manager starts the daemon again.
CrashLoop ==
    /\ at # "start"
    /\ crashes < MaxCrashes
    /\ crashes' = crashes + 1
    /\ mem' = disk
    /\ lapsed' = TRUE
    /\ GoOn("start")
    /\ UNCHANGED <<world, disk, active, turn, busy, byHand, idle, alarms>>

Move ==
    /\ byHand < MaxByHand
    /\ byHand' = byHand + 1
    /\ UNCHANGED <<disk, mem, active, at, turn, crashes, history>>

DisableTarget ==
    /\ Move
    /\ \E t \in enabled : enabled # {t} /\ enabled' = enabled \ {t}
    /\ UNCHANGED <<month, lane, busy>>

\* A reviewed dispatch or a repair by hand completes a month.
WorkByHand ==
    /\ Move
    /\ \E m \in In("open") : month' = [month EXCEPT ![m] = "complete"]
    /\ UNCHANGED <<lane, enabled, busy>>

\* A reset of the checkpoints sends a month back.
Reset ==
    /\ Move
    /\ \E m \in In("complete") : month' = [month EXCEPT ![m] = "open"]
    /\ UNCHANGED <<lane, enabled, busy>>

RunTask == Move /\ busy' = ~busy /\ UNCHANGED world

Outcomes == {"none", "executed", "backoff", "known wait"}

Iteration ==
    \/ Start \/ Top \/ Stall \/ WriteState
    \/ \E outcome \in Outcomes :
          Ingest(outcome) \/ Model(outcome) \/ Lifecycle(outcome) \/ Evaluation(outcome)

LoopNext ==
    \/ Iteration \/ Raise
    \/ Age \/ CrashLoop
    \/ DisableTarget \/ WorkByHand \/ Reset \/ RunTask

LoopSpec == LoopInit /\ [][LoopNext]_loopVars

\* The loop never ends, whether its workers raise or not, and time passes.
FairLoopSpec == LoopSpec /\ WF_loopVars(Iteration \/ Raise) /\ WF_loopVars(Age)

-----------------------------------------------------------------------------
(* Properties.                                                                *)

\* The checkpoint the daemon keeps of itself and the lanes it works on have their
\* types, and of a target at most one fold is under way
\* (select_model_worker_fold, model_group_lifecycle_blocks_next_fold).
LoopTypeOK ==
    LET State == [scope : {"month", "fold"} \X Month, reason : Reasons, done : SUBSET Month,
                  open : SUBSET Month, target : Target \union {"none"},
                  atBoundary : BOOLEAN, recent : BOOLEAN, alarmed : BOOLEAN]
    IN  /\ month \in [Month -> {"absent", "open", "complete"}]
        /\ mem \in State /\ disk \in State
        /\ \A t \in Target : Cardinality(FoldsOf(t, {"open", "held", "reviewed"})) <= 1

\* The targets before a target in the queue keep it from starting, whether they have
\* anything left to do or not: it starts when operators have disabled them
\* (active_model_worker_target_symbol as run_daemon_loop calls it).
RotationIsByHand ==
    [][\A i \in DOMAIN Queue :
          LET t == Queue[i] IN
          lane[t] # lane'[t] => \A j \in 1 .. i - 1 : Queue[j] \notin enabled]_loopVars

\* Why the guard may stay silent for ever although nothing is executed.
Silenced ==
    LET t == Active(mem.target) IN
    \/ busy                                   \* somebody else works
    \/ Held(t) # {}                           \* the lifecycle owns the lane
    \/ IngestMonths(t) \union Folds(t) = {}   \* there is nothing to do
    \/ FoldsOf(t, {"open"}) # {}              \* the worker and the guard disagree
    \/ Cardinality(In("open")) > 1            \* and so they do here
    \/ mem.reason \in BoundaryReasons         \* the reason of what is over is kept
    \/ lapsed /\ mem.alarmed                  \* the progress since a report died with the daemon

\* A daemon that executes nothing for ever reports that, or one of the reasons above
\* holds again and again (handle_scheduler_progress_stall).
SilenceHasCause == <>[](idle /\ alarms = 0) => []<>Silenced
==============================================================================
