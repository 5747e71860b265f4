----------------------------- MODULE WorkflowPlan -----------------------------
(* The plan that build_model_training_workflow_plan makes for a scope, and a  *)
(* workflow that one scheduler process takes through it: the next ready stage *)
(* runs, stages fail, resets and invalidations reopen work.  What the modules *)
(* above WorkflowOps take as a constant Plan is computed here.                *)
(*                                                                            *)
(* A stage is a pair <<layer, kind>>; "option_chain", "data" are the stages of*)
(* type data_acquisition, the three splits and the checkpoint those of type   *)
(* model_generation.                                                          *)
EXTENDS WorkflowOps, FiniteSets

CONSTANTS
    Scopes,      \* the scopes considered
    MaxFailures, \* bound on stages that fail
    MaxRevisions \* bound on resets and invalidations

\* fold: the window is the eighteen months of a 12+3+3 fold, else a month
\* foundation: foundation_catch_up_only; target: a target symbol is selected
\* overlay: the target has listed options (always assumed without a target)
AllScopes == [fold : BOOLEAN, foundation : BOOLEAN, target : BOOLEAN, overlay : BOOLEAN]

ASSUME ScopesAssumption ==
    /\ Scopes \subseteq {c \in AllScopes : c.target \/ c.overlay}
    /\ MaxFailures \in Nat /\ MaxRevisions \in Nat

VARIABLES
    scope,
    inputs, \* what has arrived of the inputs blockers outside the checkpoint ask for
    plan,   \* the plan as it is built now
    ck,     \* the checkpoint
    stale,  \* history: stages that something they build on was executed after
    budget

vars == <<scope, inputs, plan, ck, stale, budget>>

-----------------------------------------------------------------------------
(* LAYER_METADATA and the constants of model_training_workflow.py             *)
Layers == 1..5

\* Mutant of DependsOn: the decision layer forgets the event layer.
DependsWithoutEvents == <<{}, {1}, {1, 2}, {1, 2}, {4}>>

DependsOn == <<{}, {1}, {1, 2}, {1, 2, 3}, {4}>>

InputLayers == {1, 2, 3, 5}
FeatureLayers == {1, 2, 5}
FoundationLayers == {1}
MonthlySubstrateLayers == {1}
Splits == {"train", "validation", "test"}

\* The kinds of stages, and where a stage of each stands in its layer.
Kinds == [option_chain |-> 1, data |-> 2, feature |-> 3, train |-> 4, validation |-> 5,
          test |-> 6, checkpoint |-> 7]

\* include_input_stage
HasInput(c, l) ==
    /\ l \in InputLayers
    /\ l \in FoundationLayers \/ (~c.foundation /\ (c.fold \/ l \in {1, 2, 3}))

\* Which stages _build_layer_workflow appends.
Has(c, s) ==
    LET l == s[1]
        generates == ~c.foundation /\ c.fold
    IN  \/ s[2] = "option_chain" /\ l = 5 /\ HasInput(c, l) /\ c.overlay
        \/ s[2] = "data" /\ l # 5 /\ HasInput(c, l)
        \/ /\ s[2] = "feature" /\ l \in FeatureLayers
           /\ IF l = 5 THEN generates /\ c.overlay
              ELSE HasInput(c, l) /\ (l \in MonthlySubstrateLayers \/ c.fold)
        \/ s[2] \in Splits /\ generates
        \/ s[2] = "checkpoint" /\ l = 5 /\ generates

StagesFor(c) == {s \in Layers \X DOMAIN Kinds : Has(c, s)}

\* Layer by layer, in the order the stages are appended.
Place(s) == 7 * s[1] + Kinds[s[2]]

Order(c) ==
    LET stages == StagesFor(c)
        before(s) == {t \in stages : Place(t) < Place(s)}
    IN  [n \in 1..Cardinality(stages) |->
            CHOOSE s \in stages : Cardinality(before(s)) = n - 1]

-----------------------------------------------------------------------------
(* Blockers, as WorkflowOps reads them.  {} is a blocker nothing meets.       *)
Unmet == {}

\* "<stage_id>_complete"
StageComplete(c, s) == IF Has(c, s) THEN {{s}} ELSE Unmet

\* "upstream_model_NN_model_generation_complete": all three splits, which a plan
\* without generation stages never has.
Generated(c, l) ==
    LET splits == {<<l, split>> : split \in Splits}
    IN  IF \A s \in splits : Has(c, s) THEN {splits} ELSE Unmet

\* "upstream_model_NN_complete", asked for while foundation_catch_up_only
LayerComplete(c, l) ==
    LET stages == {s \in StagesFor(c) : s[1] = l}
    IN  IF stages = {} THEN Unmet ELSE {stages}

\* "<layer_key>.feature_or_input_ready"
FeatureOrInput(c, l) == {{s} : s \in {t \in {<<l, "feature">>, <<l, "data">>} : Has(c, t)}}

\* _upstream_model_ready_blockers
Upstream(c, l) ==
    {IF c.foundation THEN LayerComplete(c, u) ELSE Generated(c, u) : u \in DependsOn[l]}

\* _with_target_blocker
Target(c, s) ==
    IF /\ s[1] >= 2 /\ ~c.target
       /\ ~(s[1] = 3 /\ s[2] \in {"data", "feature"})
    THEN {Unmet} ELSE {}

Waiting(arrived, input) == IF input \in arrived THEN {} ELSE {Unmet}

\* Mutant of TrainBlockers: the option stages are waited for without an overlay.
TrainWithOptions(c, l) ==
    Upstream(c, l) \cup (IF HasInput(c, l) THEN {FeatureOrInput(c, l)} ELSE {})

\* The blockers of the first split of a layer.
TrainBlockers(c, l) ==
    Upstream(c, l) \cup
        (IF (IF l = 5 THEN c.overlay ELSE HasInput(c, l)) THEN {FeatureOrInput(c, l)} ELSE {})

\* The acquisition_blockers of the layers that have a data stage.
DataBlockers(c, arrived, l) ==
    Upstream(c, l) \cup
    CASE l = 1 -> Waiting(arrived, "task_keys")
      [] l = 2 -> IF c.target THEN Waiting(arrived, "feeds") ELSE {}
      [] l = 3 -> {FeatureOrInput(c, 1)}

Blockers(c, arrived, s) ==
    LET l == s[1] IN
    Target(c, s) \cup
    CASE s[2] = "data" -> DataBlockers(c, arrived, l)
      [] s[2] = "option_chain" -> Upstream(c, l)
      [] s[2] = "feature" ->
            Upstream(c, l) \cup {StageComplete(c, <<l, IF l = 5 THEN "option_chain" ELSE "data">>)}
      [] s[2] = "train"      -> TrainBlockers(c, l)
      [] s[2] = "validation" -> {StageComplete(c, <<l, "train">>)}
      [] s[2] = "test"       -> {StageComplete(c, <<l, "validation">>)}
      [] s[2] = "checkpoint" -> {StageComplete(c, <<l, "test">>)}

PlanFor(c, arrived) ==
    [order    |-> Order(c),
     layer    |-> [s \in StagesFor(c) |-> s[1]],
     blockers |-> [s \in StagesFor(c) |-> Blockers(c, arrived, s)]]

-----------------------------------------------------------------------------
Inputs == {"task_keys", "feeds"}

Stage == StagesOf(plan)
NoStage == <<0, "none">>

\* The stages a stage builds on.
Uses(s) == UNION UNION plan.blockers[s]

Init ==
    /\ scope \in Scopes
    /\ inputs = {}
    /\ plan = PlanFor(scope, {})
    /\ ck = Initial(plan)
    /\ stale = {}
    /\ budget = [fail |-> MaxFailures, revise |-> MaxRevisions]

\* Task keys are prepared, target-local feeds acquired.
Arrive ==
    /\ \E input \in Inputs \ inputs : inputs' = inputs \cup {input}
    /\ plan' = PlanFor(scope, inputs')
    /\ UNCHANGED <<scope, ck, stale, budget>>

Loaded == Refresh(plan, ck)

\* The stage a tick would run: one, or none.
Runnable == {NextReady(plan, Loaded, NoStage)} \ {NoStage}

\* It runs and succeeds: what builds on an earlier run of it is stale from now on.
Execute ==
    /\ \E s \in Runnable :
          /\ ck' = Refresh(plan, Succeeded(Loaded, s))
          /\ stale' = (stale \ {s}) \cup {t \in Stage : s \in Uses(t) /\ Done(ck, t)}
    /\ UNCHANGED <<scope, inputs, plan, budget>>

Fail ==
    /\ budget.fail > 0
    /\ \E s \in Runnable : ck' = Failed(Loaded, s)
    /\ budget' = [budget EXCEPT !.fail = @ - 1]
    /\ UNCHANGED <<scope, inputs, plan, stale>>

\* The stage_type of a stage.
Type(s) ==
    CASE s[2] \in {"option_chain", "data"} -> "data_acquisition"
      [] s[2] = "feature" -> "feature_generation"
      [] OTHER -> "model_generation"

\* A rerun is asked for by layer and stage type: the first such stage is the cut.
Cutpoints ==
    LET scopeOf(i) == <<plan.order[i][1], Type(plan.order[i])>>
    IN  {i \in DOMAIN plan.order : \A j \in 1..(i - 1) : scopeOf(j) # scopeOf(i)}

\* execute_model_group_rerun_reset
Reset ==
    /\ budget.revise > 0
    /\ \E cut \in Cutpoints : ck' = ResetFrom(plan, Loaded, cut)
    /\ budget' = [budget EXCEPT !.revise = @ - 1]
    /\ UNCHANGED <<scope, inputs, plan, stale>>

\* invalidate_layer_downstream_outputs
Invalidate ==
    /\ budget.revise > 0
    /\ \E floor \in Layers : ck' = Invalidated(plan, ck, floor)
    /\ budget' = [budget EXCEPT !.revise = @ - 1]
    /\ UNCHANGED <<scope, inputs, plan, stale>>

Next == Arrive \/ Execute \/ Fail \/ Reset \/ Invalidate

Spec == Init /\ [][Next]_vars

\* Inputs arrive and a scheduler ticks.
FairSpec == Spec /\ WF_vars(Arrive) /\ WF_vars(Execute)

-----------------------------------------------------------------------------
TypeOK ==
    /\ scope \in Scopes
    /\ inputs \subseteq Inputs
    /\ plan = PlanFor(scope, inputs)
    /\ ck \in Checkpoints(plan)
    /\ stale \subseteq Stage
    /\ budget \in [fail : Nat, revise : Nat]

\* A fold is generated in chronological and layer order, through failures,
\* resets and invalidations: a layer's split is done only with the splits before
\* it, and with every split of every earlier layer.
FoldIsChronological ==
    \A s \in Stage : s[2] \in Splits /\ Done(ck, s) =>
        \A t \in Stage : t[2] \in Splits =>
            \/ Done(ck, t)
            \/ t[1] > s[1]
            \/ t[1] = s[1] /\ <<s[2], t[2]>> \in
                  {<<"train", "validation">>, <<"train", "test">>, <<"validation", "test">>,
                   <<"train", "train">>}

\* A stage that is done was computed from the latest run of everything that it
\* builds on: a reset or an invalidation reaches all that was derived from what
\* is going to be executed again.
NothingDoneIsStale == \A s \in stale : ~Done(ck, s)

\* Both: what is done stands in the order of the fold and on what was computed last.
DoneIsCurrent == FoldIsChronological /\ NothingDoneIsStale

\* Exactly two kinds of workflow stop short of their end without a failure: a
\* month past the foundation, whose second layer waits for generation stages
\* that only folds have, and a fold without a target.
NeverEnds == ~scope.foundation /\ (~scope.fold \/ ~scope.target)
OnlyKnownScopesStall ==
    <>[](IF NeverEnds THEN ~AllDone(plan, ck)
         ELSE AllDone(plan, ck) \/ \E s \in Stage : ck.status[s] = "failed")
=============================================================================
