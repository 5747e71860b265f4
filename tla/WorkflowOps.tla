----------------------------- MODULE WorkflowOps -----------------------------
(* The checkpoint of one historical workflow and the functions that           *)
(* model_training_state.py, model_group_rerun.py and                          *)
(* model_training_invalidation.py apply to it.  Constant level: modules with  *)
(* a state pass the plan and the checkpoint in.                               *)
(*                                                                            *)
(* A plan is a record                                                         *)
(*   order    : the stage ids in plan order (a sequence without repetitions)  *)
(*   layer    : the model layer of each stage                                 *)
(*   blockers : the blockers of each stage.  A blocker names facts about      *)
(*              stages; it is the set of alternatives that meet it, each the  *)
(*              set of stages that must be done.  "<stage>_complete" is one   *)
(*              alternative of one stage, "upstream_model_NN_complete" one of *)
(*              a whole layer, "<layer>.feature_or_input_ready" two of one,   *)
(*              and a blocker nothing in the checkpoint meets is {}.          *)
(*                                                                            *)
(* A checkpoint is a record [status, hold]; hold[s] is "the last_reason of s  *)
(* is a missing option-source SQL coverage", the one reason refresh respects. *)
(* No stage of the plans the repository builds has an approval gate, so the   *)
(* approval branches are left out.                                            *)
EXTENDS Naturals, Sequences

Status == {"pending", "blocked", "ready", "succeeded", "failed", "not_applicable"}

Terminal == {"succeeded", "failed", "not_applicable"}

StagesOf(plan) == {plan.order[i] : i \in DOMAIN plan.order}

IsPlan(plan) ==
    plan \in [order    : Seq(StagesOf(plan)),
              layer    : [StagesOf(plan) -> Nat],
              blockers : [StagesOf(plan) -> SUBSET SUBSET SUBSET StagesOf(plan)]]

\* Blockers look only at stages of the same or an earlier layer.
IsLayered(plan) ==
    \A s \in StagesOf(plan) : \A b \in plan.blockers[s] : \A alternative \in b :
        \A u \in alternative : plan.layer[u] <= plan.layer[s]

\* A set of stages that build on nothing but each other.
StandsAlone(plan, set) ==
    \A s \in set : \A b \in plan.blockers[s] : \E alternative \in b : alternative \subseteq set

Checkpoints(plan) == [status : [StagesOf(plan) -> Status],
                      hold   : [StagesOf(plan) -> BOOLEAN]]

-----------------------------------------------------------------------------
\* A stage that downstream work may build on.
Done(ck, s) == ck.status[s] \in {"succeeded", "not_applicable"}

\* Mutant of BlockerMet: a stage that has ended is one that is done.
BlockerMetByFailure(ck, b) ==
    \E alternative \in b : \A u \in alternative : ck.status[u] \in Terminal

\* _is_satisfied
BlockerMet(ck, b) == \E alternative \in b : \A u \in alternative : Done(ck, u)

\* _blocker_reason returns None.
Unblocked(plan, ck, s) == \A b \in plan.blockers[s] : BlockerMet(ck, b)

\* Mutant of Refresh: a stage that was ready once stays ready.
RefreshSticky(plan, ck) ==
    [ck EXCEPT !.status = [s \in DOMAIN ck.status |->
        IF \/ ck.status[s] \in Terminal \cup {"ready"}
           \/ ck.status[s] = "blocked" /\ ck.hold[s]
        THEN ck.status[s]
        ELSE IF Unblocked(plan, ck, s) THEN "ready" ELSE "blocked"]]

\* refresh_workflow_state: terminal stages and held stages are kept, all others
\* are ready or blocked as their blockers say.  Blockers read terminal statuses
\* only, which the pass does not change, so its order is immaterial.
Refresh(plan, ck) ==
    [ck EXCEPT !.status = [s \in DOMAIN ck.status |->
        IF \/ ck.status[s] \in Terminal
           \/ ck.status[s] = "blocked" /\ ck.hold[s]
        THEN ck.status[s]
        ELSE IF Unblocked(plan, ck, s) THEN "ready" ELSE "blocked"]]

\* _stage_from_plan for every stage, then the refresh of initial_workflow_state.
Initial(plan) ==
    Refresh(plan, [status |-> [s \in StagesOf(plan) |-> "pending"],
                   hold   |-> [s \in StagesOf(plan) |-> FALSE]])

\* next_ready_or_blocked_stage: the first ready stage in plan order, or NoStage.
NextReady(plan, ck, NoStage) ==
    LET first(i) == /\ ck.status[plan.order[i]] = "ready"
                    /\ \A j \in 1..(i - 1) : ck.status[plan.order[j]] # "ready"
    IN  IF \E i \in DOMAIN plan.order : first(i)
        THEN plan.order[CHOOSE i \in DOMAIN plan.order : first(i)]
        ELSE NoStage

\* The test run_scheduler_once makes before it reports month_workflow_complete.
AllDone(plan, ck) == \A s \in StagesOf(plan) : Done(ck, s)

-----------------------------------------------------------------------------
\* mark_stage_started: a terminal stage is left alone; any other keeps its
\* status, but its reason is overwritten, and with it a hold.
Started(ck, s) ==
    IF ck.status[s] \in Terminal THEN ck ELSE [ck EXCEPT !.hold[s] = FALSE]

\* mark_stage_succeeded, whatever the status was.
Succeeded(ck, s) == [ck EXCEPT !.status[s] = "succeeded", !.hold[s] = FALSE]

\* completed_stage_ids of advance_workflow_state: mark_stage_succeeded for each.
AllSucceeded(ck, set) ==
    [status |-> [s \in DOMAIN ck.status |->
                    IF s \in set THEN "succeeded" ELSE ck.status[s]],
     hold   |-> [s \in DOMAIN ck.hold |-> s \notin set /\ ck.hold[s]]]

\* mark_stage_failed, whatever the status was.
Failed(ck, s) == [ck EXCEPT !.status[s] = "failed", !.hold[s] = FALSE]

\* mark_stage_blocked_from_coverage; gap says the reason is a missing option
\* source, which makes the block stick through refreshes.
CoverageBlocked(ck, s, gap) == [ck EXCEPT !.status[s] = "blocked", !.hold[s] = gap]

\* ingest_stage_coverage_reports for one report.  can_unlock_downstream is
\* (status = "ready") in every report stage_coverage.py writes, so a report
\* either succeeds its stage or demotes it.
CoverageApplied(ck, s, report) ==
    IF report = "ready" THEN Succeeded(ck, s)
    ELSE CoverageBlocked(ck, s, report = "source_gap")

\* Mutant of ResetFrom: the stages of the cutpoint's layer only.
ResetLayer(plan, ck, cut) ==
    LET clear(s) == /\ plan.layer[s] = plan.layer[plan.order[cut]]
                    /\ ck.status[s] # "not_applicable"
    IN  Refresh(plan,
            [status |-> [s \in DOMAIN ck.status |->
                            IF clear(s) THEN "pending" ELSE ck.status[s]],
             hold   |-> [s \in DOMAIN ck.hold |-> ~clear(s) /\ ck.hold[s]]])

\* execute_model_group_rerun_reset: every stage from the cutpoint on, in plan
\* order, goes back to pending with no evidence, then the refresh.
ResetFrom(plan, ck, cut) ==
    LET hit == {plan.order[i] : i \in cut..Len(plan.order)}
        clear(s) == s \in hit /\ ck.status[s] # "not_applicable"
    IN  Refresh(plan,
            [status |-> [s \in DOMAIN ck.status |->
                            IF clear(s) THEN "pending" ELSE ck.status[s]],
             hold   |-> [s \in DOMAIN ck.hold |-> ~clear(s) /\ ck.hold[s]]])

\* Mutant of Invalidated: only the layer itself, not the ones built on it.
InvalidatedLayer(plan, ck, floor) ==
    LET hit(s) == plan.layer[s] = floor
                  /\ ck.status[s] \in {"succeeded", "ready", "blocked", "pending"}
    IN  [status |-> [s \in DOMAIN ck.status |->
                        IF hit(s) THEN "failed" ELSE ck.status[s]],
         hold   |-> [s \in DOMAIN ck.hold |-> ~hit(s) /\ ck.hold[s]]]

\* invalidate_layer_downstream_outputs: works on the stored rows, with no
\* refresh before or after.
Invalidated(plan, ck, floor) ==
    LET hit(s) == plan.layer[s] >= floor
                  /\ ck.status[s] \in {"succeeded", "ready", "blocked", "pending"}
    IN  [status |-> [s \in DOMAIN ck.status |->
                        IF hit(s) THEN "failed" ELSE ck.status[s]],
         hold   |-> [s \in DOMAIN ck.hold |-> ~hit(s) /\ ck.hold[s]]]
=============================================================================
