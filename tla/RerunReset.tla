----------------------------- MODULE RerunReset -----------------------------
(* A rerun of the model group from a cutpoint (model_group_rerun.py): the     *)
(* workflow state of a fold is loaded, reset and written, then a receipt asks *)
(* the storage project to clear what the reset invalidated.  A daemon goes on *)
(* executing stages between these steps, storage clears when it gets to it,   *)
(* and an operator's reset may be interrupted.                                *)
(*                                                                            *)
(* The artifacts of a stage lie at a place of its own: a stage that runs      *)
(* again writes where it wrote before.                                        *)
EXTENDS WorkflowOps, FiniteSets

CONSTANTS
    FoldPlan,   \* the plan of the folds, as WorkflowOps takes it; every stage is the first
                \* of its layer and type, so that each is a cutpoint (_stage_order_index)
    Folds,      \* the folds, each with a state of its own
    Operators,  \* processes that reset
    MaxResets   \* bound on resets

ASSUME ResetAssumption ==
    MaxResets \in Nat /\ FoldPlan.order \in Seq(StagesOf(FoldPlan))

VARIABLES
    fold,      \* per fold, its checkpoint
    refs,      \* per fold, the stages with artifact or receipt references
    artifacts,      \* fold and stage of the artifacts that exist
    operator,  \* per operator, where its reset stands and what it holds
    requests,  \* the lifecycle requests in the receipts
    made,      \* resets begun
    rerun,     \* history: per request, the stages executed since its state was written
    torn,      \* history: artifacts of a reset that was interrupted, or that overwrote them
    late,      \* history: artifacts cleared although their stage had run again
    revived    \* history: artifacts whose reset was overwritten by another one
resetVars == <<fold, refs, artifacts, operator, requests, made, rerun, torn, late, revived>>

PlanStages == StagesOf(FoldPlan)
NoneReady == "none"
NoReset == [pc |-> "idle"]

\* affected: the cutpoint and everything behind it in the plan.
Affected(cut) == {FoldPlan.order[i] : i \in cut .. Len(FoldPlan.order)}

\* Mutant: the stage at the cutpoint is not cleared.
SelectsBehind(ck, cut) == {s \in Affected(cut + 1) : ck.status[s] # "not_applicable"}

\* _generated_class_selectors: the stages whose materializations are cleared.
Selects(ck, cut) == {s \in Affected(cut) : ck.status[s] # "not_applicable"}

\* What the receipts ask to clear, once storage gets to it.
Request(number, f, stages, explicit) ==
    [number |-> number, fold |-> f, stages |-> stages, explicit |-> explicit]

ResetInit ==
    /\ fold = [f \in Folds |-> Initial(FoldPlan)]
    /\ refs = [f \in Folds |-> {}]
    /\ artifacts = {} /\ requests = {} /\ made = 0
    /\ operator = [o \in Operators |-> NoReset]
    /\ rerun = [n \in 1 .. MaxResets |-> {}] /\ torn = {} /\ late = {} /\ revived = {}

LoadedFold(f) == Refresh(FoldPlan, fold[f])

\* A tick of the daemon: it neither looks at receipts nor waits for a clearance.
ExecuteStage(f) ==
    LET s == NextReady(FoldPlan, LoadedFold(f), NoneReady)
    IN  /\ s # NoneReady
        /\ fold' = [fold EXCEPT ![f] = Refresh(FoldPlan, Succeeded(LoadedFold(f), s))]
        /\ refs' = [refs EXCEPT ![f] = @ \cup {s}]
        /\ artifacts' = artifacts \cup {<<f, s>>}
        /\ rerun' = [n \in DOMAIN rerun |-> rerun[n] \cup {<<f, s>>}]
        /\ torn' = torn \ {<<f, s>>} /\ late' = late \ {<<f, s>>} /\ revived' = revived \ {<<f, s>>}
        /\ UNCHANGED <<operator, requests, made>>

\* The state and its plan are loaded, and the rerun plan is built from them.
LoadForReset(o, f, cut) ==
    /\ operator[o] = NoReset /\ made < MaxResets
    /\ made' = made + 1
    /\ operator' = [operator EXCEPT ![o] =
           [pc |-> "loaded", number |-> made + 1, fold |-> f, cut |-> cut, ck |-> LoadedFold(f), refs |-> refs[f],
            request |-> Request(made + 1, f, Selects(LoadedFold(f), cut), Affected(cut) \cap refs[f])]]
    /\ UNCHANGED <<fold, refs, artifacts, requests, rerun, torn, late, revived>>

\* _reset_stage forgets the references of what goes back to pending.
Forgets(ck, cut) == {s \in Affected(cut) : ck.status[s] # "not_applicable"}

ResetOf(o) == [ck |-> ResetFrom(FoldPlan, operator[o].ck, operator[o].cut),
             refs |-> operator[o].refs \ Forgets(operator[o].ck, operator[o].cut)]

\* The state is written, over whatever was written since it was loaded.
WriteState(o) ==
    /\ operator[o].pc = "loaded"
    /\ LET f == operator[o].fold
           Undone == {<<f, s>> : s \in refs[f] \ operator[o].refs}
           Again == {<<f, s>> : s \in ResetOf(o).refs \ refs[f]}
       IN  /\ fold' = [fold EXCEPT ![f] = ResetOf(o).ck]
           /\ refs' = [refs EXCEPT ![f] = ResetOf(o).refs]
           /\ torn' = torn \cup Undone
           /\ revived' = revived \cup Again
    /\ operator' = [operator EXCEPT ![o].pc = "written"]
    /\ rerun' = [rerun EXCEPT ![operator[o].number] = {}]
    /\ UNCHANGED <<artifacts, requests, made, late>>

\* _write_reset_receipt
WriteReceipt(o) ==
    /\ operator[o].pc = "written"
    /\ requests' = requests \cup {operator[o].request}
    /\ operator' = [operator EXCEPT ![o] = NoReset]
    /\ UNCHANGED <<fold, refs, artifacts, made, rerun, torn, late, revived>>

\* A reset interrupted between the two writes leaves no request behind.
Interrupt(o) ==
    /\ operator[o] # NoReset
    /\ torn' = IF operator[o].pc = "written"
               THEN torn \cup {<<operator[o].fold, s>> : s \in operator[o].request.stages} ELSE torn
    /\ operator' = [operator EXCEPT ![o] = NoReset]
    /\ UNCHANGED <<fold, refs, artifacts, requests, made, rerun, late, revived>>

\* The storage project (external) executes a request, whatever has run since.
Clear(r) ==
    /\ r \in requests
    /\ requests' = requests \ {r}
    /\ LET hit == {<<r.fold, s>> : s \in r.stages \cup r.explicit}
       IN  /\ artifacts' = artifacts \ hit
           /\ late' = late \cup (hit \cap rerun[r.number])
           /\ torn' = torn \ hit
    /\ UNCHANGED <<fold, refs, operator, made, rerun, revived>>

ResetNext ==
    \/ \E f \in Folds : ExecuteStage(f)
    \/ \E o \in Operators, f \in Folds : \E cut \in DOMAIN FoldPlan.order : LoadForReset(o, f, cut)
    \/ \E o \in Operators : WriteState(o) \/ WriteReceipt(o) \/ Interrupt(o)
    \/ \E r \in requests : Clear(r)
ResetSpec == ResetInit /\ [][ResetNext]_resetVars

-----------------------------------------------------------------------------
(* Properties.                                                                *)

\* An artifact that no stage refers to any more is in a request that storage has
\* still to execute, or in one an operator is about to write: only a reset that
\* was interrupted between state and receipt, or whose state overwrote a stage
\* that ended while it was under way, leaves artifacts that nobody will clear.
OrphansAreListed ==
    \A f \in Folds, s \in PlanStages :
        <<f, s>> \in artifacts /\ s \notin refs[f] =>
            \/ <<f, s>> \in torn
            \/ \E r \in requests : r.fold = f /\ s \in r.stages
            \/ \E o \in Operators :
                  operator[o].pc = "written" /\ operator[o].fold = f /\ s \in operator[o].request.stages

\* A stage that is done has its artifact, unless storage cleared it too late: the
\* receipt demands the clearance before reentry (model_group_rerun.py:680), but
\* nothing makes the scheduler wait for it, and what the stage has written anew
\* is then cleared as what the reset invalidated.  Or unless a second reset, loaded
\* before the first was written, has made the stage done again.
DoneHasItsArtifact ==
    \A f \in Folds, s \in PlanStages :
        fold[f].status[s] = "succeeded" => <<f, s>> \in artifacts \cup late \cup revived

\* Artifacts and the stages that made them stay together, whatever a reset interrupts.
ArtifactsAreAccountedFor == OrphansAreListed /\ DoneHasItsArtifact
=============================================================================
