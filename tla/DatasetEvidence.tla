-------------------------- MODULE DatasetEvidence --------------------------
(***************************************************************************)
(* What the manager knows of the datasets that models were built from, and *)
(* which dataset it asks for next: dataset_evidence.py reads the model     *)
(* tables, dataset_expansion.py and information_pass.py decide from what   *)
(* it read.                                                                *)
(*                                                                         *)
(* The tables are written by the model components while they are read.     *)
(* One connection reads them with a query each and no isolation above      *)
(* read-committed, so every query sees the tables as they are then; no     *)
(* query orders its rows, so the snapshots arrive in the order the         *)
(* database keeps them, and rewriting a row moves it to the end.           *)
(***************************************************************************)
EXTENDS Integers, Sequences, FiniteSetsExt, SequencesExt

CONSTANTS
    ModelLayers,    \* the numbers of the models in the stack
    DependsOn,      \* [ModelLayers -> SUBSET ModelLayers]
    TargetFrom,     \* the first model that is built for one target
    MinimumMonths,  \* [SplitRoles -> Nat], the months a role must cover
    SplitNames,     \* the names a component gives to a split of a dataset
    RoleNamed,      \* [SplitNames -> SplitRoles], the role a name stands for,
                    \* or another value for none
    Shapes,         \* the splits a snapshot may have: sets of
                    \* [name, first, last]
    MaxSnapshots,   \* bound: snapshots ever built
    MaxFacts,       \* bound: labels, evaluations and failures
    MaxReads        \* bound: collections of evidence

MinimumRoles == <<"train", "calibration", "validation", "test">>
SplitRoles == Range(MinimumRoles) \cup {"forward_holdout", "shadow_monitoring"}
ForwardGaps == {"coverage", "drift", "split_stability", "stale_holdout",
                "regime_coverage", "baseline_instability"}

VARIABLES
    snapshots,   \* the snapshot rows [id, layer] in the database's order
    splits,      \* the split rows [snapshot, name, first, last]
    labelled,    \* snapshots with evaluation labels
    evalRuns,    \* [snapshot, layer, ok]: evaluation runs, and their success
    failures,    \* [run, gap]: promotion metrics that tell of a gap
    query,       \* how many tables the collection in progress has read, 0: none
    rows,        \* the rows it has read
    evidence,    \* the evidence file: the rows it was made of, or NoRows
    expansion,   \* the plan last written, or NoPlan
    prepared,    \* whether the payloads of the first model were prepared
    reads        \* collections so far

evidenceTables == <<snapshots, splits, labelled, evalRuns, failures>>
evidenceVars == <<snapshots, splits, labelled, evalRuns, failures, query, rows,
                  evidence, expansion, prepared, reads>>

\* A model is built upon models below it (LAYER_METADATA), every role has a
\* minimum (DEFAULT_MINIMUM_MONTHS), and a snapshot has finitely many splits.
ASSUME EvidenceAssumption ==
    /\ ModelLayers \subseteq Nat
    /\ DependsOn \in [ModelLayers -> SUBSET ModelLayers]
    /\ \A l \in ModelLayers : \A d \in DependsOn[l] : d < l
    /\ MinimumMonths \in [SplitRoles -> Nat \ {0}]
    /\ \A shape \in Shapes :
           /\ IsFiniteSet(shape)
           /\ \A s \in shape : s \in [name : SplitNames, first : Int, last : Int]

NoPlan == [status |-> "none"]
NoRows == [snapshots |-> <<>>, splits |-> {}, labelled |-> {}, evalRuns |-> {},
           failures |-> {}]

EvidenceInit ==
    /\ snapshots = <<>> /\ splits = {} /\ labelled = {} /\ evalRuns = {}
    /\ failures = {}
    /\ query = 0 /\ rows = NoRows
    /\ evidence = NoRows
    /\ expansion = NoPlan
    /\ prepared = FALSE /\ reads = 0

-----------------------------------------------------------------------------
(* The model components. *)

BuildSnapshot(l, shape) ==
    LET id == Len(snapshots) + 1
    IN  /\ id <= MaxSnapshots
        /\ snapshots' = Append(snapshots, [id |-> id, layer |-> l])
        /\ splits' = splits \cup
               {[snapshot |-> id, name |-> s.name, first |-> s.first,
                 last |-> s.last] : s \in shape}
        /\ UNCHANGED <<labelled, evalRuns, failures>>

\* An update of a snapshot's row: the row moves to the end.
RewriteSnapshot(i) ==
    /\ i < Len(snapshots)
    /\ snapshots' = Append(RemoveAt(snapshots, i), snapshots[i])
    /\ UNCHANGED <<splits, labelled, evalRuns, failures>>

LabelSnapshot(id) ==
    /\ labelled' = labelled \cup {id}
    /\ UNCHANGED <<snapshots, splits, evalRuns, failures>>

\* A run may end without success, and its metrics follow it.
EvaluateSnapshot(s, ok) ==
    /\ evalRuns' = evalRuns \cup
           {[snapshot |-> s.id, layer |-> s.layer, ok |-> ok]}
    /\ UNCHANGED <<snapshots, splits, labelled, failures>>

ReportFailure(run, gap) ==
    /\ failures' = failures \cup {[run |-> run, gap |-> gap]}
    /\ UNCHANGED <<snapshots, splits, labelled, evalRuns>>

FactsKnown ==
    Cardinality(labelled) + Cardinality(evalRuns) + Cardinality(failures)

BuildDatasets ==
    /\ \/ \E l \in ModelLayers, shape \in Shapes : BuildSnapshot(l, shape)
       \/ \E i \in 1 .. Len(snapshots) : RewriteSnapshot(i)
       \/ /\ FactsKnown < MaxFacts
          /\ \/ \E i \in 1 .. Len(snapshots) :
                    \/ LabelSnapshot(snapshots[i].id)
                    \/ \E ok \in BOOLEAN : EvaluateSnapshot(snapshots[i], ok)
             \/ \E run \in evalRuns : ReportFailure(run, "drift")
    /\ UNCHANGED <<query, rows, evidence, expansion, prepared, reads>>

-----------------------------------------------------------------------------
(* What the rows e that were read say.                                     *)

\* month_coverage: both ends count.
MonthCoverage(s) == s.first .. s.last

\* Mutant: the snapshots of every model count for each.
SnapshotsOfAny(e, l) == Range(e.snapshots)

SnapshotsOf(e, l) == {s \in Range(e.snapshots) : s.layer = l}

SplitsIn(e, id, r) ==
    {s \in e.splits : s.snapshot = id /\ RoleNamed[s.name] = r}

\* The months of all the splits of all the snapshots, added up: a month counts
\* once for each split that has it.
MonthCount(e, l, r) ==
    Cardinality(UNION {{s} \X MonthCoverage(s) :
        s \in UNION {SplitsIn(e, t.id, r) : t \in SnapshotsOf(e, l)}})

\* Where in the database's order the snapshots stand that have the role.
PlacesOf(e, l, r) ==
    {i \in 1 .. Len(e.snapshots) :
        /\ e.snapshots[i] \in SnapshotsOf(e, l)
        /\ SplitsIn(e, e.snapshots[i].id, r) # {}}

\* Labels and evaluations count for a role only when they belong to the
\* first of the snapshots that have the role.
SnapshotRef(e, l, r) ==
    IF PlacesOf(e, l, r) = {} THEN 0 ELSE e.snapshots[Min(PlacesOf(e, l, r))].id

HasLabels(e, l, r) == SnapshotRef(e, l, r) \in e.labelled
HasEvaluation(e, l, r) ==
    \E run \in e.evalRuns : run.snapshot = SnapshotRef(e, l, r) /\ run.ok

\* A metric counts for the model of its evaluation run, when that was read.
MetricGaps(e, l) ==
    {m.gap : m \in {f \in e.failures :
        f.run \in e.evalRuns /\ f.run.layer = l}}

RoleGap(e, l, r) ==
    CASE MonthCount(e, l, r) = 0 -> {"coverage"}
      [] MonthCount(e, l, r) > 0 /\ r # "train" /\ ~HasLabels(e, l, r)
            -> {"missing_labels"}
      [] MonthCount(e, l, r) > 0 /\ (r = "train" \/ HasLabels(e, l, r))
         /\ r \in {"validation", "test"} /\ ~HasEvaluation(e, l, r)
            -> {"missing_eval_run"}
      [] OTHER -> {}

PromotionGaps(e, l) ==
    MetricGaps(e, l) \cup
        IF SnapshotsOf(e, l) = {} THEN {"coverage"}
        ELSE UNION {RoleGap(e, l, r) : r \in Range(MinimumRoles)}

-----------------------------------------------------------------------------
(* The collection, one query at a time.                                    *)

StartCollection ==
    /\ query = 0 /\ reads < MaxReads
    /\ query' = 1 /\ reads' = reads + 1
    /\ rows' = [NoRows EXCEPT !.snapshots = snapshots]
    /\ UNCHANGED <<evidenceTables, evidence, expansion, prepared>>

QueryTable ==
    /\ query \in 1 .. 4
    /\ query' = query + 1
    /\ rows' = CASE query = 1 -> [rows EXCEPT !.splits = splits]
                 [] query = 2 -> [rows EXCEPT !.labelled = labelled]
                 [] query = 3 -> [rows EXCEPT !.evalRuns = evalRuns]
                 [] query = 4 -> [rows EXCEPT !.failures = failures]
    /\ UNCHANGED <<evidenceTables, evidence, expansion, prepared, reads>>

\* The evidence file is replaced by what the rows say.
WriteEvidence ==
    /\ query = 5
    /\ query' = 0 /\ rows' = NoRows
    /\ evidence' = rows
    /\ UNCHANGED <<evidenceTables, expansion, prepared, reads>>

-----------------------------------------------------------------------------
(* The decision.                                                           *)

MinimumSatisfied(e, l) ==
    \A r \in Range(MinimumRoles) : MonthCount(e, l, r) >= MinimumMonths[r]

UpstreamReady(e, l) == \A d \in DependsOn[l] : MinimumSatisfied(e, d)

\* The roles model l should be given. Nothing is ever marked as approved for
\* production, so shadow monitoring is never one.
RolesWanted(e, l) ==
    LET short(r) == MonthCount(e, l, r) < MinimumMonths[r]
        forward == PromotionGaps(e, l) \cap ForwardGaps # {}
    IN  {r \in Range(MinimumRoles) : short(r)}
        \cup {r \in {"forward_holdout"} : forward /\ short(r)}

LayersWanting(e) ==
    {l \in ModelLayers : UpstreamReady(e, l) /\ RolesWanted(e, l) # {}}

\* The forward holdout is the last to be asked for.
FirstRole(roles) ==
    LET order == Append(MinimumRoles, "forward_holdout")
    IN  order[Min({i \in DOMAIN order : order[i] \in roles})]

\* The plan written for evidence e when a target is named, or is not.
PlanFor(e, named) ==
    LET wanting == LayersWanting(e)
    IN  IF wanting = {} THEN [status |-> "not_applicable"]
        ELSE LET l == Min(wanting)
             IN  [status |-> IF l >= TargetFrom /\ ~named THEN "blocked"
                             ELSE "prepared",
                  layer |-> l, role |-> FirstRole(RolesWanted(e, l))]

PlanExpansion(named) ==
    LET plan == PlanFor(evidence, named)
    IN  /\ expansion' = plan
        /\ prepared' = (prepared \/ (plan.status # "not_applicable"
                                     /\ plan.layer = 1))
        /\ UNCHANGED <<evidenceTables, query, rows, evidence, reads>>

\* The information pass plans without a target, into a file of its own; so
\* does a planner that is given none.
InformationPass == PlanExpansion(FALSE)

-----------------------------------------------------------------------------
(* Properties.                                                             *)

\* The months that splits of role r, under its own name, cover for model l.
MonthsBuilt(l, r) ==
    UNION {s.first .. s.last : s \in {t \in splits :
        t.name = r /\ \E i \in 1 .. Len(snapshots) :
            snapshots[i] = [id |-> t.snapshot, layer |-> l]}}

SplitsCounted(l, r) ==
    {s \in splits : RoleNamed[s.name] = r /\ \E i \in 1 .. Len(snapshots) :
        snapshots[i] = [id |-> s.snapshot, layer |-> l]}

\* Two ways for a role to seem to cover more than it does: a month is in two
\* of its splits, or a split counts whose name only contains an alias of it.
Exaggerated(l, r) ==
    \/ \E s, t \in SplitsCounted(l, r) :
           s # t /\ s.first <= t.last /\ t.first <= s.last
    \/ \E s \in SplitsCounted(l, r) : s.name # r

CoversMinimum(l) ==
    \A r \in Range(MinimumRoles) :
        \/ Cardinality(MonthsBuilt(l, r)) >= MinimumMonths[r]
        \/ Exaggerated(l, r)

\* The evidence never tells of months that were not built.
MonthsAreReal ==
    \A l \in ModelLayers, r \in SplitRoles :
        MonthCount(evidence, l, r) > Cardinality(MonthsBuilt(l, r))
            => Exaggerated(l, r)

\* A model is planned for only when those it is built upon cover their
\* months, nothing is left to plan only when all do, and a forward holdout
\* is asked for only after an evaluation that failed.
ExpansionIsOrderly ==
    /\ expansion.status = "not_applicable" =>
           \A l \in ModelLayers : CoversMinimum(l)
    /\ expansion.status \in {"prepared", "blocked"} =>
           /\ \A d \in DependsOn[expansion.layer] : CoversMinimum(d)
           /\ expansion.role = "forward_holdout" =>
                  /\ CoversMinimum(expansion.layer)
                  /\ \E f \in failures : f.run.layer = expansion.layer
           /\ expansion.layer = 1 => prepared

\* Evidence free of gaps is of labelled and evaluated snapshots, and labels
\* are said to be missing only of the first snapshot with the role in the
\* database's order: one that has them stands behind it.
GapsAreExplained ==
    \A l \in ModelLayers : SnapshotsOf(evidence, l) # {} =>
        \A r \in {"validation", "test"} :
            LET places == PlacesOf(evidence, l, r)
                id(i) == evidence.snapshots[i].id
            IN  /\ PromotionGaps(evidence, l) = {} =>
                       \E i \in places : /\ id(i) \in labelled
                                         /\ \E run \in evalRuns :
                                                run.snapshot = id(i) /\ run.ok
                /\ "missing_labels" \in RoleGap(evidence, l, r) =>
                       \E i \in places : /\ id(i) \notin evidence.labelled
                                         /\ \A j \in places :
                                                id(j) \in evidence.labelled => i < j

\* What the manager believes of the datasets, and what it asks for because
\* of it, is explained by what was built, although the tables are read one
\* after the other while they are written.
EvidenceIsExplained ==
    MonthsAreReal /\ ExpansionIsOrderly /\ GapsAreExplained

EvidenceNext ==
    \/ BuildDatasets
    \/ StartCollection
    \/ QueryTable
    \/ WriteEvidence
    \/ PlanExpansion(TRUE)
    \/ InformationPass

EvidenceSpec == EvidenceInit /\ [][EvidenceNext]_evidenceVars

=============================================================================
