--------------------------- MODULE CompletionRows ---------------------------
(* Completion receipts become rows of run_manifest, artifact_ref and          *)
(* ready_signal, one table after the other and each in a transaction of its   *)
(* own (persist_completion_rows), and the view task_summary reads the three   *)
(* tables.  A component appends the runs of a request to its receipt; the     *)
(* realtime shadow handoff and the rehearsal write their one run anew.        *)
EXTENDS Naturals, Sequences, FiniteSets

CONSTANTS
    Tasks,      \* requests with a receipt
    Rewritten,  \* those whose receipt has one run, written anew every time
    Recorders,  \* processes that record receipts
    MaxRuns,    \* bound on what is written into a receipt
    MaxRecords  \* bound on recordings

ASSUME CompletionAssumption ==
    /\ Rewritten \subseteq Tasks
    /\ MaxRuns \in Nat /\ MaxRecords \in Nat

VARIABLES
    receipt,    \* per task, the runs in its receipt: status and outputs
    runs,       \* run_manifest: run and status
    artifactRefs, \* artifact_ref: run, number and lifecycle
    signals,    \* ready_signal: run, status, artifacts and when it was inserted
    recorder,   \* per recorder, the receipt it has read and the table it writes next
    written,    \* runs written into receipts, and recordings begun
    mixed       \* history: tasks recorded by two at a time or not to the end
completionVars == <<receipt, runs, artifactRefs, signals, recorder, written, mixed>>

Statuses == {"succeeded", "partial", "failed", "interrupted"}
Free == [pc |-> "idle"]

\* _ready_status: what is neither a success, a partial one nor a known failure blocks.
ReadyStatus(status) ==
    CASE status = "succeeded" -> "ready"
      [] status = "partial"   -> "partial"
      [] status = "failed"    -> "failed"
      [] OTHER                -> "blocked"

\* normalize_completion_receipt: for each run of receipt R a manifest, an artifact for the
\* receipt (0) and one per output, and a signal.
RunOf(t, n) == <<t, n>>
ManifestRow(t, n, run) ==
    [run |-> RunOf(t, n), status |-> IF run.status = "succeeded" THEN "succeeded" ELSE ReadyStatus(run.status)]
Lifecycle(status) == IF ReadyStatus(status) \in {"ready", "partial"} THEN "active" ELSE "failed"
ArtifactRow(t, n, run, k) ==
    [run |-> RunOf(t, n), number |-> k, lifecycle |-> Lifecycle(run.status)]
SignalRow(t, n, run, created) ==
    [run |-> RunOf(t, n), status |-> ReadyStatus(run.status), refs |-> 0 .. run.outputs,
     created |-> created]

ManifestRows(t, R) == {ManifestRow(t, n, R[n]) : n \in DOMAIN R}
ArtifactRows(t, R) == UNION {{ArtifactRow(t, n, R[n], k) : k \in 0 .. R[n].outputs} : n \in DOMAIN R}

\* A signal keeps the time of its insertion; those of one transaction have the same.
Created(run) ==
    IF \E s \in signals : s.run = run THEN (CHOOSE s \in signals : s.run = run).created
    ELSE Cardinality(signals)
SignalRows(t, R) == {SignalRow(t, n, R[n], Created(RunOf(t, n))) : n \in DOMAIN R}

\* _execute_many: rows replace those with their key.
Upsert(table, rows) == {old \in table : \A new \in rows : new.run # old.run} \cup rows
UpsertArtifacts(table, rows) ==
    {old \in table : \A new \in rows : new.run # old.run \/ new.number # old.number} \cup rows

CompletionInit ==
    /\ receipt = [t \in Tasks |-> <<>>]
    /\ runs = {} /\ artifactRefs = {} /\ signals = {}
    /\ recorder = [r \in Recorders |-> Free]
    /\ written = [runs |-> 0, records |-> 0] /\ mixed = {}

\* A run of the component ends, or the handoff is built again from other inputs.  A failed
\* run has no outputs.
WriteRun(t, status) ==
    /\ written.runs < MaxRuns
    /\ written' = [written EXCEPT !.runs = @ + 1]
    /\ LET run == [status |-> status, outputs |-> IF status \in {"succeeded", "partial"} THEN 1 ELSE 0]
       IN  receipt' = [receipt EXCEPT ![t] = IF t \in Rewritten THEN <<run>> ELSE Append(@, run)]
    /\ UNCHANGED <<runs, artifactRefs, signals, recorder, mixed>>

Recording(r) == recorder[r].pc # "idle"
RecordsOf(t) == {r \in Recorders : Recording(r) /\ recorder[r].task = t}

Load(r, t) ==
    /\ ~Recording(r) /\ receipt[t] # <<>> /\ written.records < MaxRecords
    /\ written' = [written EXCEPT !.records = @ + 1]
    /\ recorder' = [recorder EXCEPT ![r] = [pc |-> "runs", task |-> t, receipt |-> receipt[t]]]
    /\ mixed' = IF RecordsOf(t) = {} THEN mixed ELSE mixed \cup {t}
    /\ UNCHANGED <<receipt, runs, artifactRefs, signals>>

ReadReceipt(r) == recorder[r].receipt

\* Mutant: the signals go before the artifacts they name.
SignalsEarly(pc) == CASE pc = "runs" -> "signals" [] pc = "signals" -> "artifacts" [] OTHER -> "end"

\* persist_completion_rows: manifests, artifacts, signals.
After(pc) == CASE pc = "runs" -> "artifacts" [] pc = "artifacts" -> "signals" [] OTHER -> "end"
Advance(r) ==
    LET next == After(recorder[r].pc)
    IN  recorder' = [recorder EXCEPT ![r] = IF next = "end" THEN Free ELSE [@ EXCEPT !.pc = next]]

PersistRuns(r) ==
    /\ recorder[r].pc = "runs"
    /\ runs' = Upsert(runs, ManifestRows(recorder[r].task, ReadReceipt(r)))
    /\ Advance(r)
    /\ UNCHANGED <<receipt, artifactRefs, signals, written, mixed>>

PersistArtifacts(r) ==
    /\ recorder[r].pc = "artifacts"
    /\ artifactRefs' = UpsertArtifacts(artifactRefs, ArtifactRows(recorder[r].task, ReadReceipt(r)))
    /\ Advance(r)
    /\ UNCHANGED <<receipt, runs, signals, written, mixed>>

PersistSignals(r) ==
    /\ recorder[r].pc = "signals"
    /\ signals' = Upsert(signals, SignalRows(recorder[r].task, ReadReceipt(r)))
    /\ Advance(r)
    /\ UNCHANGED <<receipt, runs, artifactRefs, written, mixed>>

\* The recorder dies between two tables, or SQL is unreachable.
GiveUp(r) ==
    /\ Recording(r)
    /\ mixed' = mixed \cup {recorder[r].task}
    /\ recorder' = [recorder EXCEPT ![r] = Free]
    /\ UNCHANGED <<receipt, runs, artifactRefs, signals, written>>

RecorderStep(r) ==
    \/ \E t \in Tasks : Load(r, t)
    \/ PersistRuns(r) \/ PersistArtifacts(r) \/ PersistSignals(r) \/ GiveUp(r)

CompletionNext ==
    \/ \E t \in Tasks, status \in Statuses : WriteRun(t, status)
    \/ \E r \in Recorders : RecorderStep(r)
CompletionSpec == CompletionInit /\ [][CompletionNext]_completionVars

-----------------------------------------------------------------------------
(* The view task_summary.                                                     *)

RunsOf(t) == {m \in runs : m.run[1] = t}
Rank(status) == IF status = "ready" THEN 0 ELSE IF status = "partial" THEN 1 ELSE 2
\* Signals whose run has a row.
SignalsOf(t) == {s \in signals : \E m \in RunsOf(t) : m.run = s.run}
\* By its status, then the latest, then the last of its transaction.
Precedes(s, other) ==
    \/ Rank(s.status) < Rank(other.status)
    \/ Rank(s.status) = Rank(other.status) /\ s.created > other.created
    \/ /\ Rank(s.status) = Rank(other.status) /\ s.created = other.created
       /\ s.run[2] >= other.run[2]
BestSignal(t) == CHOOSE s \in SignalsOf(t) : \A other \in SignalsOf(t) : Precedes(s, other)
BestRun(t) ==
    CHOOSE m \in RunsOf(t) : \A other \in RunsOf(t) :
        \/ m.status = "succeeded" /\ other.status # "succeeded"
        \/ (m.status = "succeeded" <=> other.status = "succeeded") /\ m.run[2] >= other.run[2]
TaskStatus(t) ==
    IF SignalsOf(t) # {} THEN BestSignal(t).status
    ELSE IF RunsOf(t) # {} THEN BestRun(t).status ELSE "requested"

-----------------------------------------------------------------------------
(* Properties.                                                                *)

\* A signal never refers to an artifact or a run that has no row: the tables are
\* written in that order, whatever dies in between and whoever records beside it.
SignalsHaveArtifacts ==
    \A s \in signals :
        /\ \E m \in runs : m.run = s.run
        /\ \A k \in s.refs : \E a \in artifactRefs : a.run = s.run /\ a.number = k

\* The three rows of a run tell the same, unless two recorded the task at a time or
\* one of them gave up: a run that is written anew may then be a success in one
\* table and blocked in another.
RowsOfARunAgree ==
    \A t \in Tasks \ mixed : RecordsOf(t) = {} => \A m \in RunsOf(t) :
        \E s \in signals :
            /\ s.run = m.run
            /\ m.status = "succeeded" <=> s.status = "ready"
            /\ \A a \in artifactRefs : a.run = m.run /\ a.number \in s.refs
                   => (a.lifecycle = "active" <=> s.status \in {"ready", "partial"})

\* A task is shown ready only for a run that its receipt has succeeded with, and
\* is no longer shown otherwise by what failed later; only a run that is written
\* anew takes it back.
ReadyIsEarned ==
    \A t \in Tasks \ Rewritten :
        /\ TaskStatus(t) = "ready" => \E n \in DOMAIN receipt[t] : receipt[t][n].status = "succeeded"
        /\ (\E s \in SignalsOf(t) : s.status = "ready") => TaskStatus(t) = "ready"

CompletionIsConsistent == SignalsHaveArtifacts /\ RowsOfARunAgree /\ ReadyIsEarned
=============================================================================
