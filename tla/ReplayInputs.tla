---------------------------- MODULE ReplayInputs ----------------------------
(* What a replay lacks and how it is fetched: the option chains of the signals *)
(* the replay emits (model_group.replay_option_features) and the market paths  *)
(* of the contracts it selects (model_group.replay_contract_paths).            *)
(*                                                                            *)
(* The daemon runs the replay, which stops at its frontier with an artifact of *)
(* missing signals, and drains the artifact batch by batch.  An operator may   *)
(* drain an artifact, or run a replay, beside it: the lock covers the writes   *)
(* of a batch, its reads are made before.                                      *)
EXTENDS SequencesExt, FiniteSetsExt

CONSTANTS
    Order,         \* the signals a replay may emit, in the order of its rows
    Month, Target, \* of each signal
    Rows,          \* option contracts in a chain: source rows for a signal
    ProviderLimit, \* --provider-stage-next-limit, --batch-size
    FeatureLimit,  \* --replay-option-feature-repair-limit
    Reach,         \* how many of the signals it lacks a run may get to write down
    Contracts,     \* the contracts the replay selects, in the order of its rows
    MaxUpsets      \* bound on deaths of the daemon and starts of an operator together

Signal == ToSet(Order)
Drainer == {"daemon", "operator"}
Group(r) == <<Month[r], Target[r]>>

ASSUME InputAssumption ==
    /\ Order \in Seq(Signal) /\ IsInjective(Order) /\ IsInjective(Contracts)
    /\ DOMAIN Month = Signal /\ DOMAIN Target = Signal
    /\ {Rows, ProviderLimit, FeatureLimit} \union Reach \subseteq Nat \ {0}
    /\ MaxUpsets \in Nat

VARIABLES
    source,    \* signals with rows in option_chain_state_source
    feature,   \* signals with generated feature rows
    marker,    \* signals with a source_unavailable row among the features
    receipt,   \* signals whose request has a successful receipt
    artifact,  \* option_feature_requirements.jsonl of the newest run
    status,    \* replay_option_feature_drain_latest.json since that artifact was
               \* written: ready, of it or (not in the file) of another, or not
    lock,      \* who holds the option feature lock
    job,       \* of each drainer
    path,      \* contracts with a market path
    barren,    \* contracts the provider turned out to have no path for
    replayed,  \* the replay has been executed
    refused,   \* history: signals the provider has refused
    budget     \* upsets left

inputVars == <<source, feature, marker, receipt, artifact, status, lock, job, path,
          barren, replayed, refused, budget>>

database == <<source, feature, marker, receipt, refused>>
outcome == <<artifact, path, barren, replayed>>

\* A feature row of any kind counts, the marker of an unavailable source too.
Covered == feature \union marker

\* What the provider says of one request.
Answers == {"rows", "empty", "refused", "transient", "broken"}

Verdicts == {"ready", "unavailable", "unavailable_more", "repaired", "repaired_more",
             "required", "failed", "generation_failed", "incomplete", "lock_active"}
Executed == {"ready", "unavailable", "unavailable_more", "repaired", "repaired_more"}

\* The first n of a set, in the order of a sequence.
Place(s, x) == CHOOSE i \in DOMAIN s : s[i] = x
Foremost(s, S, n) == {x \in S : Cardinality({y \in S : Place(s, y) < Place(s, x)}) < n}

First(S, n) == Foremost(Order, S, n)
FirstMonth(S) == Month[CHOOSE r \in First(S, 1) : TRUE]

NoJob == [at |-> "plan", artifact |-> {}, batch |-> {}, ask |-> {}, defer |-> {},
          todo |-> {}, gen |-> {}, allowed |-> TRUE,
          pending |-> FALSE, verdict |-> "ready"]

InputInit ==
    /\ source = {} /\ feature = {} /\ marker = {} /\ receipt = {}
    /\ artifact = {} /\ status = "other" /\ lock = "free"
    /\ job = [p \in Drainer |-> NoJob]
    /\ path = {} /\ barren = {}
    /\ replayed = FALSE
    /\ refused = {}
    /\ budget = MaxUpsets

-----------------------------------------------------------------------------
(* One batch: run_model_group_replay_option_features_for_replay_backoff.      *)

Set(p, j) == job' = [job EXCEPT ![p] = j]

EndBatch(p, v) == Set(p, [job[p] EXCEPT !.at = "report", !.verdict = v, !.batch = {}, !.ask = {},
                                        !.defer = {}, !.todo = {}, !.gen = {}])

\* Mutant: the batch is what has no generated features, marked or not.
BeginUnmarked(p) ==
    LET j == job[p]
        batch == First(j.artifact \ feature, FeatureLimit)
        missing == batch \ source
        ask == First(missing, ProviderLimit)
    IN  /\ j.at = "read"
        /\ Set(p, IF batch = {}
                  THEN [j EXCEPT !.at = "report"]
                  ELSE [j EXCEPT !.at = "lock", !.batch = batch, !.ask = ask, !.defer = missing \ ask,
                                 !.gen = {Group(r) : r \in batch \cap source}])
        /\ UNCHANGED <<database, outcome, status, lock, budget>>

\* The batch and its sources are read with no lock held.
Begin(p) ==
    LET j == job[p]
        batch == First(j.artifact \ Covered, FeatureLimit)
        missing == batch \ source
        ask == First(missing, ProviderLimit)
    IN  /\ j.at = "read"
        /\ Set(p, IF batch = {}
                  THEN [j EXCEPT !.at = "report"]
                  ELSE [j EXCEPT !.at = "lock", !.batch = batch, !.ask = ask, !.defer = missing \ ask,
                                 !.gen = {Group(r) : r \in batch \cap source}])
        /\ UNCHANGED <<database, outcome, status, lock, budget>>

\* The lock is taken or the batch is given up.  The requests of a permitted batch are
\* persisted by month; one that may not call the provider lives on what is there.
Enter(p) ==
    LET j == job[p] IN
    /\ j.at = "lock"
    /\ IF lock # "free"
       THEN EndBatch(p, "lock_active") /\ UNCHANGED lock
       ELSE IF j.ask # {} /\ ~j.allowed /\ j.gen = {}
       THEN EndBatch(p, "required") /\ UNCHANGED lock
       ELSE /\ lock' = p
            /\ Set(p, [j EXCEPT !.at = IF j.ask # {} /\ j.allowed THEN "ask" ELSE "generate",
                                !.todo = j.ask])
    /\ UNCHANGED <<database, outcome, status, budget>>

Release(p, v) == lock' = "free" /\ EndBatch(p, v)

\* The requests of the month that are sent: the daemon's workers send all of them, the
\* operator's single one stops at the first that fails.
Sent(p, fresh, answer) ==
    {r \in fresh : p = "daemon" \/ \A i, j \in DOMAIN Order :
        (Order[j] = r /\ i < j /\ Order[i] \in fresh) => answer[Order[i]] \in {"rows", "empty"}}

\* Mutant: a failed dispatch marks the batch whatever the failure.
MarkAnyFailure(p, e) == marker \union job[p].ask

\* A refusal marks every signal the batch asked for; any other failure marks none.
MarkRefused(p, e) == IF e = "refused" THEN marker \union job[p].ask ELSE marker

Failed(e) == CASE e = "refused" -> "unavailable" [] e = "transient" -> "required" [] OTHER -> "failed"

Dispatch(p, answer) ==
    LET j == job[p]
        fresh == {r \in j.ask \ receipt : Month[r] = FirstMonth(j.todo)}
        left == {r \in j.todo : Month[r] # FirstMonth(j.todo)}
        sent == Sent(p, fresh, answer)
        good == {r \in sent : answer[r] \in {"rows", "empty"}}
    IN  /\ receipt' = receipt \union good
        /\ source' = source \union {r \in good : answer[r] = "rows"}
        /\ refused' = refused \union {r \in sent : answer[r] = "refused"}
        /\ IF good = fresh
           THEN /\ Set(p, [j EXCEPT !.todo = left, !.at = IF left = {} THEN "settle" ELSE "ask"])
                /\ UNCHANGED <<marker, lock>>
           ELSE \E r \in sent \ good :
                   /\ marker' = MarkRefused(p, answer[r])
                   /\ Release(p, Failed(answer[r]))
        /\ UNCHANGED <<feature, outcome, status, budget>>

Ask(p) == job[p].at = "ask" /\ \E answer \in [job[p].ask \ receipt -> Answers] : Dispatch(p, answer)

\* The requests went through: the signals that still have no rows are marked.
Settle(p) ==
    LET j == job[p]
        still == j.ask \ source
        gen == j.gen \union {Group(r) : r \in j.ask \cap source}
    IN  /\ j.at = "settle"
        /\ marker' = marker \union still
        /\ IF gen # {}
           THEN Set(p, [j EXCEPT !.at = "generate", !.gen = gen]) /\ UNCHANGED lock
           ELSE Release(p, IF j.defer # {} THEN "unavailable_more" ELSE "unavailable")
        /\ UNCHANGED <<source, feature, receipt, refused, outcome, status, budget>>

OfGroup(S, g) == {r \in S : Group(r) = g}

\* execute_m05_option_expression_feature_stage runs the generator unless the target has
\* as many feature rows in the month as source rows, markers included.
CountedOut(g) ==
    Cardinality(OfGroup(feature, g)) * Rows + Cardinality(OfGroup(marker, g)) >= Cardinality(OfGroup(source, g)) * Rows

\* The features of the targets, in the order of their names, until the generator fails.
Generate(p) ==
    LET j == job[p]
        run == {g \in j.gen : ~CountedOut(g)}
    IN  /\ j.at = "generate"
        /\ \E done \in SUBSET run :
              /\ feature' = feature \union {r \in source : Group(r) \in done}
              /\ Release(p, IF done # run THEN "generation_failed"
                            ELSE IF ~(j.batch \subseteq feature' \union marker) THEN "incomplete"
                            ELSE IF j.batch # j.artifact THEN "repaired_more"
                            ELSE "repaired")
        /\ UNCHANGED <<source, marker, receipt, refused, outcome, status, budget>>

-----------------------------------------------------------------------------
(* The daemon: the loop over a fold that is ready for replay.                 *)

Drain(pending) == [NoJob EXCEPT !.at = "read", !.artifact = artifact, !.pending = pending]

\* An artifact is pending unless a later drain said that everything is there.
AlreadyCleared == artifact = {} \/ status \in {"ready", "ready of another"}

\* Mutant: whatever was executed lets the replay go on.
AllowsAnyExecuted(v) == v \in Executed

\* A drain lets the replay go on unless its last answer asks for more draining.
AllowsRetry(v) == v \in {"ready", "unavailable", "repaired"}

Plan ==
    /\ job["daemon"].at = "plan" /\ ~replayed
    /\ Set("daemon", IF AlreadyCleared THEN [NoJob EXCEPT !.at = "replay"] ELSE Drain(TRUE))
    /\ UNCHANGED <<database, outcome, status, lock, budget>>

MissingPaths == ToSet(Contracts) \ path

\* A run of some of the months stops short of the whole.
Frontiers == {First(Signal \ Covered, n) : n \in Reach} \ {{}}

NewArtifact(frontier) == artifact' = frontier /\ status' = "other"

\* The replay stops where it lacks chains, writing down the signals; then where it lacks
\* the paths of the contracts it selected; then it is executed.
Replay ==
    /\ job["daemon"].at = "replay"
    /\ \/ \E frontier \in Frontiers :
             /\ NewArtifact(frontier)
             /\ Set("daemon", [Drain(FALSE) EXCEPT !.artifact = frontier])
             /\ UNCHANGED replayed
       \/ /\ Signal \subseteq Covered
          /\ replayed' = (MissingPaths = {})
          /\ Set("daemon", IF replayed' THEN NoJob ELSE [NoJob EXCEPT !.at = "path"])
          /\ UNCHANGED <<artifact, status>>
    /\ UNCHANGED <<database, path, barren, lock, budget>>

\* The first missing contracts, always from the start of the rows.
AskPaths == Foremost(Contracts, MissingPaths, ProviderLimit)

FetchPaths(ok) ==
    /\ job["daemon"].at = "path"
    /\ \E none \in SUBSET AskPaths :
          /\ barren \cap AskPaths \subseteq none
          /\ barren' = IF ok THEN barren \union none ELSE barren
          /\ path' = IF ok THEN path \union (AskPaths \ none) ELSE path
    /\ Set("daemon", NoJob)
    /\ UNCHANGED <<database, artifact, replayed, status, lock, budget>>

Says(j) == IF j.verdict # "ready" THEN "other"
           ELSE IF j.artifact = artifact THEN "ready" ELSE "ready of another"

\* After each batch the status is written; the drain goes on while batches are executed,
\* unless its steps or its time are used up.
Report ==
    LET j == job["daemon"]
        more == j.verdict \in Executed \ {"ready"}
        over == [NoJob EXCEPT !.at = IF j.pending /\ AllowsRetry(j.verdict) THEN "replay" ELSE "plan"]
    IN  /\ j.at = "report"
        /\ status' = Says(j)
        /\ \/ more /\ Set("daemon", [Drain(j.pending) EXCEPT !.artifact = j.artifact])
           \/ Set("daemon", over)
        /\ UNCHANGED <<database, outcome, lock, budget>>

Spend == budget > 0 /\ budget' = budget - 1

\* The daemon dies; its lock is taken over.
DaemonDies ==
    /\ job["daemon"].at # "plan" /\ Spend
    /\ lock' = IF lock = "daemon" THEN "free" ELSE lock
    /\ Set("daemon", NoJob)
    /\ UNCHANGED <<database, outcome, status>>

-----------------------------------------------------------------------------
(* The operator: drain_model_group_replay_option_features.py for the newest   *)
(* artifact, and replays of the operator's own.                               *)

OperatorDrain ==
    /\ job["operator"].at = "plan" /\ artifact # {} /\ Spend
    /\ \E allowed \in BOOLEAN : Set("operator", [Drain(FALSE) EXCEPT !.allowed = allowed])
    /\ UNCHANGED <<database, outcome, status, lock>>

OperatorReplay ==
    /\ Spend
    /\ \E frontier \in Frontiers : NewArtifact(frontier)
    /\ UNCHANGED <<database, path, barren, replayed, lock, job>>

\* Nothing is written of a batch that met the lock: the script dies of it.  A script that
\* comes to its end, or to --max-batches, writes a last row that names no reason.
OperatorReport ==
    LET j == job["operator"] IN
    /\ j.at \in {"report", "close"}
    /\ status' = IF j.verdict # "lock_active"
                 THEN IF j.at = "close" THEN "other" ELSE Says(j)
                 ELSE status
    /\ \E next \in {"read", "close"} :
          Set("operator",
              IF j.at = "close" \/ j.verdict \notin Executed THEN NoJob
              ELSE [j EXCEPT !.at = IF j.verdict = "ready" THEN "close" ELSE next, !.verdict = "ready"])
    /\ UNCHANGED <<database, outcome, lock, budget>>

-----------------------------------------------------------------------------
Batch(p) == Begin(p) \/ Enter(p) \/ Ask(p) \/ Settle(p) \/ Generate(p)

Daemon == Batch("daemon") \/ Plan \/ Replay \/ (\E ok \in BOOLEAN : FetchPaths(ok)) \/ Report

Operator == Batch("operator") \/ OperatorReport

InputNext == Daemon \/ Operator \/ DaemonDies \/ OperatorDrain \/ OperatorReplay

InputSpec == InputInit /\ [][InputNext]_inputVars

\* The service restarts the daemon and its loop goes on; requests that keep failing are
\* answered in the end, and so are generator and path source; an operator's script that
\* runs ends or gives up.
AnsweredInTheEnd ==
    /\ job["daemon"].at = "ask"
    /\ \E r \in job["daemon"].ask \ receipt : Month[r] = FirstMonth(job["daemon"].todo)
    /\ \E answer \in [job["daemon"].ask \ receipt -> {"rows", "empty", "refused"}] :
          Dispatch("daemon", answer)

GeneratedInTheEnd == Generate("daemon") /\ job'["daemon"].verdict # "generation_failed"

FairInputSpec ==
    /\ InputSpec
    /\ WF_inputVars(Daemon) /\ WF_inputVars(Operator)
    /\ SF_inputVars(AnsweredInTheEnd) /\ SF_inputVars(GeneratedInTheEnd) /\ SF_inputVars(FetchPaths(TRUE))

-----------------------------------------------------------------------------
InputTypeOK ==
    /\ source \in SUBSET Signal /\ feature \in SUBSET source /\ source \in SUBSET receipt
    /\ marker \in SUBSET Signal /\ receipt \in SUBSET Signal /\ refused \in SUBSET Signal
    /\ artifact \in SUBSET Signal
    /\ status \in {"ready", "ready of another", "other"}
    /\ lock \in Drainer \union {"free"}
    /\ \A p \in Drainer :
          /\ job[p].at \in {"plan", "replay", "path", "read", "lock", "ask", "settle", "generate", "report", "close"}
          /\ job[p].verdict \in Verdicts
          /\ job[p].at \in {"ask", "settle", "generate"} <=> lock = p
          /\ job[p].batch \union job[p].ask \union job[p].defer \subseteq job[p].artifact
    /\ {path, barren} \subseteq SUBSET ToSet(Contracts)

\* What a refusal costs: every marked signal the provider has not refused or answered
\* without rows shared a batch with one it refused, the rest of a batch at most for
\* each drainer that met the refusal.  A transient failure costs none.
RefusalCostsItsBatch ==
    Cardinality(marker \ (refused \union (receipt \ source)))
        <= (ProviderLimit - 1) * Cardinality(refused) * Cardinality(Drainer)

\* The replay is dispatched on an artifact that is not drained only after a batch that
\* recorded a refusal, or on the word of a drain of another artifact.
UndrainedOnlyByRefusal ==
    [][(job["daemon"].at # "replay" /\ job'["daemon"].at = "replay" /\ ~(artifact \subseteq Covered))
       => \/ job["daemon"].at = "report"
             /\ (job["daemon"].verdict = "unavailable" \/ job["daemon"].artifact # artifact)
          \/ status = "ready of another"]_inputVars

\* A replay that is not executed in the end waits for one of two things: a signal that
\* has its chain but is counted out by the rows of others, or a path the provider does
\* not have of a contract at the head of the rows.
OnlyTheseHoldReplay ==
    \/ <>replayed
    \/ <>[](\E r \in source \ Covered : CountedOut(Group(r)))
    \/ <>[](MissingPaths # {} /\ AskPaths \subseteq barren)
=============================================================================
