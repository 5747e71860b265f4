---------------------------- MODULE ProviderStage ----------------------------
(* The requests of one provider stage and month, from the dispatch of a slice *)
(* to the coverage gate: run_stage_controller_step, build_stage_run_dashboard,*)
(* the dispatch functions, reconcile_provider_stage, the failure register and *)
(* summarize_stage_coverage_from_rows.                                        *)
(*                                                                            *)
(* What a request has gone through is recorded in three places that are       *)
(* written at different moments by different processes: the completion        *)
(* receipt of the component (a file), the task_summary row (SQL) and the      *)
(* failure register (SQL).  The option chains themselves are in a table of    *)
(* their own, which the gate counts.  All requests have been prepared.        *)
EXTENDS SequencesExt

CONSTANTS
    Worker,      \* scheduler processes
    Order,       \* the request ids, in the order the queries return them
    Routes,      \* the stages considered: "bars" (M01) and "options" (M05)
    Limit,       \* next_limit: requests in one dispatch slice
    NoWorker,
    MaxFailures, \* bound on failed or lost provider runs
    MaxReviews,  \* bound on accepted_skip registrations
    MaxUpsets    \* bound on crashes, command-line dispatches and lost tables together

Request == ToSet(Order)

ASSUME StageAssumption ==
    /\ Order \in Seq(Request) /\ IsInjective(Order)
    /\ Routes \subseteq {"bars", "options"}
    /\ Limit \in Nat \ {0}
    /\ NoWorker \notin Worker
    /\ {MaxFailures, MaxReviews, MaxUpsets} \subseteq Nat

VARIABLES
    route,     \* which stage this is
    receipt,   \* completion_receipt.json of each request: [ok, last, fails, empty]
    row,       \* the task_summary row of each request
    register,  \* the failure-register rows of each request, by failed run
    sourced,   \* the option source table has rows of the stage's target and months
    lane,      \* the provider_partition lock of each request
    rlane,     \* the reconcile lock of the stage
    unlocked,  \* the workflow checkpoint has the stage succeeded
    pc,
    slice,     \* requests the worker dispatches and has not called yet
    running,   \* requests whose provider command the worker waits for
    retry,     \* the slice retries failed requests
    proposed,  \* failure rows the worker is about to persist
    stray,     \* requests with a provider command no scheduler waits for
    strayed,   \* history: requests that ever had one
    budget

vars == <<route, receipt, row, register, sourced, lane, rlane, unlocked,
          pc, slice, running, retry, proposed, stray, strayed, budget>>

local == <<pc, slice, running, retry, proposed>>
strays == <<stray, strayed>>
locks == <<lane, rlane>>
records == <<receipt, row, register, sourced>>

\* An "empty" run of an option request succeeds without a row and says so.
Successes == {"succeeded", "empty"}
Kinds == Successes \cup {"none", "retryable", "policy", "semantic"}

\* Row 0 of a request is a review made before any run; row n is the failure
\* proposed for its n-th failed run (fail_<request>_<run>).
Run == 0..MaxFailures

OpenFailure == {"retry_required", "auto_repair_required"}

Init ==
    /\ route \in Routes
    /\ receipt = [r \in Request |->
          [ok |-> FALSE, last |-> "none", fails |-> 0, empty |-> FALSE]]
    /\ row = [r \in Request |-> "pending"]
    /\ register = [r \in Request |-> [n \in Run |-> "none"]]
    /\ sourced = FALSE
    /\ lane = [r \in Request |-> NoWorker]
    /\ rlane = NoWorker
    /\ unlocked = FALSE
    /\ pc = [w \in Worker |-> "idle"]
    /\ slice = [w \in Worker |-> {}]
    /\ running = [w \in Worker |-> {}]
    /\ stray = {} /\ strayed = {}
    /\ retry = [w \in Worker |-> FALSE]
    /\ proposed = [w \in Worker |-> {}]
    /\ budget = [fail |-> MaxFailures, review |-> MaxReviews, upset |-> MaxUpsets]

Goto(w, label) == pc' = [pc EXCEPT ![w] = label]

GoIdle(w) ==
    /\ Goto(w, "idle")
    /\ slice' = [slice EXCEPT ![w] = {}]
    /\ running' = [running EXCEPT ![w] = {}]
    /\ retry' = [retry EXCEPT ![w] = FALSE]
    /\ proposed' = [proposed EXCEPT ![w] = {}]

ReleaseLanes(w) ==
    lane' = [r \in Request |-> IF lane[r] = w THEN NoWorker ELSE lane[r]]

-----------------------------------------------------------------------------
\* accepted_failure_request_ids_from_register
Accepted == {r \in Request : \E n \in Run : register[r][n] = "accepted_skip"}

InRow(status) == {r \in Request : row[r] = status}

\* Mutant of TaskCoverage: an accepted failure is taken for the whole stage's.
CoverageByReview ==
    LET terminal == Cardinality(InRow("ready")) + Cardinality(Accepted)
    IN  IF InRow("failed") \ Accepted # {} THEN "failed"
        ELSE IF terminal >= Cardinality(Request) \/ InRow("failed") # {} THEN "ready"
        ELSE IF terminal > 0 THEN "partial_ready" ELSE "blocked"

\* summarize_stage_coverage_from_rows up to the gate.  accepted_failed and
\* accepted_skipped together are every accepted request, whatever its row says.
TaskCoverage ==
    LET terminal == Cardinality(InRow("ready")) + Cardinality(Accepted)
    IN  IF InRow("failed") \ Accepted # {} THEN "failed"
        ELSE IF terminal >= Cardinality(Request) THEN "ready"
        ELSE IF terminal > 0 THEN "partial_ready" ELSE "blocked"

\* _successful_zero_row_signal_times: one signal time for each request.
ZeroRows == {r \in Request : receipt[r].empty}

\* _gate_option_source_sql_coverage: no rows, and fewer runs that say so than ready
\* requests; a caller that names no target never has such runs.
GatedOut(zeroRows) ==
    /\ route = "options" /\ TaskCoverage = "ready" /\ ~sourced
    /\ Cardinality(zeroRows) < Cardinality(InRow("ready"))

\* Mutant of Coverage: the zero-row runs are looked up without the target.
CoverageOfAnyTarget(targeted) == IF GatedOut({}) THEN "blocked" ELSE TaskCoverage

\* What collect_stage_coverage reports, asked with the target's symbol or without.
Coverage(targeted) ==
    IF GatedOut(IF targeted THEN ZeroRows ELSE {}) THEN "blocked" ELSE TaskCoverage

\* The failed requests that are tried again: those the register marks
\* retry_required, then those whose latest run broke the provider policy.
RetryRequired(r) ==
    r \in InRow("failed") /\ \E n \in Run : register[r][n] = "retry_required"
PolicyFailure(r) ==
    r \in InRow("failed") /\ route = "bars" /\ receipt[r].last = "policy"

\* The order of the queries: the failures marked for a retry first.
Sooner(q, r) ==
    \/ RetryRequired(q) /\ ~RetryRequired(r)
    \/ /\ RetryRequired(q) <=> RetryRequired(r)
       /\ \E i, j \in DOMAIN Order : i < j /\ Order[i] = q /\ Order[j] = r

Waiting ==
    IF Coverage(FALSE) = "failed"
    THEN {r \in Request : RetryRequired(r) \/ PolicyFailure(r)}
    ELSE InRow("pending") \ Accepted

\* preview_next_provider_dispatch: the slice, cut to Limit before the accepted
\* requests are dropped from it (the option dispatch does not drop them).
Candidates ==
    {r \in Waiting : Cardinality({q \in Waiting : Sooner(q, r)}) < Limit}

Skipped == IF route = "bars" THEN Accepted ELSE {}

-----------------------------------------------------------------------------
\* build_stage_run_dashboard and the choice of the action: dispatch, retry, or
\* nothing for the provider to do.  Reads SQL and receipts, names no target and
\* holds no lock.
Look(w) ==
    LET runnable == Candidates \ Skipped IN
    /\ pc[w] = "idle" /\ ~unlocked
    /\ IF Coverage(FALSE) # "ready" /\ runnable # {}
       THEN /\ slice' = [slice EXCEPT ![w] = runnable]
            /\ retry' = [retry EXCEPT ![w] = (Coverage(FALSE) = "failed")]
            /\ Goto(w, "enter")
       ELSE /\ Goto(w, "reconcile")
            /\ UNCHANGED <<slice, retry>>
    /\ UNCHANGED <<route, records, locks, unlocked, running, proposed, strays, budget>>

\* Mutant of Enter: the dispatch does not look whether the partitions are locked.
EnterOver(w) ==
    /\ pc[w] = "enter"
    /\ lane' = [r \in Request |-> IF r \in slice[w] THEN w ELSE lane[r]]
    /\ Goto(w, "check")
    /\ UNCHANGED <<slice, running, retry, proposed>>
    /\ UNCHANGED <<route, records, rlane, unlocked, strays, budget>>

\* The provider_partition locks of the whole slice, or RuntimeError.
Enter(w) ==
    /\ pc[w] = "enter"
    /\ \/ /\ \A r \in slice[w] : lane[r] = NoWorker
          /\ lane' = [r \in Request |-> IF r \in slice[w] THEN w ELSE lane[r]]
          /\ Goto(w, "check")
          /\ UNCHANGED <<slice, running, retry, proposed>>
       \/ /\ \E r \in slice[w] : lane[r] # NoWorker
          /\ GoIdle(w)
          /\ UNCHANGED lane
    /\ UNCHANGED <<route, records, rlane, unlocked, strays, budget>>

\* What dispatch_layer_provider_acquisition refuses when it does not retry: any
\* failed request in the stage, or a request that is terminal already.
Refused(w) ==
    /\ route = "bars" /\ ~retry[w]
    /\ slice[w] \ Skipped # {}
    /\ \/ InRow("failed") # {}
       \/ (slice[w] \ Skipped) \cap (InRow("ready") \cup Accepted) # {}

\* The start of the dispatch: accepted requests are skipped once more, and the
\* coverage is read once more; TaskSystemError leaves the locks and the tick.
Check(w) ==
    /\ pc[w] = "check"
    /\ IF Refused(w)
       THEN GoIdle(w) /\ ReleaseLanes(w)
       ELSE /\ slice' = [slice EXCEPT ![w] = @ \ Skipped]
            /\ Goto(w, "call")
            /\ UNCHANGED <<lane, running, retry, proposed>>
    /\ UNCHANGED <<route, records, rlane, unlocked, strays, budget>>

\* What a provider run leaves in the receipt; a run that is killed leaves nothing.
Appended(rec, kind) ==
    IF kind = "none" THEN rec
    ELSE [ok    |-> rec.ok \/ kind \in Successes,
          last  |-> kind,
          fails |-> rec.fails + (IF kind \in Successes THEN 0 ELSE 1),
          empty |-> rec.empty \/ kind = "empty"]

Outcomes ==
    (IF route = "options" THEN Successes ELSE {"succeeded"})
        \cup (IF budget.fail > 0 THEN Kinds \ Successes ELSE {})

\* The component saves its rows before it writes its receipt.
Answer(r, kind) ==
    /\ receipt' = [receipt EXCEPT ![r] = Appended(@, kind)]
    /\ sourced' = (sourced \/ (route = "options" /\ kind = "succeeded"))
    /\ budget' = [budget EXCEPT !.fail = @ - (IF kind \in Successes THEN 0 ELSE 1)]

\* dispatch_one, in the order the thread pool picks: the option dispatch looks
\* at the receipt first and reports already_succeeded without a call.
Satisfied(r) == route = "options" /\ receipt[r].ok

Start(w) ==
    /\ pc[w] = "call"
    /\ \E r \in slice[w] :
          /\ slice' = [slice EXCEPT ![w] = @ \ {r}]
          /\ running' = [running EXCEPT ![w] = IF Satisfied(r) THEN @ ELSE @ \cup {r}]
    /\ UNCHANGED <<route, records, locks, unlocked, pc, retry, proposed, strays, budget>>

\* The provider command ends, or is killed after its time.
Finish(w) ==
    /\ \E r \in running[w], kind \in Outcomes :
          /\ Answer(r, kind)
          /\ running' = [running EXCEPT ![w] = @ \ {r}]
    /\ UNCHANGED <<route, row, register, locks, unlocked, pc, slice, retry, proposed, strays>>

\* Every call has returned: the partition locks are left.
Return(w) ==
    /\ pc[w] = "call" /\ slice[w] = {} /\ running[w] = {}
    /\ ReleaseLanes(w)
    /\ Goto(w, "reconcile")
    /\ UNCHANGED <<route, records, rlane, unlocked, slice, running, retry, proposed,
                   strays, budget>>

-----------------------------------------------------------------------------
\* reconcile_provider_stage under its lock, or RuntimeError.
EnterReconcile(w) ==
    /\ pc[w] = "reconcile"
    /\ \/ rlane = NoWorker /\ rlane' = w /\ Goto(w, "normalize")
          /\ UNCHANGED <<slice, running, retry, proposed>>
       \/ rlane # NoWorker /\ GoIdle(w) /\ UNCHANGED rlane
    /\ UNCHANGED <<route, records, lane, unlocked, strays, budget>>

\* What the task_summary view shows of a request whose receipt is persisted: a
\* successful run wins over any failure, earlier or later.
RowOf(rec) ==
    IF rec.ok THEN "ready" ELSE IF rec.last = "none" THEN "pending" ELSE "failed"

\* normalize_stage_receipts and persist_completion_rows
Normalize(w) ==
    /\ pc[w] = "normalize"
    /\ row' = [r \in Request |-> RowOf(receipt[r])]
    /\ Goto(w, "propose")
    /\ UNCHANGED <<route, receipt, register, sourced, locks, unlocked, slice, running,
                   retry, proposed, strays, budget>>

\* propose_failure_register_rows without exclude_accepted_failure_rows: requests
\* with no successful run, classified by their latest run.
Propose(w) ==
    /\ pc[w] = "propose"
    /\ proposed' = [proposed EXCEPT ![w] =
          {[id |-> r, run |-> receipt[r].fails,
            status |-> IF receipt[r].last = "retryable" THEN "retry_required"
                       ELSE "auto_repair_required"] :
             r \in {q \in Request : RowOf(receipt[q]) = "failed"} \ Accepted}]
    /\ Goto(w, "persist")
    /\ UNCHANGED <<route, records, locks, unlocked, slice, running, retry, strays, budget>>

\* Mutant of Corrected: only failures that were due for a retry are closed.
CorrectedRetries(reg) ==
    [r \in Request |-> [n \in Run |->
        IF receipt[r].ok /\ reg[r][n] = "retry_required"
        THEN "corrected" ELSE reg[r][n]]]

\* mark_failure_register_requests_corrected
Corrected(reg) ==
    [r \in Request |-> [n \in Run |->
        IF receipt[r].ok /\ reg[r][n] \in OpenFailure THEN "corrected" ELSE reg[r][n]]]

\* ... and the upsert of persist_failure_register_rows by failure_id.
Upserted(reg, proposals) ==
    [r \in Request |-> [n \in Run |->
        IF \E p \in proposals : p.id = r /\ p.run = n
        THEN (CHOOSE p \in proposals : p.id = r /\ p.run = n).status
        ELSE reg[r][n]]]

Persist(w) ==
    /\ pc[w] = "persist"
    /\ register' = Upserted(Corrected(register), proposed[w])
    /\ proposed' = [proposed EXCEPT ![w] = {}]
    /\ Goto(w, "cover")
    /\ UNCHANGED <<route, receipt, row, sourced, locks, unlocked, slice, running, retry,
                   strays, budget>>

\* collect_stage_coverage for the selected target; a ready report succeeds the stage
\* in the workflow.
Cover(w) ==
    /\ pc[w] = "cover"
    /\ unlocked' = (unlocked \/ Coverage(TRUE) = "ready")
    /\ rlane' = NoWorker
    /\ GoIdle(w)
    /\ UNCHANGED <<route, records, lane, strays, budget>>

-----------------------------------------------------------------------------
\* The scheduler process dies.  Its locks name a dead pid, so they are free to
\* take, but the provider commands it had started run on.
Crash(w) ==
    /\ pc[w] # "idle" /\ budget.upset > 0
    /\ budget' = [budget EXCEPT !.upset = @ - 1]
    /\ stray' = stray \cup running[w]
    /\ strayed' = strayed \cup running[w]
    /\ ReleaseLanes(w)
    /\ rlane' = IF rlane = w THEN NoWorker ELSE rlane
    /\ GoIdle(w)
    /\ UNCHANGED <<route, records, unlocked>>

\* A dispatch from the command line for one request: no lock, no coverage check,
\* and by default no look at the failure register.
ManualCall ==
    /\ budget.upset > 0
    /\ \E r \in Request :
          /\ ~Satisfied(r)
          /\ stray' = stray \cup {r}
          /\ strayed' = strayed \cup {r}
    /\ budget' = [budget EXCEPT !.upset = @ - 1]
    /\ UNCHANGED <<route, records, locks, unlocked, local>>

StrayEnds ==
    /\ \E r \in stray, kind \in Outcomes :
          /\ Answer(r, kind)
          /\ stray' = stray \ {r}
    /\ UNCHANGED <<route, row, register, locks, unlocked, local, strayed>>

\* register_failure.py: an agent review accepts to skip a request, ahead of any
\* run, or by editing the row proposed for its latest failure.
Review ==
    /\ budget.review > 0
    /\ \E r \in Request :
          /\ ~receipt[r].ok
          /\ register' = [register EXCEPT ![r][receipt[r].fails] = "accepted_skip"]
    /\ budget' = [budget EXCEPT !.review = @ - 1]
    /\ UNCHANGED <<route, receipt, row, sourced, locks, unlocked, local, strays>>

\* The option source table, kept by another repository, loses the rows the receipts
\* speak of, or is gone (option_source_table_exists).
LoseSource ==
    /\ sourced /\ budget.upset > 0
    /\ sourced' = FALSE
    /\ budget' = [budget EXCEPT !.upset = @ - 1]
    /\ UNCHANGED <<route, receipt, row, register, locks, unlocked, local, strays>>

Step(w) ==
    \/ Look(w) \/ Enter(w) \/ Check(w) \/ Start(w) \/ Finish(w) \/ Return(w)
    \/ EnterReconcile(w) \/ Normalize(w) \/ Propose(w) \/ Persist(w) \/ Cover(w)

Next ==
    Review \/ ManualCall \/ StrayEnds \/ LoseSource \/ \E w \in Worker : Step(w) \/ Crash(w)

Spec == Init /\ [][Next]_vars

\* The scheduler keeps ticking while the stage is not succeeded.
FairSpec == Spec /\ \A w \in Worker : WF_vars(Step(w))

-----------------------------------------------------------------------------
TypeOK ==
    /\ route \in Routes
    /\ receipt \in [Request -> [ok : BOOLEAN, last : Kinds, fails : Run, empty : BOOLEAN]]
    /\ row \in [Request -> {"pending", "ready", "failed"}]
    /\ register \in [Request -> [Run -> OpenFailure \cup {"none", "accepted_skip", "corrected"}]]
    /\ sourced \in BOOLEAN
    /\ lane \in [Request -> Worker \cup {NoWorker}]
    /\ rlane \in Worker \cup {NoWorker}
    /\ unlocked \in BOOLEAN
    /\ pc \in [Worker -> {"idle", "enter", "check", "call", "reconcile",
                          "normalize", "propose", "persist", "cover"}]
    /\ slice \in [Worker -> SUBSET Request]
    /\ running \in [Worker -> SUBSET Request]
    /\ stray \subseteq strayed /\ strayed \subseteq Request
    /\ retry \in [Worker -> BOOLEAN]
    /\ \A w \in Worker : proposed[w] \subseteq
          [id : Request, run : Run, status : OpenFailure]
    /\ budget \in [fail : Nat, review : Nat, upset : Nat]

\* A request the stage counts on: its data is there, or a review gave it up.
Accounted(r) == receipt[r].ok \/ r \in Accepted

\* The one way around it is a request that is accepted as skipped and ready as
\* well, which the coverage counts twice.
OverlapIsTheOnlyHole ==
    unlocked => \/ \A r \in Request : Accounted(r)
                \/ \E r \in Accepted : receipt[r].ok

\* The option dispatch does not pay for a request twice: a run that a scheduler
\* waits for never ends on a receipt that holds a successful run already,
\* whatever runs beside it, except where a crash or a command line has left a
\* run of the same request behind.
OptionPaidOnce ==
    [][\A w \in Worker : Finish(w) /\ route = "options"
          => \A r \in running[w] \ running'[w] : receipt[r].ok => r \in strayed]_vars

\* _effective_stage_receipt: later retry failures never demote a request whose
\* row is ready, and a row is ready only on the strength of a successful run.
ReadyIsForGood ==
    [][\A r \in Request : /\ row[r] = "ready" => row'[r] = "ready"
                          /\ row'[r] = "ready" => receipt[r].ok]_vars

\* The three records agree where the stage is judged: when the coverage is taken,
\* no request whose row is ready has an open failure in the register, whichever
\* process ran it, in whatever order its runs ended, and after crashes between
\* the rows and the register.
ReadyHasNoOpenFailure ==
    [][\A w \in Worker : Cover(w) =>
          \A r \in InRow("ready") : \A n \in Run : register[r][n] \notin OpenFailure]_vars

\* What is ready stays ready, and the register has nothing against it.
ReadyIsSettled == ReadyIsForGood /\ ReadyHasNoOpenFailure

\* A failure that is neither accepted nor retried waits for a repair.
AwaitsRepair == \E r \in InRow("failed") \ Accepted : ~RetryRequired(r) /\ ~PolicyFailure(r)

\* The bars route: an accepted failure among the requests, which Refused counts as
\* unreviewed.
Jammed == route = "bars" /\ \E r \in Accepted : row[r] = "failed"

\* The options route: every request is settled and the table is empty, but too few runs
\* say that there was nothing to save.  No call repeats a request that has succeeded,
\* so nothing fills the table.
SourceMissing == GatedOut(ZeroRows)

\* The daemon brings a stage to its end, whatever order its calls, failures, reviews and
\* crashes come in; the things that keep it locked for ever are an open failure that
\* waits for a repair, a jammed bars stage and a missing option source.
OnlyReviewsAndGapsJam == <>[](unlocked \/ AwaitsRepair \/ Jammed \/ SourceMissing)
=============================================================================
