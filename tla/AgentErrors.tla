----------------------------- MODULE AgentErrors -----------------------------
(* Server errors and the agent that repairs them: handle_server_error, called *)
(* by the stage executor, the reconcile step, the daemon and its wrapper, and *)
(* the closure controller a systemd timer starts every minute.                *)
(*                                                                            *)
(* A request directory holds three files: the request, the agent's diagnosis  *)
(* and the closure receipt.  Handlers and controller write the diagnosis      *)
(* without a lock; only the catalog of error numbers is locked.               *)
EXTENDS SequencesExt

CONSTANTS
    Handler,     \* processes that meet errors
    Daemon,      \* the handler the scheduler service runs
    Order,       \* request ids in the order of their directory names
    Fingerprint,       \* the fingerprint of each request
    Sites,       \* where an error may come from
    Window,      \* MANAGER_AGENT_ERROR_DEDUP_SECONDS
    Limit,       \* --limit of the closure controller
    MaxTime,     \* bound on time, in units the window is measured in
    MaxRaises,   \* bound on the calls of handle_server_error
    MaxUpsets    \* bound on crashes and requests that grow old together

Request == ToSet(Order)
Fingerprints == {Fingerprint[r] : r \in Request}

ASSUME ErrorAssumption ==
    /\ Order \in Seq(Request) /\ Order # <<>> /\ IsInjective(Order)
    /\ DOMAIN Fingerprint = Request
    /\ Daemon \in Handler
    /\ Sites \subseteq {"stage", "timed", "provider", "wrapper"}
    /\ Limit \in Nat \ {0}
    /\ MaxTime > 0 /\ {Window, MaxTime, MaxRaises, MaxUpsets} \subseteq Nat

VARIABLES
    site,      \* where the errors of a fingerprint come from
    now,
    catalog,   \* rows: [request, number, dup, at]
    files,     \* requests with a request file, the last written last
    old,       \* requests whose file is past the age for recovery
    diagnosis, \* agent_error_diagnosis.json: its status and verdict
    receipt,   \* agent_repair_closure_receipt.json: its closure status
    pc, job,   \* of each handler; job: [request, number, dup, got]
    closer,    \* the controller: [at, todo, request]
    raised,    \* the times each request was raised
    good,      \* the last time the work of a fingerprint succeeded, 0 for never
    acted,     \* history: pushes and restarts for a request
    alerts,    \* history: alerts sent, [number, request, at]
    died,      \* history: requests whose handler or controller died or was killed
    budget

vars == <<site, now, catalog, files, old, diagnosis, receipt, pc, job, closer,
          raised, good, acted, alerts, died, budget>>

artifacts == <<files, old, diagnosis, receipt>>
world == <<site, now, raised, good>>

\* A completed diagnosis reports a repair, no need for one, or something only a person
\* can close.  "unanswered" is the one of a call that failed or timed out, or was
\* queued with no call to wait for: the code treats these alike.
Completed == {"repaired", "noaction", "manual"}
Outcome == Completed \union {"unanswered"}

\* No need for a repair is what the agent says of a daemon that met the lock of
\* another, an error of the daemon's wrapper script.
Replies(r) == IF site[Fingerprint[r]] = "wrapper" THEN Outcome ELSE Outcome \ {"noaction"}

NoJob == [request |-> Order[1], number |-> 0, dup |-> FALSE, got |-> "none"]
Resting == [at |-> "close", todo |-> {}, request |-> Order[1]]

Numbers == {catalog[i].number : i \in DOMAIN catalog}
RowsOf(r) == {i \in DOMAIN catalog : catalog[i].request = r}
Registered(r) == RowsOf(r) # {}

\* Mutant: any earlier row of the fingerprint, however old.
RecentForEver(r) ==
    {i \in DOMAIN catalog : Fingerprint[catalog[i].request] = Fingerprint[r]}

\* The rows an error may be a repetition of.
Recent(r) ==
    {i \in DOMAIN catalog : /\ Fingerprint[catalog[i].request] = Fingerprint[r]
                            /\ now - catalog[i].at <= Window}

\* register_error_in_catalog, under the catalog's lock.  A known request id gets
\* its old row back, flags and all; the latest of the recent rows gives its number.
NewRow(r) ==
    IF Recent(r) # {}
    THEN [request |-> r, number |-> catalog[Max(Recent(r))].number, dup |-> TRUE, at |-> now]
    ELSE [request |-> r, number |-> Max(Numbers \union {0}) + 1, dup |-> FALSE, at |-> now]
RowFor(r) == IF Registered(r) THEN catalog[Min(RowsOf(r))] ELSE NewRow(r)

\* The id of an error is a digest of its fingerprint and its moment, except that
\* the reconcile step's is a digest of the failed requests.
MayRaise(r) == Registered(r) => site[Fingerprint[r]] = "provider"

Register(h, r) ==
    /\ pc[h] = "idle"
    /\ MayRaise(r)
    /\ budget.raises > 0
    /\ catalog' = IF Registered(r) THEN catalog ELSE Append(catalog, RowFor(r))
    /\ job' = [job EXCEPT ![h] = [request |-> r, number |-> RowFor(r).number,
                                  dup |-> RowFor(r).dup, got |-> "none"]]
    /\ pc' = [pc EXCEPT ![h] = "registered"]
    /\ raised' = [raised EXCEPT ![r] = Append(@, now)]
    /\ good' = IF site[Fingerprint[r]] = "provider" THEN [good EXCEPT ![Fingerprint[r]] = 0] ELSE good
    /\ budget' = [budget EXCEPT !.raises = @ - 1]
    /\ UNCHANGED <<site, now, artifacts, closer, acted, alerts, died>>

Leave(h) == pc' = [pc EXCEPT ![h] = "idle"] /\ job' = [job EXCEPT ![h] = NoJob]

\* write_json_artifact of the request, which makes its file the last one written.
Without(s, r) == IF r \in ToSet(s) THEN RemoveAt(s, CHOOSE i \in DOMAIN s : s[i] = r) ELSE s

WriteRequest(h) ==
    LET r == job[h].request
    IN  /\ pc[h] = "registered"
        /\ files' = Append(Without(files, r), r)
        /\ old' = old \ {r}
        /\ pc' = [pc EXCEPT ![h] = "filed"]
        /\ UNCHANGED <<site, now, catalog, diagnosis, receipt, job, closer, raised,
                       good, acted, alerts, died, budget>>

\* The diagnosis a handler writes, and keeps to write once more.
Put(h, d, next) ==
    /\ diagnosis' = [diagnosis EXCEPT ![job[h].request] = d]
    /\ job' = [job EXCEPT ![h].got = d]
    /\ pc' = [pc EXCEPT ![h] = next]
    /\ UNCHANGED <<world, catalog, files, old, receipt, closer, acted, alerts, died, budget>>

\* With a runner configured and wanted, "agent runner call pending".
CallAgent(h) == pc[h] = "filed" /\ Put(h, "pending", "agent")
QueueOnly(h) == pc[h] = "filed" /\ Put(h, "unanswered", "notify")

\* The runner returns, fails or times out.
AgentEnds(h) == pc[h] = "agent" /\ \E d \in Replies(job[h].request) : Put(h, d, "notify")

\* The alert, unless the error is a repetition, and the diagnosis once more, with the
\* result of the alert.  The executor runs a repaired stage again.
Notify(h) ==
    LET r == job[h].request
    IN  /\ pc[h] = "notify"
        /\ alerts' = IF job[h].dup THEN alerts
                     ELSE Append(alerts, [number |-> job[h].number, request |-> r, at |-> now])
        /\ diagnosis' = [diagnosis EXCEPT ![r] = job[h].got]
        /\ \/ Leave(h)
           \/ /\ job[h].got = "repaired"
              /\ site[Fingerprint[r]] = "stage"
              /\ pc' = [pc EXCEPT ![h] = "retry"]
              /\ job' = job
        /\ UNCHANGED <<world, catalog, files, old, receipt, closer, acted, died, budget>>

\* execute_stage_process with repair_retry_attempted: a failure raises nothing.
RetryEnds(h) ==
    /\ pc[h] = "retry"
    /\ Leave(h)
    /\ \/ good' = [good EXCEPT ![Fingerprint[job[h].request]] = now]
       \/ good' = good
    /\ UNCHANGED <<site, now, catalog, artifacts, closer, raised, acted, alerts, died,
                   budget>>

-----------------------------------------------------------------------------
\* What the controller reads.
Filed(r) == r \in ToSet(files)

\* Mutant: a request without any diagnosis is not looked for.
NeedsAnswer(r) == Filed(r) /\ receipt[r] = "none" /\ r \notin old /\ diagnosis[r] = "pending"

\* What a run of the controller takes up of the requests in a line: the first Limit.
InLine(r, place) == [request |-> r, place |-> place]
FirstOf(line) == {x \in line : Cardinality({y \in line : y.place < x.place}) < Limit}

\* discover_agent_diagnosis_candidates, the newest request first.
NeedsAgent(r) ==
    /\ Filed(r) /\ receipt[r] = "none" /\ r \notin old
    /\ diagnosis[r] \in {"none", "pending"}
AgentCandidates ==
    FirstOf({InLine(files[i], Len(files) - i) : i \in {j \in DOMAIN files : NeedsAgent(files[j])}})

\* discover_closure_candidates, in the order of the directories.
NeedsClosure(r) == Filed(r) /\ diagnosis[r] # "none" /\ receipt[r] # "closed"
ClosureCandidates ==
    FirstOf({InLine(Order[i], i) : i \in {j \in DOMAIN Order : NeedsClosure(Order[j])}})

\* The work an error interrupted has succeeded: any receipt of the stage will
\* do; a replay or a decision has to be of the request's time or later.
Evidence(r) ==
    CASE site[Fingerprint[r]] = "stage" -> good[Fingerprint[r]] > 0
      [] site[Fingerprint[r]] = "timed" -> good[Fingerprint[r]] >= Last(raised[r])
      [] OTHER -> FALSE

\* The failure register is asked only while the diagnosis is not completed.
RegisterResolved(r) == site[Fingerprint[r]] = "provider" /\ good[Fingerprint[r]] > 0

\* Mutant: a blocked closure is judged like a new one.
VerdictAgain(r) ==
    IF Evidence(r) THEN "closed"
    ELSE IF diagnosis[r] \notin Completed
         THEN IF RegisterResolved(r) THEN "closed" ELSE "pending"
    ELSE IF diagnosis[r] = "noaction" THEN "closed"
    ELSE IF diagnosis[r] = "manual" THEN "blocked"
    ELSE "act"

\* Mutant: whatever the agent completed is closed.
VerdictTrusting(r) ==
    IF Evidence(r) THEN "closed"
    ELSE IF diagnosis[r] \notin Completed
         THEN IF RegisterResolved(r) THEN "closed" ELSE "pending"
    ELSE IF diagnosis[r] \in {"noaction", "manual"} THEN "closed"
    ELSE IF receipt[r] = "blocked" THEN "blocked"
    ELSE "act"

\* close_agent_repair up to the actions, in the order of its branches.
Verdict(r) ==
    IF Evidence(r) THEN "closed"
    ELSE IF diagnosis[r] \notin Completed
         THEN IF RegisterResolved(r) THEN "closed" ELSE "pending"
    ELSE IF diagnosis[r] = "noaction" THEN "closed"
    ELSE IF receipt[r] = "blocked" \/ diagnosis[r] = "manual" THEN "blocked"
    ELSE "act"

\* close_pending_agent_repairs, once a minute: first run_pending_agent_diagnoses.
StartClosure ==
    /\ closer.at = "close" /\ closer.todo = {}
    /\ closer' = IF AgentCandidates # {}
                 THEN [closer EXCEPT !.at = "recover", !.todo = AgentCandidates]
                 ELSE [closer EXCEPT !.todo = ClosureCandidates]
    /\ UNCHANGED <<world, catalog, artifacts, pc, job, acted, alerts, died, budget>>

\* The next candidate, and the controller's turn to it or past it.
InTurn == {x \in closer.todo : \A y \in closer.todo : x.place <= y.place}
Turn(at, x) == [at |-> at, todo |-> closer.todo \ {x}, request |-> x.request]
Past(at, x) == [Turn(at, x) EXCEPT !.request = Order[1]]

\* Mutant: with no runner configured the diagnosis is left pending.
RecoverSilently ==
    /\ closer.at = "recover"
    /\ \E x \in InTurn :
          /\ diagnosis' = [diagnosis EXCEPT ![x.request] = "pending"]
          /\ closer' \in {Turn("agent", x), Past("recover", x)}
    /\ UNCHANGED <<world, catalog, files, old, receipt, pc, job, acted, alerts, died, budget>>

\* run_agent_diagnosis of the next candidate; with no runner configured the
\* diagnosis says so instead.
Recover ==
    /\ closer.at = "recover"
    /\ \E x \in InTurn :
          \/ /\ diagnosis' = [diagnosis EXCEPT ![x.request] = "pending"]
             /\ closer' = Turn("agent", x)
          \/ /\ diagnosis' = [diagnosis EXCEPT ![x.request] = "unanswered"]
             /\ closer' = Past("recover", x)
    /\ UNCHANGED <<world, catalog, files, old, receipt, pc, job, acted, alerts, died, budget>>

RecoveryEnds ==
    /\ closer.at = "agent"
    /\ \E d \in Replies(closer.request) : diagnosis' = [diagnosis EXCEPT ![closer.request] = d]
    /\ closer' = [closer EXCEPT !.at = "recover", !.request = Order[1]]
    /\ UNCHANGED <<world, catalog, files, old, receipt, pc, job, acted, alerts, died, budget>>

StartClosing ==
    /\ closer.at = "recover" /\ closer.todo = {}
    /\ closer' = [closer EXCEPT !.at = "close", !.todo = ClosureCandidates]
    /\ UNCHANGED <<world, catalog, artifacts, pc, job, acted, alerts, died, budget>>

\* close_agent_repair of the next candidate, up to the receipt; a pending one gets none.
Judge ==
    /\ closer.at = "close"
    /\ \E x \in InTurn :
          /\ Verdict(x.request) # "act"
          /\ closer' = Past("close", x)
          /\ receipt' = IF Verdict(x.request) = "pending" THEN receipt
                        ELSE [receipt EXCEPT ![x.request] = Verdict(x.request)]
    /\ UNCHANGED <<world, catalog, files, old, diagnosis, pc, job, acted, alerts, died, budget>>

\* The pushes and, if the repair asks for it, the restart of the scheduler, which
\* kills what the service is doing, its agent or retried stage included.
Act ==
    /\ closer.at = "close"
    /\ \E x \in InTurn :
          /\ Verdict(x.request) = "act"
          /\ closer' = Turn("acted", x)
          /\ acted' = [acted EXCEPT ![x.request] = @ + 1]
    /\ \/ UNCHANGED <<pc, job, died>>
       \/ /\ pc[Daemon] # "idle"
          /\ Leave(Daemon)
          /\ died' = died \union {job[Daemon].request}
    /\ UNCHANGED <<world, catalog, artifacts, alerts, budget>>

\* The receipt, closed unless an action failed or was blocked.
Close ==
    /\ closer.at = "acted"
    /\ \E s \in {"closed", "blocked"} : receipt' = [receipt EXCEPT ![closer.request] = s]
    /\ closer' = [closer EXCEPT !.at = "close", !.request = Order[1]]
    /\ UNCHANGED <<world, catalog, files, old, diagnosis, pc, job, acted, alerts, died, budget>>

-----------------------------------------------------------------------------
\* A later tick completes what had failed; only of a stage does it matter that
\* it succeeded before it failed.
Succeed(p) ==
    /\ good[p] # now
    /\ site[p] = "stage" \/ \E r \in Request : Fingerprint[r] = p /\ Registered(r)
    /\ good' = [good EXCEPT ![p] = now]
    /\ UNCHANGED <<site, now, catalog, artifacts, pc, job, closer, raised, acted, alerts,
                   died, budget>>

Crash(h) ==
    /\ pc[h] # "idle" /\ budget.upsets > 0
    /\ Leave(h)
    /\ died' = died \union {job[h].request}
    /\ budget' = [budget EXCEPT !.upsets = @ - 1]
    /\ UNCHANGED <<world, catalog, artifacts, closer, acted, alerts>>

CrashCloser ==
    /\ closer.at \in {"agent", "acted"} /\ budget.upsets > 0
    /\ closer' = Resting
    /\ died' = died \union {closer.request}
    /\ budget' = [budget EXCEPT !.upsets = @ - 1]
    /\ UNCHANGED <<world, catalog, artifacts, pc, job, acted, alerts>>

\* The window and the age are longer than a handler waits for the runner.
Quiet(h) == pc[h] \in {"idle", "retry"}

\* The age of a request file passes MANAGER_AGENT_ERROR_RECOVERY_MAX_AGE_SECONDS.
GrowOld(r) ==
    /\ Filed(r) /\ r \notin old /\ budget.upsets > 0
    /\ \A h \in Handler : Quiet(h)
    /\ old' = old \union {r}
    /\ budget' = [budget EXCEPT !.upsets = @ - 1]
    /\ UNCHANGED <<world, catalog, files, diagnosis, receipt, pc, job, closer, acted,
                   alerts, died>>

TimePasses ==
    /\ now < MaxTime
    /\ \A h \in Handler : Quiet(h)
    /\ now' = now + 1
    /\ UNCHANGED <<site, raised, good, catalog, artifacts, pc, job, closer, acted, alerts,
                   died, budget>>

Init ==
    /\ site \in [Fingerprints -> Sites]
    /\ now = 1
    /\ catalog = <<>> /\ files = <<>> /\ old = {}
    /\ diagnosis = [r \in Request |-> "none"]
    /\ receipt = [r \in Request |-> "none"]
    /\ pc = [h \in Handler |-> "idle"]
    /\ job = [h \in Handler |-> NoJob]
    /\ closer = Resting
    /\ raised = [r \in Request |-> <<>>]
    /\ good = [p \in Fingerprints |-> 0]
    /\ acted = [r \in Request |-> 0]
    /\ alerts = <<>> /\ died = {}
    /\ budget = [raises |-> MaxRaises, upsets |-> MaxUpsets]

Handle(h) ==
    \/ WriteRequest(h) \/ CallAgent(h) \/ QueueOnly(h) \/ AgentEnds(h)
    \/ Notify(h) \/ RetryEnds(h)

Closure ==
    \/ StartClosure \/ Recover \/ RecoveryEnds \/ StartClosing \/ Judge \/ Act \/ Close

Next ==
    \/ \E h \in Handler : Handle(h) \/ Crash(h) \/ \E r \in Request : Register(h, r)
    \/ Closure \/ CrashCloser
    \/ \E r \in Request : GrowOld(r)
    \/ \E p \in Fingerprints : Succeed(p)
    \/ TimePasses

Spec == Init /\ [][Next]_vars
-----------------------------------------------------------------------------
(* Properties *)

TypeOK ==
    /\ site \in [Fingerprints -> Sites]
    /\ now \in 1..MaxTime
    /\ catalog \in Seq([request : Request, number : Nat, dup : BOOLEAN, at : 1..MaxTime])
    /\ files \in Seq(Request) /\ old \subseteq Request
    /\ diagnosis \in [Request -> Outcome \union {"none", "pending"}]
    /\ receipt \in [Request -> {"none", "closed", "blocked"}]
    /\ pc \in [Handler -> {"idle", "registered", "filed", "agent", "notify", "retry"}]
    /\ job \in [Handler -> [request : Request, number : Nat, dup : BOOLEAN,
                            got : Outcome \union {"none", "pending"}]]
    /\ closer \in [at : {"recover", "agent", "close", "acted"},
                   todo : SUBSET [request : Request, place : Nat], request : Request]
    /\ raised \in [Request -> Seq(1..MaxTime)]
    /\ good \in [Fingerprints -> 0..MaxTime]
    /\ acted \in [Request -> Nat]
    /\ alerts \in Seq([number : Nat, request : Request, at : 1..MaxTime])
    /\ died \subseteq Request
    /\ budget \in [raises : 0..MaxRaises, upsets : 0..MaxUpsets]

\* An owner-facing number stands for one fingerprint, was given out once, and each
\* of its later occurrences came within the window of the one before: whatever
\* handlers register at the same time (register_error_in_catalog).
NumberIsOneError ==
    \A i, j \in DOMAIN catalog :
        /\ i # j => catalog[i].request # catalog[j].request
        /\ catalog[i].number = catalog[j].number =>
              Fingerprint[catalog[i].request] = Fingerprint[catalog[j].request]
        /\ (i < j /\ ~catalog[j].dup) => catalog[i].number < catalog[j].number
        /\ catalog[j].dup =>
              \E k \in 1..(j - 1) : /\ catalog[k].number = catalog[j].number
                                    /\ catalog[j].at - catalog[k].at <= Window

\* A second alert of a number is a request that was raised again: repetitions of an
\* error under ids of their own are silent (handle_server_error's suppression).
AlertsRepeatOnlyOnReraise ==
    \A i, j \in DOMAIN alerts :
        (i < j /\ alerts[i].number = alerts[j].number) =>
            /\ alerts[i].request = alerts[j].request
            /\ Len(raised[alerts[i].request]) > 1

\* The owner sees an error under one number, and is called again for it only when the
\* request itself was raised again.
NumbersAreKept == NumberIsOneError /\ AlertsRepeatOnlyOnReraise

\* A diagnosis left at "runner call pending" has someone who waits for the runner,
\* or the one who did was killed: although handler and controller overwrite each
\* other's diagnoses, neither leaves the other's call recorded as pending.
PendingHasACaller ==
    \A r \in Request : diagnosis[r] = "pending" =>
        \/ \E h \in Handler : job[h].request = r /\ pc[h] \in {"agent", "notify"}
        \/ closer.at = "agent" /\ closer.request = r
        \/ r \in died

\* A closed request has been acted upon, needed nothing, or its work has succeeded:
\* a repair the agent reports is not closure by itself.  (A handler may write a later
\* verdict over the one the controller judged, so "noaction" is looked for in what was
\* judged: here, in requests that neither succeeded nor were acted on.)
ClosedHasCause ==
    [][\A r \in Request : (receipt[r] # "closed" /\ receipt'[r] = "closed") =>
          acted'[r] > 0 \/ good[Fingerprint[r]] > 0 \/ diagnosis[r] = "noaction"]_vars

\* Pushes and the restart of the scheduler are done once for a request, unless the
\* controller died between them and the receipt: a blocked closure does not repeat them.
ActedOnce == \A r \in Request : acted[r] > 1 => r \in died

\* A request nobody is at work on and without a receipt will be taken up by the
\* controller's next runs, except in the ways in which nothing in the code ever takes it
\* up again: its handler died before the request was filed, it grew old before an agent
\* answered, its call failed or was never made, or Limit requests before it in the
\* directory have the places of every run.
Waits(r) == Registered(r) /\ receipt[r] = "none"
AtWork(r) ==
    \/ \E h \in Handler : job[h].request = r /\ pc[h] \notin {"idle", "retry"}
    \/ closer.request = r /\ closer.at \in {"agent", "acted"}
Before(q, r) == \E i, j \in DOMAIN Order : i < j /\ Order[i] = q /\ Order[j] = r
Forgotten(r) ==
    \/ ~Filed(r)
    \/ diagnosis[r] \in {"none", "pending"} /\ r \in old
    \/ diagnosis[r] = "unanswered"
    \/ Cardinality({q \in Request : Before(q, r) /\ NeedsClosure(q)}) >= Limit
OnlyForgottenWait ==
    \A r \in Request : Waits(r) /\ ~AtWork(r) /\ ~Forgotten(r) =>
        \/ NeedsAgent(r)
        \/ (\E x \in ClosureCandidates : x.request = r) /\ Verdict(r) # "pending"
=============================================================================
