---------------------------- MODULE StageProcess ----------------------------
(* execute_stage_process: one stage run as a child process under the guard of *)
(* its executor (_run_stage_subprocess_with_progress_guard), what the guard   *)
(* stops and what it leaves, the one retry after a repair, the receipt, and   *)
(* the progress file by which the child shows that it lives.                  *)
(*                                                                            *)
(* The file is named after the worker, and every fold's worker has the same   *)
(* name: executors that work on different folds share it.                     *)
EXTENDS FiniteSets, Naturals

CONSTANTS
    Executor,   \* processes that execute stages, each a stage of its own
    Service,    \* those the service manager runs: it kills their children with them
    LongStage,  \* those whose stage is exempt from the stall limit
    Forking,    \* those whose stage starts processes of its own
    NoExecutor,
    MaxRuns,    \* bound on the stages an executor takes up
    MaxCrashes  \* bound on deaths of executors

ASSUME ProcessAssumption ==
    /\ Service \subseteq Executor /\ LongStage \subseteq Executor /\ Forking \subseteq Executor
    /\ NoExecutor \notin Executor
    /\ {MaxRuns, MaxCrashes} \subseteq Nat

VARIABLES
    pc,       \* idle, guard, stop (it has decided to), kill, verdict or recorded
    attempt,  \* 1, or 2 for the retry after a repair
    leader,   \* the child of the attempt: none, works, hangs, stuck (in the kernel) or its end
    helper,   \* a process the child has started: gone, lives or deaf (to SIGTERM)
    orphans,  \* children whose executor is dead
    file,     \* the progress file: whose entry it holds
    news,     \* the file has changed since the guard looked at it
    fresh,    \* it has changed within the stall limit
    late,     \* the attempt has reached its timeout
    verdict,  \* none, succeeded or failed: the status the guard's result gives
    receipts, \* of the attempts that wrote one: their statuses
    runs, crashes,
    finished, \* history: the child had ended by itself with 0 when it was stopped
    lapsed    \* history: executors that died or gave up with their file in place

vars == <<pc, attempt, leader, helper, orphans, file, news, fresh, late, verdict,
          receipts, runs, crashes, finished, lapsed>>

child == <<leader, helper>>
clock == <<fresh, late>>
bounds == <<runs, crashes>>
history == <<finished, lapsed>>

Alive == {"works", "hangs", "stuck"}
Ended == {"ok", "error", "signal"}

Init ==
    /\ pc = [e \in Executor |-> "idle"]
    /\ attempt = [e \in Executor |-> 1]
    /\ leader = [e \in Executor |-> "none"] /\ helper = [e \in Executor |-> "gone"]
    /\ orphans = [e \in Executor |-> "none"]
    /\ file = NoExecutor
    /\ news = [e \in Executor |-> FALSE]
    /\ fresh = [e \in Executor |-> TRUE] /\ late = [e \in Executor |-> FALSE]
    /\ verdict = [e \in Executor |-> "none"]
    /\ receipts = [e \in Executor |-> {}]
    /\ runs = [e \in Executor |-> 0] /\ crashes = 0
    /\ finished = [e \in Executor |-> FALSE] /\ lapsed = {}

Goto(e, label) == pc' = [pc EXCEPT ![e] = label]

\* worker_progress_path, write_task_progress_node: a whole new file in one step
Written(e) == file' = e /\ news' = [x \in Executor |-> TRUE]

\* The entry of the started stage, then the child: the guard starts from its own entry.
\* What is left of an earlier child is out of its sight.
Launch(e, n) ==
    /\ attempt' = [attempt EXCEPT ![e] = n]
    /\ file' = e /\ news' = [x \in Executor |-> x # e]
    /\ leader' = [leader EXCEPT ![e] = "works"]
    /\ helper' = [helper EXCEPT ![e] = "gone"]
    /\ fresh' = [fresh EXCEPT ![e] = TRUE] /\ late' = [late EXCEPT ![e] = FALSE]
    /\ verdict' = [verdict EXCEPT ![e] = "none"]
    /\ finished' = [finished EXCEPT ![e] = FALSE]
    /\ Goto(e, "guard")

Start(e) ==
    /\ pc[e] = "idle" /\ runs[e] < MaxRuns
    /\ runs' = [runs EXCEPT ![e] = @ + 1]
    /\ receipts' = [receipts EXCEPT ![e] = {}]
    /\ Launch(e, 1)
    /\ UNCHANGED <<orphans, crashes, lapsed>>

-----------------------------------------------------------------------------
(* The children (external: the components' own programs).                     *)

Child(e) == UNCHANGED <<pc, attempt, orphans, clock, verdict, receipts, bounds, history>>

\* write_task_progress_from_env
ChildReports(e) ==
    /\ leader[e] = "works"
    /\ Written(e)
    /\ Child(e) /\ UNCHANGED child

OrphanReports(e) ==
    /\ orphans[e] = "works"
    /\ Written(e)
    /\ Child(e) /\ UNCHANGED child

\* It forks, hangs, gets stuck, or ends.
ChildMoves(e) ==
    /\ leader[e] \in Alive
    /\ \/ e \in Forking /\ helper[e] = "gone" /\ leader[e] = "works" /\ UNCHANGED leader
          /\ \E h \in {"lives", "deaf"} : helper' = [helper EXCEPT ![e] = h]
       \/ leader[e] = "works" /\ UNCHANGED helper
          /\ \E s \in {"hangs", "stuck", "ok", "error"} : leader' = [leader EXCEPT ![e] = s]
    /\ Child(e) /\ UNCHANGED <<file, news>>

OrphanEnds(e) ==
    /\ orphans[e] \in Alive
    /\ orphans' = [orphans EXCEPT ![e] = "none"]
    /\ UNCHANGED <<pc, attempt, child, file, news, clock, verdict, receipts, bounds, history>>

-----------------------------------------------------------------------------
(* The guard.                                                                 *)

WindowPasses(e) ==
    /\ pc[e] = "guard" /\ ~news[e] /\ e \notin LongStage
    /\ fresh' = [fresh EXCEPT ![e] = FALSE]
    /\ UNCHANGED <<pc, attempt, child, orphans, file, news, late, verdict, receipts, bounds, history>>

TimeoutPasses(e) ==
    /\ pc[e] = "guard"
    /\ late' = [late EXCEPT ![e] = TRUE]
    /\ UNCHANGED <<pc, attempt, child, orphans, file, news, fresh, verdict, receipts, bounds, history>>

\* Mutant: a child that reports is never too late.
OverdueSilent(e, seen) == ~seen /\ e \notin LongStage

\* _stage_timeout_seconds, _stage_progress_stall_seconds
Overdue(e, seen) == late[e] \/ (~seen /\ e \notin LongStage)

\* A living tree of processes may be found over its memory limit, and the host below
\* its own, at any time (_process_tree_rss_mb, _read_available_memory_mb).
Exhausts(e) == leader[e] \in Alive

\* One round of the guard's loop: memory, progress, timeout, stall.
Poll(e) ==
    LET seen == fresh[e] \/ news[e] IN
    /\ pc[e] = "guard"
    /\ \/ /\ leader[e] \in Ended
          /\ verdict' = [verdict EXCEPT ![e] = IF leader[e] = "ok" THEN "succeeded" ELSE "failed"]
          /\ Goto(e, "verdict")
          /\ UNCHANGED <<news, fresh>>
       \/ Exhausts(e) /\ Goto(e, "stop") /\ UNCHANGED <<verdict, news, fresh>>
       \/ /\ leader[e] \in Alive
          /\ news' = [news EXCEPT ![e] = FALSE] /\ fresh' = [fresh EXCEPT ![e] = seen]
          /\ IF Overdue(e, seen) THEN Goto(e, "stop") ELSE UNCHANGED pc
          /\ UNCHANGED verdict
    /\ UNCHANGED <<attempt, child, orphans, file, late, receipts, bounds, history>>

\* The whole group is signalled; who ignores SIGTERM does not end by it.
Signalled(e) == IF helper[e] = "lives" THEN "gone" ELSE helper[e]

\* _stop_stage_process: SIGTERM, unless the child has ended since it was looked at
Stop(e) ==
    /\ pc[e] = "stop"
    /\ \/ /\ leader[e] \in Ended
          /\ finished' = [finished EXCEPT ![e] = leader[e] = "ok"]
          /\ Goto(e, "verdict") /\ verdict' = [verdict EXCEPT ![e] = "failed"]
          /\ UNCHANGED child
       \/ /\ leader[e] \in Alive
          /\ helper' = [helper EXCEPT ![e] = Signalled(e)]
          /\ \/ /\ leader[e] # "stuck"
                /\ leader' = [leader EXCEPT ![e] = "signal"]
                /\ Goto(e, "verdict") /\ verdict' = [verdict EXCEPT ![e] = "failed"]
             \/ Goto(e, "kill") /\ UNCHANGED <<leader, verdict>>
          /\ UNCHANGED finished
    /\ UNCHANGED <<attempt, orphans, file, news, clock, receipts, bounds, lapsed>>

\* SIGKILL after ten seconds, and an exception when even that does not end the child
\* within ten more: no receipt then, and the file stays.
Kill(e) ==
    /\ pc[e] = "kill"
    /\ helper' = [helper EXCEPT ![e] = "gone"]
    /\ IF leader[e] = "stuck"
       THEN /\ leader' = [leader EXCEPT ![e] = "none"] /\ Goto(e, "idle")
            /\ lapsed' = lapsed \union {e} /\ UNCHANGED verdict
       ELSE /\ leader' = [leader EXCEPT ![e] = "signal"] /\ Goto(e, "verdict")
            /\ verdict' = [verdict EXCEPT ![e] = "failed"] /\ UNCHANGED lapsed
    /\ UNCHANGED <<attempt, orphans, file, news, clock, receipts, bounds, finished>>

-----------------------------------------------------------------------------
(* The verdict.                                                               *)

\* Mutant: a failed stage keeps its entry.
RecordAndKeep(e) ==
    /\ receipts' = [receipts EXCEPT ![e] = @ \union {verdict[e]}]
    /\ file' = IF verdict[e] = "failed" THEN file ELSE NoExecutor
    /\ lapsed' = {x \in lapsed : orphans[x] # "none"}
    /\ Goto(e, "recorded")
    /\ UNCHANGED <<attempt, child, orphans, news, clock, verdict, bounds, finished>>

\* The receipt, and clear_worker_task_progress: whoever wrote the file last.
Record(e) ==
    /\ receipts' = [receipts EXCEPT ![e] = @ \union {verdict[e]}]
    /\ file' = NoExecutor
    /\ lapsed' = {x \in lapsed : orphans[x] # "none"}
    /\ Goto(e, "recorded")
    /\ UNCHANGED <<attempt, child, orphans, news, clock, verdict, bounds, finished>>

\* The diagnosis of a first failure may say that it is repaired and to be tried again
\* (_agent_diagnosis_recommends_retry).
Repaired(e) == attempt[e] = 1 /\ verdict[e] = "failed"

\* Mutant: each attempt writes its receipt before the agent is asked.
ConcludeEach(e) ==
    /\ pc[e] = "verdict"
    /\ \/ Record(e)
       \/ /\ Repaired(e)
          /\ Launch(e, 2)
          /\ receipts' = [receipts EXCEPT ![e] = @ \union {"failed"}]
          /\ UNCHANGED <<orphans, bounds, lapsed>>

\* A first failure goes to the error handler; a repair may be followed by one more
\* attempt, and the receipt of the first is written only if that fails as well.
Conclude(e) ==
    /\ pc[e] = "verdict"
    /\ \/ Record(e)
       \/ /\ Repaired(e)
          /\ Launch(e, 2)
          /\ UNCHANGED <<orphans, receipts, bounds, lapsed>>

\* execute_next_ready_stage marks the stage and is done.
Finish(e) ==
    /\ pc[e] = "recorded"
    /\ Goto(e, "idle")
    /\ UNCHANGED <<attempt, child, orphans, file, news, clock, verdict, receipts, bounds, history>>

\* The child has a session of its own: it survives an executor the service manager does
\* not run.
Crash(e) ==
    /\ pc[e] # "idle" /\ crashes < MaxCrashes
    /\ crashes' = crashes + 1
    /\ orphans' = [orphans EXCEPT ![e] = IF e \notin Service /\ leader[e] \in Alive THEN leader[e] ELSE @]
    /\ leader' = [leader EXCEPT ![e] = "none"]
    /\ helper' = [helper EXCEPT ![e] = IF e \in Service THEN "gone" ELSE @]
    /\ verdict' = [verdict EXCEPT ![e] = "none"]
    /\ lapsed' = lapsed \union {e}
    /\ Goto(e, "idle")
    /\ UNCHANGED <<attempt, file, news, clock, receipts, runs, finished>>

Next ==
    \E e \in Executor :
        \/ Start(e) \/ Poll(e) \/ Stop(e) \/ Kill(e) \/ Conclude(e) \/ Finish(e) \/ Crash(e)
        \/ ChildReports(e) \/ ChildMoves(e) \/ OrphanReports(e) \/ OrphanEnds(e)
        \/ WindowPasses(e) \/ TimeoutPasses(e)

Spec == Init /\ [][Next]_vars

\* Executors go on while they live, and time passes.  Nothing is assumed of children.
FairSpec ==
    Spec /\ \A e \in Executor :
                /\ WF_vars(Poll(e)) /\ WF_vars(Stop(e)) /\ WF_vars(Kill(e))
                /\ WF_vars(TimeoutPasses(e))

-----------------------------------------------------------------------------
(* Properties.                                                                *)

Running(e) == pc[e] \in {"guard", "stop", "kill", "verdict"}

\* Types, and no verdict while the child of the attempt lives
\* (_run_stage_subprocess_with_progress_guard).
TypeOK ==
    /\ pc \in [Executor -> {"idle", "guard", "stop", "kill", "verdict", "recorded"}]
    /\ attempt \in [Executor -> {1, 2}]
    /\ leader \in [Executor -> {"none"} \union Alive \union Ended]
    /\ helper \in [Executor -> {"gone", "lives", "deaf"}]
    /\ file \in Executor \union {NoExecutor}
    /\ receipts \in [Executor -> SUBSET {"succeeded", "failed"}]
    /\ \A e \in Executor : verdict[e] # "none" => leader[e] \in Ended

\* Who is shown as running is run, unless an executor died or gave up and nobody has
\* finished since, or the child of one that died still reports.
EntryIsOfARun == file # NoExecutor => lapsed # {} \/ \E e \in Executor : Running(e)

\* What outlives the verdict on its stage ignores SIGTERM, or was left behind by a child
\* that ended by itself (_stop_stage_process signals the group).
SurvivorHasCause ==
    \A e \in Executor :
        pc[e] = "recorded" /\ helper[e] # "gone" => helper[e] = "deaf" \/ leader[e] \in {"ok", "error"}

\* What an execution leaves behind, the entry in the progress file and processes, is there
\* for a reason.
TracesHaveCause == EntryIsOfARun /\ SurvivorHasCause

\* The receipts of one execution tell one story: a failed attempt that a retry made good
\* leaves none, and one that had done its work is failed only when the guard was already
\* stopping it.
OneStory ==
    \A e \in Executor :
        /\ Cardinality(receipts[e]) <= 1
        /\ pc[e] = "recorded" => receipts[e] = {verdict[e]}
        /\ leader[e] = "ok" /\ verdict[e] = "failed" => finished[e]

\* Both: traces and receipts.
ExecutionsAreAccountedFor == TracesHaveCause /\ OneStory

\* A child that hangs does not hold its executor for ever, whatever others write into
\* its progress file.
HungIsLeft == \A e \in Executor : (pc[e] = "guard" /\ leader[e] = "hangs") ~> pc[e] # "guard"
=============================================================================
