--------------------------- MODULE TransitionLedger ---------------------------
(* What the daemon writes down about itself and what an operator is shown.    *)
(* Every decision becomes a line of the decision log, then a line of the      *)
(* workflow ledger, then the file of the latest transition; the state of the  *)
(* daemon is stored when the iteration ends.  The status command reads these  *)
(* files one after the other, and the checkpoints last, and shows one month.  *)
EXTENDS Naturals, Sequences, SequencesExt

CONSTANTS
    MaxMonth,  \* the last complete calendar month
    MaxBytes,  \* size of a log at which it is cut; a row has size 1 or MaxBytes
    MaxRows, MaxDeaths, MaxByHand  \* bounds: rows, deaths of the daemon, months completed by hand

ASSUME LedgerAssumption ==
    /\ MaxMonth \in Nat \ {0} /\ MaxBytes \in Nat \ {0, 1}
    /\ MaxRows \in Nat /\ MaxDeaths \in Nat /\ MaxByHand \in Nat

VARIABLES
    checkpoint, \* per month: no file, open or complete
    queued,     \* a target is queued
    closed,     \* the model group of the fold is done
    daemon,     \* where the daemon is, with the row it is writing
    memory,     \* the state of the daemon, in memory
    stored,     \* and in its file
    lastLine,   \* status of the last line of the decision log
    ledger,     \* the ledger of transitions
    latest,     \* the file of the latest transition
    reader,     \* the status command: how far it has read, and what
    deaths, written, byHand,
    torn,       \* history: the daemon died between a line and the latest transition
    slipped     \* history: a month was completed between two selections of one start
ledgerVars == <<checkpoint, queued, closed, daemon, memory, stored, lastLine, ledger, latest,
                reader, deaths, written, byHand, torn, slipped>>
logs == <<stored, lastLine, ledger, latest>>
outside == <<checkpoint, queued, closed>>
bounds == <<deaths, written, byHand>>
past == <<torn, slipped>>

AllMonths == 1 .. MaxMonth
None == [month |-> 0, status |-> "none", from |-> "none", at |-> 0, size |-> 0, id |-> 0]
Is(s) == {m \in AllMonths : checkpoint[m] = s}
Known == Is("open") \cup Is("complete")
LeastOf(set) == CHOOSE m \in set : \A k \in set : m <= k
LastOf(set) == CHOOSE m \in set : \A k \in set : m >= k

\* The model group holds the lane when the months of the fold, all of them, are complete.
LaneHolds == queued /\ Is("complete") = AllMonths /\ ~closed
Gaps == IF Known = {} THEN {} ELSE {m \in AllMonths \ Known : m < LastOf(Known)}

\* select_next_historical_work
Selection ==
    IF LaneHolds THEN [month |-> 1, reason |-> "lane"]
    ELSE IF Gaps # {} THEN [month |-> LeastOf(Gaps), reason |-> "gap"]
    ELSE IF Is("open") # {} THEN [month |-> LeastOf(Is("open")), reason |-> "open"]
    ELSE IF Known = {} THEN [month |-> 1, reason |-> "first"]
    ELSE IF Known = AllMonths THEN [month |-> MaxMonth, reason |-> "wait"]
    ELSE [month |-> LastOf(Known) + 1, reason |-> "next"]

\* select_month_ingest_worker_months
IngestMonths == IF LaneHolds \/ Selection.reason = "wait" THEN {} ELSE {Selection.month}

\* The status of a transition: _selection_status, _task_status
SelectionStatus(reason) == IF reason \in {"lane", "wait"} THEN "waiting" ELSE "selected"

Row(month, at, status, from, size) ==
    [month |-> month, at |-> at, status |-> status, from |-> from, size |-> size, id |-> written + 1]

SizeOf(rows) == FoldSeq(LAMBDA r, n : r.size + n, 0, rows)

\* compact_transition_log_tail: the line in which the last MaxBytes bytes begin is dropped,
\* even if it begins there.
CutTail(rows) ==
    IF SizeOf(rows) <= MaxBytes THEN rows
    ELSE LET kept == {n \in 0 .. Len(rows) : SizeOf(SubSeq(rows, n + 1, Len(rows))) < MaxBytes}
         IN  SubSeq(rows, LeastOf(kept) + 1, Len(rows))

Fresh == [month |-> 1, reason |-> "none", complete |-> {}, open |-> {}]
Nothing == [pc |-> "down"]

LedgerInit ==
    /\ checkpoint = [m \in AllMonths |-> "absent"]
    /\ queued \in BOOLEAN /\ closed = FALSE
    /\ daemon = Nothing /\ memory = Fresh
    /\ stored = Fresh /\ lastLine = "none" /\ ledger = <<>> /\ latest = None
    /\ reader = [pc |-> "idle"]
    /\ deaths = 0 /\ written = 0 /\ byHand = 0
    /\ torn = FALSE /\ slipped = FALSE

-----------------------------------------------------------------------------
(* The daemon.                                                                *)

\* load_daemon_state, with the cursor of the file.
Start ==
    /\ daemon.pc = "down"
    /\ memory' = stored
    /\ daemon' = [pc |-> "select", then |-> "boot"]
    /\ UNCHANGED <<outside, logs, reader, bounds, past>>

\* The selection that the ledger will tell of ...
Select ==
    /\ daemon.pc = "select"
    /\ daemon' = [pc |-> "apply", then |-> daemon.then, chosen |-> Selection]
    /\ slipped' = FALSE
    /\ UNCHANGED <<outside, memory, logs, reader, bounds, torn>>

\* transition_from_work_selection
SelectionRow(chosen) ==
    Row(chosen.month, chosen.month, SelectionStatus(chosen.reason), "select", 1)

\* _append_selection_transition_if_needed: what changed is told, what is told is daemon.chosen.
Tell(next) ==
    IF next = memory
    THEN daemon' = [pc |-> daemon.then]
    ELSE /\ written < MaxRows
         /\ daemon' = [pc |-> "ledger", then |-> daemon.then, row |-> SelectionRow(daemon.chosen)]

\* ... and the one, made anew, that becomes the state of the daemon.
Apply ==
    LET next == [month |-> Selection.month, reason |-> Selection.reason,
                 complete |-> Is("complete"), open |-> Is("open")]
    IN  /\ daemon.pc = "apply"
        /\ memory' = next
        /\ Tell(next)
        /\ UNCHANGED <<outside, logs, reader, bounds, past>>

\* run_source_existing_bootstrap finds rows of earlier runs, or none.
Bootstrap ==
    /\ daemon.pc = "boot"
    /\ daemon' = [pc |-> "select", then |-> "loop"]
    /\ checkpoint' \in {checkpoint, [checkpoint EXCEPT ![memory.month] = IF @ = "absent" THEN "open" ELSE @]}
    /\ UNCHANGED <<queued, closed, memory, logs, reader, bounds, past>>

\* append_decision_log, update_state_from_decision
Decide(row, month) ==
    /\ written < MaxRows
    /\ daemon' = [pc |-> "line", row |-> row, then |-> "end"]
    /\ memory' = [memory EXCEPT !.month = month]

\* A closed gate: the decision carries no workflow plan, and so no month.
Gate ==
    /\ daemon.pc = "loop" /\ IngestMonths # {}
    /\ \E m \in IngestMonths : Decide(Row(0, m, "waiting", "tick", 1), m)
    /\ UNCHANGED <<outside, logs, reader, bounds, past>>

\* A decision about a month; its checkpoint was stored before.
Tick ==
    /\ daemon.pc = "loop" /\ IngestMonths # {}
    /\ \E m \in IngestMonths, how \in {"complete", "open", "stuck"}, size \in {1, MaxBytes} :
         /\ checkpoint' = [checkpoint EXCEPT ![m] = IF how = "stuck" THEN @ ELSE how]
         /\ Decide(Row(m, m, IF how = "stuck" THEN "waiting" ELSE "completed", "tick", size), m)
    /\ UNCHANGED <<queued, closed, logs, reader, bounds, past>>

\* Decisions about the inputs and the replay of the model group name the first month of its
\* fold; the state keeps the month of the daemon.
LaneInputs ==
    /\ daemon.pc = "loop" /\ LaneHolds
    /\ \E status \in {"completed", "waiting"} : Decide(Row(1, 1, status, "tick", 1), memory.month)
    /\ UNCHANGED <<outside, logs, reader, bounds, past>>

\* Its evaluation closes it.
LaneVerdict ==
    /\ daemon.pc = "loop" /\ LaneHolds
    /\ closed' = TRUE
    /\ Decide(Row(1, 1, "completed", "tick", 1), memory.month)
    /\ UNCHANGED <<checkpoint, queued, logs, reader, bounds, past>>

\* An iteration in which the model group has nothing to decide.
LaneWaits ==
    /\ daemon.pc = "loop" /\ LaneHolds /\ memory.month # 1
    /\ memory' = [memory EXCEPT !.month = 1]
    /\ daemon' = [pc |-> "end"]
    /\ UNCHANGED <<outside, logs, reader, bounds, past>>

\* An exception: the daemon remembers the month of its last decision, not the one it works on.
Raise ==
    /\ \/ daemon.pc = "loop" /\ (IngestMonths # {} \/ LaneHolds)
       \/ daemon.pc = "end" /\ LaneHolds
    /\ written < MaxRows
    /\ daemon' = [pc |-> "ledger", then |-> "save",
                  row |-> Row(memory.month, Selection.month, "failed", "tick", 1)]
    /\ UNCHANGED <<outside, memory, logs, reader, bounds, past>>

\* append_decision_log
WriteLine ==
    /\ daemon.pc = "line"
    /\ lastLine' = IF daemon.row.size < MaxBytes THEN daemon.row.status ELSE "none"
    /\ daemon' = [daemon EXCEPT !.pc = "ledger"]
    /\ UNCHANGED <<outside, memory, stored, ledger, latest, reader, bounds, past>>

\* append_transition, append_work_selection_transition: a line ...
WriteLedger ==
    /\ daemon.pc = "ledger"
    /\ ledger' = Append(ledger, daemon.row)
    /\ written' = written + 1
    /\ daemon' = [daemon EXCEPT !.pc = "latest"]
    /\ UNCHANGED <<outside, memory, stored, lastLine, latest, reader, deaths, byHand, past>>

\* ... the latest transition, and the cut.
WriteLatest ==
    /\ daemon.pc = "latest"
    /\ latest' = daemon.row
    /\ ledger' = CutTail(ledger)
    /\ torn' = FALSE
    /\ daemon' = [pc |-> daemon.then]
    /\ UNCHANGED <<outside, memory, stored, lastLine, reader, bounds, slipped>>

\* write_daemon_state
Save ==
    /\ daemon.pc \in {"end", "save"}
    /\ stored' = memory /\ daemon' = [pc |-> "loop"]
    /\ UNCHANGED <<outside, memory, lastLine, ledger, latest, reader, bounds, past>>

Perish ==
    /\ daemon.pc # "down" /\ deaths < MaxDeaths
    /\ daemon' = Nothing /\ memory' = Fresh
    /\ deaths' = deaths + 1
    /\ torn' = (torn \/ daemon.pc = "latest")
    /\ UNCHANGED <<outside, logs, reader, written, byHand, slipped>>

\* An operator runs a month to its end, as apply_auto_work_selection expects.
CompleteByHand(m) ==
    /\ checkpoint[m] # "complete" /\ byHand < MaxByHand
    /\ checkpoint' = [checkpoint EXCEPT ![m] = "complete"]
    /\ byHand' = byHand + 1
    /\ slipped' = (slipped \/ daemon.pc = "apply")
    /\ UNCHANGED <<queued, closed, daemon, memory, logs, reader, deaths, written, torn>>

-----------------------------------------------------------------------------
(* collect_historical_scheduler_status                                        *)

ReadState ==
    /\ reader.pc = "idle"
    /\ reader' = [pc |-> "state", state |-> stored.month]
    /\ UNCHANGED <<outside, daemon, memory, logs, bounds, past>>

\* The decision log, of which only a missing transition makes something, and the transition.
ReadRows ==
    /\ reader.pc = "state"
    /\ reader' = [pc |-> "rows", state |-> reader.state, line |-> lastLine, row |-> latest]
    /\ UNCHANGED <<outside, daemon, memory, logs, bounds, past>>

\* Mutant: the month of the state, complete or not.
StateMonthTrusting(month) == month

\* stale_completed_state: the month of the state counts unless it is complete, or the model
\* group has the lane, and another one is selected.
StateMonth(month) ==
    IF checkpoint[month] = "complete" \/ LaneHolds THEN Selection.month ELSE month

MonthShown(state, row) == IF row.month # 0 THEN row.month ELSE StateMonth(state)

\* blocked_reason, which the checkpoint of the month shown can take back.
ReasonShown(month, line, row) ==
    /\ IF row # None THEN row.status \in {"waiting", "failed"}
       ELSE \/ LaneHolds
            \/ line = "waiting"
    /\ ~(queued /\ row # None /\ checkpoint[month] = "complete")

Show ==
    /\ reader.pc = "rows"
    /\ LET month == MonthShown(reader.state, reader.row) IN
         reader' = [pc |-> "shown", row |-> reader.row, month |-> month,
                    blocked |-> ReasonShown(month, reader.line, reader.row),
                    complete |-> Is("complete"), chosen |-> Selection.month]
    /\ UNCHANGED <<outside, daemon, memory, logs, bounds, past>>

\* The next status starts anew.
Look == reader.pc = "shown" /\ reader' = [pc |-> "idle"] /\ UNCHANGED <<outside, daemon, memory, logs, bounds, past>>

DaemonWrites == WriteLine \/ WriteLedger \/ WriteLatest \/ Save
DaemonStarts == Start \/ Select \/ Apply \/ Bootstrap
DaemonDecides == Gate \/ Tick \/ LaneInputs \/ LaneVerdict \/ LaneWaits \/ Raise
StatusReads == ReadState \/ ReadRows \/ Show
LedgerNext ==
    \/ Look
    \/ /\ reader.pc # "shown"
       /\ \/ DaemonStarts \/ DaemonDecides \/ DaemonWrites \/ Perish
          \/ \E m \in AllMonths : CompleteByHand(m)
          \/ StatusReads
LedgerSpec == LedgerInit /\ [][LedgerNext]_ledgerVars

-----------------------------------------------------------------------------
(* Properties.                                                                *)

\* The file of the latest transition tells the last line of the ledger, unless the daemon is
\* between the two, died there, or the line was as long as the whole log may be and was cut
\* away itself.
LatestIsLast ==
    \/ daemon.pc = "latest" \/ torn
    \/ ledger = <<>> /\ (latest = None \/ latest.size = MaxBytes)
    \/ ledger # <<>> /\ Last(ledger) = latest

\* A selection in the ledger names the month that the daemon then works on, unless an
\* operator completed one between its two selections.
SelectionIsApplied ==
    daemon.pc = "boot" /\ latest.from = "select" /\ ~torn /\ latest.id = written
        => latest.month = memory.month \/ slipped

\* The status shows a complete month only because the latest transition names it, or because
\* it is itself the month selected: no other order of reads and writes brings it back.
ShownIsExplained ==
    reader.pc = "shown" /\ reader.month \in reader.complete =>
        reader.month \in {reader.row.month, reader.chosen}

\* A failure is recorded under another month than the one that failed only when the month it
\* names is complete, or when a later month than both was completed before them (by hand: the
\* daemon itself leaves no gap); with a target in the queue a failure recorded under a complete
\* month is not shown as a reason at all.
FailureIsShown ==
    reader.pc = "shown" /\ reader.row.status = "failed" =>
        /\ reader.row.month # reader.row.at =>
             \/ reader.row.month \in reader.complete
             \/ \E k \in reader.complete : reader.row.month < k /\ reader.row.at < k
        /\ ~reader.blocked <=> queued /\ reader.row.month \in reader.complete

StatusIsExplained == LatestIsLast /\ SelectionIsApplied /\ ShownIsExplained /\ FailureIsShown
=============================================================================
