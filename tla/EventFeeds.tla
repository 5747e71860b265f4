----------------------------- MODULE EventFeeds ----------------------------
(* The monthly event feeds of M03: task keys prepared without provider calls  *)
(* (event_feed_backfill.py), the dispatcher that buys them one by one         *)
(* (event_feed_dispatch.py), the receipts and saved files that later count as *)
(* coverage (event_feed_coverage.py), and the materialization of the event    *)
(* pool of a fold (model_03_event_impact_inputs.py).                          *)
(*                                                                            *)
(* A request names a target, yet the output directory of its key is that of   *)
(* the source and the month: all targets share one receipt.  The dispatcher   *)
(* takes no lock.                                                             *)
EXTENDS FiniteSets, Integers, Sequences

CONSTANTS
    FeedOrder,     \* the feeds in the order of the plan, a sequence
    Months,        \* the months of the window, 1 .. n
    Targets,       \* the target symbols
    Dispatchers,   \* the dispatcher processes
    Prepared,      \* the preparations operators and routes ask for
    Commands,      \* the dispatches operators ask for
    MaxCalls,      \* bound on the feed commands started
    MaxCompacted   \* bound on the slots compacted

Feeds == {FeedOrder[i] : i \in DOMAIN FeedOrder}
ASSUME FeedsAssumption ==
    /\ IsFiniteSet(Months) /\ Months # {} /\ Months = 1 .. Cardinality(Months)
    /\ FeedOrder \in Seq(Feeds) /\ FeedOrder # <<>> /\ MaxCalls \in Nat /\ MaxCompacted \in Nat
    /\ Prepared \subseteq [target : Targets, feeds : SUBSET Feeds]
    /\ Commands \subseteq [target : Targets, feeds : SUBSET Feeds, limit : 0 .. 1, goOn : BOOLEAN]

Slots == Feeds \X Months
Requests == [feed : Feeds, month : Months, target : Targets]
SlotOf(r) == <<r.feed, r.month>>
NoLimit == 0
NoReceipt == [by |-> {}, rows |-> FALSE]

VARIABLES
    keys,       \* requests whose task key is on disk
    receipt,    \* per slot, whose runs its completion receipt says succeeded, and if with rows
    saved,      \* slots with a saved artifact file
    runtime,    \* requests whose runtime key (live calls allowed) is on disk
    disp,       \* the dispatchers
    pool,       \* the sources of the last materialization receipt of M03
    orphans,    \* requests whose feed outlives its dispatcher
    called,     \* history: the feed commands started
    bought,     \* history: how often each request was bought
    raced,      \* history: requests called while another call of them was running
    compacted   \* history: slots whose receipt was compacted away
vars == <<keys, receipt, saved, runtime, disp, orphans, pool, called, bought, raced, compacted>>
ledger == <<called, bought, raced, compacted>>

-----------------------------------------------------------------------------
(* The plan and its filter.                                                   *)

\* Months first, feeds within a month: the place of a request in the plan of its target.
PlaceOf(feed) == CHOOSE i \in DOMAIN FeedOrder : FeedOrder[i] = feed
Place(r) == (r.month - 1) * Len(FeedOrder) + PlaceOf(r.feed)

FilterRequests(target, feeds) ==
    {r \in Requests : r.target = target /\ (feeds = {} \/ r.feed \in feeds)}

\* Mutant: a run without rows does not count as a success.
NeedsRows(r) == r.target \in receipt[SlotOf(r)].by /\ receipt[SlotOf(r)].rows

RequestAlreadySucceeded(r) == r.target \in receipt[SlotOf(r)].by

-----------------------------------------------------------------------------

Idle == [pc |-> "idle", todo |-> {}, selected |-> {}, limit |-> NoLimit, pending |-> 0,
         goOn |-> FALSE, ok |-> FALSE]

Init ==
    /\ keys = {} /\ receipt = [s \in Slots |-> NoReceipt] /\ saved = {} /\ runtime = {}
    /\ disp = [d \in Dispatchers |-> Idle]
    /\ pool = {}
    /\ called = 0 /\ bought = [r \in Requests |-> 0] /\ orphans = {} /\ raced = {} /\ compacted = {}

\* prepare_event_feed_backfill, for the feeds asked or for all of them.
Prepare(target, feeds) ==
    /\ keys' = keys \cup FilterRequests(target, feeds)
    /\ UNCHANGED <<receipt, saved, runtime, disp, orphans, pool>> /\ UNCHANGED ledger

Start(d, command) ==
    /\ disp[d].pc = "idle"
    /\ LET todo == FilterRequests(command.target, command.feeds)
       IN  disp' = [disp EXCEPT ![d] =
               [Idle EXCEPT !.pc = "visit", !.todo = todo, !.limit = command.limit,
                            !.goOn = command.goOn, !.selected = todo]]
    /\ UNCHANGED <<keys, receipt, saved, runtime, orphans, pool>> /\ UNCHANGED ledger

Visiting(d) == disp[d].pc = "visit" /\ disp[d].todo # {}
FirstIn(todo) == CHOOSE r \in todo : \A q \in todo : Place(r) <= Place(q)
Next_(d) == FirstIn(disp[d].todo)
LimitReached(d) == disp[d].limit # NoLimit /\ disp[d].pending >= disp[d].limit

\* A key that was never prepared ends the whole dispatch, whatever the limit.
KeyMissing(d) ==
    /\ Visiting(d) /\ Next_(d) \notin keys
    /\ disp' = [disp EXCEPT ![d] = Idle]
    /\ UNCHANGED <<keys, receipt, saved, runtime, orphans, pool>> /\ UNCHANGED ledger

Skip(d) ==
    /\ Visiting(d) /\ Next_(d) \in keys
    /\ RequestAlreadySucceeded(Next_(d)) \/ LimitReached(d)
    /\ disp' = [disp EXCEPT ![d].todo = @ \ {Next_(d)}]
    /\ UNCHANGED <<keys, receipt, saved, runtime, orphans, pool>> /\ UNCHANGED ledger

Running(r) ==
    r \in orphans \/ \E d \in Dispatchers : disp[d].pc = "calling" /\ Next_(d) = r

\* The runtime key is written, then the feed command is started on it.
Call(d) ==
    /\ Visiting(d) /\ Next_(d) \in keys
    /\ ~RequestAlreadySucceeded(Next_(d)) /\ ~LimitReached(d)
    /\ called < MaxCalls /\ called' = called + 1
    /\ runtime' = runtime \cup {Next_(d)}
    /\ disp' = [disp EXCEPT ![d].pc = "calling", ![d].pending = @ + 1]
    /\ raced' = raced \cup {r \in {Next_(d)} : Running(r)}
    /\ UNCHANGED <<keys, receipt, saved, orphans, pool, bought, compacted>>

\* The feed (external): its rows go to SQL, its receipt to the slot of the
\* request, and it may save the rows in a file as well.
Buy(r, rows, csv) ==
    /\ csv => rows
    /\ receipt' = [receipt EXCEPT ![SlotOf(r)] = [by |-> @.by \cup {r.target}, rows |-> @.rows \/ rows]]
    /\ saved' = IF csv THEN saved \cup {SlotOf(r)} ELSE saved
    /\ bought' = [bought EXCEPT ![r] = @ + 1]
    /\ UNCHANGED <<keys, runtime, pool, called, raced, compacted>>

FeedSucceeds(d, rows, csv) ==
    /\ disp[d].pc = "calling"
    /\ Buy(Next_(d), rows, csv)
    /\ disp' = [disp EXCEPT ![d].pc = "returned", ![d].ok = TRUE]
    /\ UNCHANGED orphans

FeedFails(d) ==
    /\ disp[d].pc = "calling"
    /\ disp' = [disp EXCEPT ![d].pc = "returned", ![d].ok = FALSE]
    /\ UNCHANGED <<keys, receipt, saved, runtime, orphans, pool>> /\ UNCHANGED ledger

\* Mutant: a failure does not end the dispatch.
ReturnGoesOn(d) ==
    /\ disp[d].pc = "returned"
    /\ runtime' = IF disp[d].ok THEN runtime \ {Next_(d)} ELSE runtime
    /\ disp' = [disp EXCEPT ![d].pc = "visit", ![d].todo = @ \ {Next_(d)}]
    /\ UNCHANGED <<keys, receipt, saved, orphans, pool>> /\ UNCHANGED ledger

\* The runtime key is removed after a success only; a failure ends the dispatch
\* unless it was told to go on.
Return(d) ==
    /\ disp[d].pc = "returned"
    /\ runtime' = IF disp[d].ok THEN runtime \ {Next_(d)} ELSE runtime
    /\ disp' = IF disp[d].ok \/ disp[d].goOn
               THEN [disp EXCEPT ![d].pc = "visit", ![d].todo = @ \ {Next_(d)}]
               ELSE [disp EXCEPT ![d] = Idle]
    /\ UNCHANGED <<keys, receipt, saved, orphans, pool>> /\ UNCHANGED ledger

Finish(d) ==
    /\ disp[d].pc = "visit" /\ disp[d].todo = {}
    /\ disp' = [disp EXCEPT ![d] = Idle]
    /\ UNCHANGED <<keys, receipt, saved, runtime, orphans, pool>> /\ UNCHANGED ledger

\* The dispatcher is killed; a feed it had started runs on.
Kill(d) ==
    /\ disp[d].pc # "idle"
    /\ orphans' = orphans \cup {r \in Requests : disp[d].pc = "calling" /\ Next_(d) = r}
    /\ disp' = [disp EXCEPT ![d] = Idle]
    /\ UNCHANGED <<keys, receipt, saved, runtime, pool>> /\ UNCHANGED ledger

OrphanSucceeds(r, rows, csv) ==
    /\ r \in orphans
    /\ orphans' = orphans \ {r}
    /\ Buy(r, rows, csv)
    /\ UNCHANGED disp

OrphanFails(r) ==
    /\ r \in orphans
    /\ orphans' = orphans \ {r}
    /\ UNCHANGED <<keys, receipt, saved, runtime, disp, pool>> /\ UNCHANGED ledger

\* The storage project (external) folds the receipts of a slot into a manifest.
Compact(s) ==
    /\ receipt[s] # NoReceipt /\ s \notin compacted /\ Cardinality(compacted) < MaxCompacted
    /\ receipt' = [receipt EXCEPT ![s] = NoReceipt]
    /\ compacted' = compacted \cup {s}
    /\ UNCHANGED <<keys, saved, runtime, disp, orphans, pool, called, bought, raced>>

-----------------------------------------------------------------------------
(* Coverage, as M03 reads it: without the fallbacks to saved files or to the  *)
(* compaction manifest that successful_feed_runs offers.                      *)

SuccessfulFeedRuns(s) == receipt[s].by
Coverage(feed) == {m \in Months : SuccessfulFeedRuns(<<feed, m>>) # {}}
RowCoverage(feed) == {m \in Coverage(feed) : receipt[<<feed, m>>].rows}
SqlInputs == {feed \in Feeds : Coverage(feed) # {} /\ RowCoverage(feed) # {}}
\* Mutant: a saved file counts only beside the receipt of its month.
ReceiptedArtifacts == {feed \in Feeds : \E m \in Coverage(feed) : <<feed, m>> \in saved}

Artifacts == {feed \in Feeds : \E m \in Months : <<feed, m>> \in saved}

\* One materialization that ends well: the inputs are read, the source task
\* key is written, the source command succeeds, the receipt is written last.  (A
\* failing one raises before the receipt and leaves the pool alone.)  Closed days
\* are announced in every month, so the check for an empty pool never fires.
Materialize ==
    /\ pool' = SqlInputs \cup Artifacts
    /\ UNCHANGED <<keys, receipt, saved, runtime, disp, orphans>> /\ UNCHANGED ledger

-----------------------------------------------------------------------------

Dispatch(d) ==
    \/ \E command \in Commands : Start(d, command)
    \/ KeyMissing(d) \/ Skip(d) \/ Call(d) \/ Return(d) \/ Finish(d) \/ Kill(d)
    \/ \E rows, csv \in BOOLEAN : FeedSucceeds(d, rows, csv)
    \/ FeedFails(d)

Next ==
    \/ \E p \in Prepared : Prepare(p.target, p.feeds)
    \/ \E d \in Dispatchers : Dispatch(d)
    \/ \E r \in Requests : (\E rows, csv \in BOOLEAN : OrphanSucceeds(r, rows, csv)) \/ OrphanFails(r)
    \/ \E s \in Slots : Compact(s)
    \/ Materialize

Spec == Init /\ [][Next]_vars

-----------------------------------------------------------------------------
(* Properties.                                                                *)

TypeOK ==
    /\ keys \subseteq Requests /\ runtime \subseteq Requests /\ orphans \subseteq Requests
    /\ receipt \in [Slots -> [by : SUBSET Targets, rows : BOOLEAN]]
    /\ saved \subseteq Slots /\ compacted \subseteq Slots
    /\ disp \in [Dispatchers -> [pc : {"idle", "visit", "calling", "returned"},
                                todo : SUBSET Requests, selected : SUBSET Requests,
                                limit : 0 .. 1, pending : Nat, goOn : BOOLEAN, ok : BOOLEAN]]
    /\ pool \subseteq Feeds
    /\ called \in 0 .. MaxCalls /\ bought \in [Requests -> Nat] /\ raced \subseteq Requests

\* A request is bought a second time only because two calls of it ran side by
\* side (no lock is taken, and the receipt is read before the key is written) or
\* because the receipts of its slot were compacted away: the check of the
\* dispatcher (event_feed_dispatch.py:219) is enough otherwise, although all the
\* targets of a month share one receipt.
BoughtAgainHasCause ==
    \A r \in Requests : bought[r] > 1 => r \in raced \/ SlotOf(r) \in compacted

\* The runtime key a feed command was started on stays on disk until the command
\* has returned, unless a second call of the same request shares the file: then
\* the first to succeed removes it under the other.  That takes two calls side by
\* side, or a success whose receipt is compacted away before it is acknowledged.
CallHasItsKey ==
    \A d \in Dispatchers : disp[d].pc = "calling" =>
        \/ Next_(d) \in runtime \cup raced
        \/ SlotOf(Next_(d)) \in compacted

\* What the missing lock costs: both of these have a second call or a compaction behind them.
RacesHaveCause == BoughtAgainHasCause /\ CallHasItsKey

\* A dispatch without a limit that ends cleanly and was to stop at the first
\* failure leaves every request it selected bought, those of a receipt that was
\* compacted away meanwhile apart.
CleanEndIsComplete ==
    [][\A d \in Dispatchers :
          Finish(d) /\ disp[d].limit = NoLimit /\ ~disp[d].goOn
              => \A r \in disp[d].selected :
                     RequestAlreadySucceeded(r) \/ SlotOf(r) \in compacted]_vars

\* A later materialization of the fold drops a source from the M03 pool only when
\* the receipts of one of its months were compacted away: M03 reads receipts with
\* the fallbacks switched off, so a saved file alone keeps a source in.
PoolLosesOnlyByCompaction ==
    [][\A feed \in pool \ pool' :
          /\ \E m \in Months : <<feed, m>> \in compacted
          /\ \A m \in Months : <<feed, m>> \notin saved]_vars

\* Both: what was selected is bought, and what was bought stays in reach.
NothingBoughtIsLost == CleanEndIsComplete /\ PoolLosesOnlyByCompaction
=============================================================================
