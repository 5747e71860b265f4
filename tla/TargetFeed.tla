----------------------------- MODULE TargetFeed -----------------------------
(* A tick of run_scheduler_once beside the bars of the selected target.  M02  *)
(* is blocked until every month of the fold has a receipt with rows; a tick   *)
(* that finds it blocked buys the first months that miss one, under the lock  *)
(* of the stage, and counts as executed whatever the provider delivered.  The *)
(* command line dispatches months without that lock, and the storage project  *)
(* replaces receipts by lines of a manifest.                                  *)
EXTENDS Naturals, FiniteSets

CONSTANTS
    Tickers,    \* processes that tick: the daemon and an operator's one-shot
    Window,     \* months of the fold
    NextLimit,  \* provider_stage_next_limit
    Flags,      \* sets of what ticks may execute: "prepare", "offline", "provider"
    MaxFeedCalls, MaxChanges \* bounds: calls of the provider, changes of what it has

ASSUME FeedAssumption ==
    /\ Window \in Nat \ {0} /\ NextLimit \in Nat \ {0}
    /\ Flags \subseteq SUBSET {"prepare", "offline", "provider"}
    /\ MaxFeedCalls \in Nat /\ MaxChanges \in Nat
    /\ "none" \notin Tickers

VARIABLES
    flags,     \* what ticks may execute
    keys,      \* task keys of M01 are prepared
    stage,     \* status of the acquisition of M01, that of M02, and of what follows
    supply,    \* what the provider has of a month: rows, nothing, or an error
    feed,      \* the receipt file of a month, as its latest success tells
    compact,   \* months with rows in the manifest of compacted receipts
    ticker,    \* per process, where its tick is
    stageLock, \* holder of the lock of M02's acquisition
    hand,      \* months the command line is buying
    used,      \* months of the candidate row that M02 was given
    calls, changes,
    asked,     \* history: months bought by ticks
    barren,    \* history: the last slice of a tick has delivered nothing
    byHand,    \* history: months bought from the command line
    again      \* history: months bought that had rows
feedVars == <<flags, keys, stage, supply, feed, compact, ticker, stageLock, hand, used,
              calls, changes, asked, barren, byHand, again>>
history == <<asked, barren, byHand, again>>

Months == 1 .. Window
Supply == {"rows", "empty", "error"}
Resting == [pc |-> "idle"]
NoTicker == "none"

\* discover_target_candidate_feed_artifacts: the manifest counts only while there is no file.
Found(m) == IF feed[m] = "absent" THEN m \in compact ELSE feed[m] = "rows"

\* _missing_target_local_feed_months, _model_two_target_local_feed_blockers
Missing == {m \in Months : ~Found(m)}
\* The first n of a set of months.
FirstOf(set, n) == {m \in set : Cardinality({k \in set : k < m}) < n}

\* Mutant: the months found missing before the lock was taken are bought.
BoughtAsSeen(seen) == FirstOf(seen, NextLimit)

\* _execute_target_local_feed_stage looks again under the lock.
Slice(seen) == FirstOf(Missing, NextLimit)

FeedInit ==
    /\ flags \in Flags
    /\ keys = FALSE
    /\ stage = [bars |-> "open", target |-> "open", rest |-> "open"]
    /\ supply \in [Months -> Supply]
    /\ feed = [m \in Months |-> "absent"] /\ compact = {}
    /\ ticker = [p \in Tickers |-> Resting] /\ stageLock = NoTicker
    /\ hand = {} /\ used = {}
    /\ calls = 0 /\ changes = 0
    /\ asked = {} /\ barren = FALSE /\ byHand = {} /\ again = {}

Idle(p) == ticker[p] = Resting
Complete == \A s \in DOMAIN stage : stage[s] = "succeeded"
NeedsKeys == stage.bars = "open" /\ ~keys
BarsReady == stage.bars = "open" /\ keys
TargetOpen == stage.bars = "succeeded" /\ stage.target = "open"
TargetReady == TargetOpen /\ Missing = {}
RestReady == stage.target = "succeeded" /\ stage.rest = "open"

\* Ticks that change nothing: a gate is closed, the month is complete, what is next may not
\* be executed, or nothing is.  The others are below, each under its condition.
PrepareKeys(p) ==
    /\ Idle(p) /\ NeedsKeys /\ "prepare" \in flags
    /\ keys' = TRUE
    /\ UNCHANGED <<flags, stage, supply, feed, compact, ticker, stageLock, hand, used, calls, changes, history>>

\* A slice of the provider stage of M01 (ProviderStage), which may complete it.
BuyBars(p) ==
    /\ Idle(p) /\ BarsReady /\ "provider" \in flags
    /\ stage' = [stage EXCEPT !.bars = "succeeded"]
    /\ UNCHANGED <<flags, keys, supply, feed, compact, ticker, stageLock, hand, used, calls, changes, history>>

\* The tick sees missing months ...
SeeBlocked(p) ==
    /\ Idle(p) /\ TargetOpen /\ Missing # {} /\ "provider" \in flags
    /\ ticker' = [ticker EXCEPT ![p] = [pc |-> "blocked", seen |-> Missing]]
    /\ UNCHANGED <<flags, keys, stage, supply, feed, compact, stageLock, hand, used, calls, changes, history>>

\* ... or that the stage is ready; execute_next_ready_stage loads again.
SeeReady(p) ==
    /\ Idle(p) /\ TargetReady /\ "offline" \in flags
    /\ ticker' = [ticker EXCEPT ![p] = [pc |-> "ready"]]
    /\ UNCHANGED <<flags, keys, stage, supply, feed, compact, stageLock, hand, used, calls, changes, history>>

\* The lock of the stage is held by another tick: acquire_scheduler_lock raises.
Refused(p) ==
    /\ ticker[p].pc \in {"blocked", "ready"} /\ stageLock # NoTicker
    /\ ticker' = [ticker EXCEPT ![p] = Resting]
    /\ UNCHANGED <<flags, keys, stage, supply, feed, compact, stageLock, hand, used, calls, changes, history>>

\* Under the lock: nothing may be missing any more, and the tick is over.
EnterFeed(p) ==
    /\ ticker[p].pc = "blocked" /\ stageLock = NoTicker
    /\ LET slice == Slice(ticker[p].seen) IN
         IF slice = {}
         THEN ticker' = [ticker EXCEPT ![p] = Resting] /\ UNCHANGED stageLock
         ELSE /\ calls + Cardinality(slice) <= MaxFeedCalls
              /\ ticker' = [ticker EXCEPT ![p] = [pc |-> "calls", slice |-> slice, todo |-> slice]]
              /\ stageLock' = p
    /\ UNCHANGED <<flags, keys, stage, supply, feed, compact, hand, used, calls, changes, history>>

\* A run of the provider's command ends: a success is appended to the receipt, a failure
\* hides no earlier success in the same file.
AfterCall(m) == [feed EXCEPT ![m] = IF supply[m] # "error" THEN supply[m] ELSE IF @ = "absent" THEN "failed" ELSE @]

\* dispatch_one: the workers of a slice end in any order.
Call(p, m) ==
    /\ ticker[p].pc = "calls" /\ m \in ticker[p].todo
    /\ ticker' = [ticker EXCEPT ![p].todo = @ \ {m}]
    /\ feed' = AfterCall(m)
    /\ calls' = calls + 1
    /\ asked' = asked \cup {m}
    /\ again' = IF Found(m) THEN again \cup {m} ELSE again
    /\ UNCHANGED <<flags, keys, stage, supply, compact, stageLock, hand, used, changes, barren, byHand>>

\* The decision says executed, whatever the slice delivered.
EndFeed(p) ==
    /\ ticker[p].pc = "calls" /\ ticker[p].todo = {}
    /\ ticker' = [ticker EXCEPT ![p] = Resting] /\ stageLock' = NoTicker
    /\ barren' = \A m \in ticker[p].slice : ~Found(m)
    /\ UNCHANGED <<flags, keys, stage, supply, feed, compact, hand, used, calls, changes, asked, byHand, again>>

\* execute_next_ready_stage
EnterTarget(p) ==
    /\ ticker[p].pc = "ready" /\ stageLock = NoTicker
    /\ IF TargetReady
       THEN ticker' = [ticker EXCEPT ![p] = [pc |-> "materialize"]] /\ stageLock' = p
       ELSE ticker' = [ticker EXCEPT ![p] = Resting] /\ UNCHANGED stageLock
    /\ UNCHANGED <<flags, keys, stage, supply, feed, compact, hand, used, calls, changes, history>>

\* materialize_layer_three_target_state_inputs, a process of its own: it takes what it finds
\* now and fails only when that is nothing.
Materialize(p) ==
    /\ ticker[p].pc = "materialize"
    /\ used' = Months \ Missing
    /\ stage' = [stage EXCEPT !.target = IF Missing = Months THEN "failed" ELSE "succeeded"]
    /\ ticker' = [ticker EXCEPT ![p] = Resting] /\ stageLock' = NoTicker
    /\ UNCHANGED <<flags, keys, supply, feed, compact, hand, calls, changes, history>>

\* The stages behind M02.
RunRest(p) ==
    /\ Idle(p) /\ RestReady /\ "offline" \in flags
    /\ stage' = [stage EXCEPT !.rest = "succeeded"]
    /\ UNCHANGED <<flags, keys, supply, feed, compact, ticker, stageLock, hand, used, calls, changes, history>>

\* A killed tick takes its children along and leaves a lock that the next one replaces.
Die(p) ==
    /\ ~Idle(p)
    /\ ticker' = [ticker EXCEPT ![p] = Resting]
    /\ stageLock' = IF stageLock = p THEN NoTicker ELSE stageLock
    /\ UNCHANGED <<flags, keys, stage, supply, feed, compact, hand, used, calls, changes, history>>

\* dispatch_provider_acquisition.py --request-id
HandBegin(m) ==
    /\ hand = {} /\ calls < MaxFeedCalls
    /\ hand' = {m} /\ byHand' = byHand \cup {m}
    /\ UNCHANGED <<flags, keys, stage, supply, feed, compact, ticker, stageLock, used, calls, changes, asked, barren, again>>

HandEnd(m) ==
    /\ m \in hand /\ calls < MaxFeedCalls
    /\ hand' = {} /\ feed' = AfterCall(m)
    /\ calls' = calls + 1
    /\ again' = IF Found(m) THEN again \cup {m} ELSE again
    /\ UNCHANGED <<flags, keys, stage, supply, compact, ticker, stageLock, used, changes, asked, barren, byHand>>

\* The provider corrects its data, fails for a while or comes back.
SupplyChanges(m) ==
    /\ changes < MaxChanges
    /\ \E s \in Supply \ {supply[m]} : supply' = [supply EXCEPT ![m] = s]
    /\ changes' = changes + 1
    /\ UNCHANGED <<flags, keys, stage, feed, compact, ticker, stageLock, hand, used, calls, history>>

\* The storage project keeps a line of the manifest instead of the receipt.
Compact(m) ==
    /\ feed[m] = "rows"
    /\ feed' = [feed EXCEPT ![m] = "absent"] /\ compact' = compact \cup {m}
    /\ UNCHANGED <<flags, keys, stage, supply, ticker, stageLock, hand, used, calls, changes, history>>

TickStep(p) ==
    \/ PrepareKeys(p) \/ BuyBars(p) \/ SeeBlocked(p) \/ SeeReady(p) \/ Refused(p)
    \/ EnterFeed(p) \/ (\E m \in Months : Call(p, m)) \/ EndFeed(p)
    \/ EnterTarget(p) \/ Materialize(p) \/ RunRest(p) \/ Die(p)

FeedNext ==
    \/ \E p \in Tickers : TickStep(p)
    \/ \E m \in Months : HandBegin(m) \/ HandEnd(m) \/ SupplyChanges(m) \/ Compact(m)
FeedSpec == FeedInit /\ [][FeedNext]_feedVars

-----------------------------------------------------------------------------
(* Properties.                                                                *)

\* M02 is given every month of the fold that made it ready, unless the command line has
\* bought the month: it may run beside the check, the materialization and the lock, and
\* what it brings hides what was there.
TargetIsWhole == stage.target # "open" => Months \ used \subseteq byHand

\* A tick never pays for a month that has rows: two of them exclude each other and look
\* again under the lock.
PaidAgainByHand == again \subseteq byHand

\* A month that no tick has asked for, after a slice that delivered nothing, stands behind
\* as many months without rows as a slice has: months the provider has nothing of are paid
\* for in every tick, which counts as executed, and hold up all that follow.
HeldUpByDeadMonths ==
    barren => \A m \in Missing \ (asked \cup byHand) :
        Cardinality({n \in asked : n < m}) >= NextLimit

FeedIsAccountedFor == TargetIsWhole /\ PaidAgainByHand /\ HeldUpByDeadMonths
=============================================================================
