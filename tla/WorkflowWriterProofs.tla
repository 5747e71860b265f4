------------------------ MODULE WorkflowWriterProofs ------------------------
(* TargetFeed for any window, slice and processes: M02 is given the fold that *)
(* made it ready, and what ticks pay for.  RerunReset for any plan, folds and *)
(* operators: artifacts and the stages that made them.  RequestRecords for any *)
(* requests, tasks and processes: what the control plane keeps of them agrees. *)
(* WorkflowPlan for any scopes: what is done is in order and current.          *)
EXTENDS RerunReset, TargetFeed, RequestRecords, WorkflowPlan, TLAPS, FiniteSetTheorems, WellFoundedInduction

-----------------------------------------------------------------------------
(* TargetFeed: the state and the invariant.                                   *)
TickerStates ==
    {Resting} \cup [pc : {"blocked"}, seen : SUBSET Months] \cup [pc : {"ready", "materialize"}]
    \cup [pc : {"calls"}, slice : SUBSET Months, todo : SUBSET Months]

FeedTypes ==
    /\ flags \in Flags /\ keys \in BOOLEAN
    /\ stage \in [bars : {"open", "succeeded"}, target : {"open", "succeeded", "failed"},
                  rest : {"open", "succeeded"}]
    /\ supply \in [Months -> Supply]
    /\ feed \in [Months -> Supply \cup {"absent", "failed"}] /\ compact \subseteq Months
    /\ ticker \in [Tickers -> TickerStates] /\ stageLock \in Tickers \cup {NoTicker}
    /\ hand \subseteq Months /\ used \subseteq Months /\ calls \in Nat /\ changes \in Nat
    /\ asked \subseteq Months /\ barren \in BOOLEAN /\ byHand \subseteq Months
    /\ again \subseteq Months

\* Whoever buys a slice or materializes holds the lock of M02.
LockIsHeld ==
    \A p \in Tickers : ticker[p].pc \in {"calls", "materialize"} => stageLock = p

\* A month that nobody has asked for has no receipt.
Untouched ==
    \A m \in Months \ (asked \cup byHand) : feed[m] = "absent" /\ m \notin compact

\* There are as many months of a set before m as a slice has.
Behind(set, m) == Cardinality({k \in set : k < m}) >= NextLimit

\* The slice a tick buys: what is still to do has rows only by hand, and what was not
\* asked for stands behind it.
SliceInHand ==
    \A p \in Tickers : ticker[p].pc = "calls" =>
        /\ ticker[p].slice \subseteq asked \cup ticker[p].todo
        /\ \A m \in ticker[p].todo : Found(m) => m \in byHand
        /\ \A m \in Months \ (asked \cup byHand \cup ticker[p].slice) :
              Behind(ticker[p].slice, m)

\* The materialization starts with the whole fold and loses months only by hand.
WholeInHand ==
    \A p \in Tickers : ticker[p].pc = "materialize" => Missing \subseteq byHand

\* HeldUpByDeadMonths is not inductive: a month may lose its rows.  This is, because
\* a month that nobody asked for has none.
HeldUp == barren => \A m \in Months \ (asked \cup byHand) : Behind(asked, m)

FeedInv ==
    /\ FeedTypes /\ LockIsHeld /\ hand \subseteq byHand /\ Untouched /\ SliceInHand
    /\ WholeInHand /\ TargetIsWhole /\ PaidAgainByHand /\ HeldUp

-----------------------------------------------------------------------------
(* The first months of a set.                                                 *)
LEMMA FeedConstants ==
    /\ Months \subseteq Nat /\ IsFiniteSet(Months) /\ NextLimit \in Nat \ {0}
    /\ NoTicker \notin Tickers
<1>1. Window \in Nat /\ NextLimit \in Nat \ {0} /\ NoTicker \notin Tickers
  BY FeedAssumption DEF NoTicker
<1>2. Months \subseteq Nat
  BY <1>1 DEF Months
<1>3. IsFiniteSet(Months)
  BY <1>1, FS_Interval DEF Months
<1>4. QED
  BY <1>1, <1>2, <1>3

\* More elements are not fewer months before m.
LEMMA MoreBehind ==
    ASSUME NEW T \in SUBSET Months, NEW S, NEW m, NEW k,
           {x \in S : x < k} \subseteq {x \in T : x < m}, Behind(S, k)
    PROVE  Behind(T, m)
<1>1. IsFiniteSet({x \in T : x < m})
  BY FeedConstants, FS_Subset
<1>2. /\ IsFiniteSet({x \in S : x < k})
      /\ Cardinality({x \in S : x < k}) <= Cardinality({x \in T : x < m})
  BY <1>1, FS_Subset
<1>3. Cardinality({x \in S : x < k}) \in Nat /\ Cardinality({x \in T : x < m}) \in Nat
  BY <1>1, <1>2, FS_CardinalityType
<1>4. QED
  BY <1>2, <1>3, FeedConstants DEF Behind

\* What is cut off a set stands behind the whole slice: the first of the months that
\* were cut off has nothing but the slice before it.
LEMMA SliceIsFull ==
    ASSUME NEW S \in SUBSET Months, NEW m \in S, m \notin FirstOf(S, NextLimit)
    PROVE  Behind(FirstOf(S, NextLimit), m)
<1> DEFINE R == {ss \in Nat \X Nat : ss[1] < ss[2]}
           Cut == {x \in S : Behind(S, x)}
           slice == FirstOf(S, NextLimit)
<1>1. \A x \in S : x \in slice <=> ~Behind(S, x)
  <2> TAKE x \in S
  <2>1. IsFiniteSet({k \in S : k < x})
    BY FeedConstants, FS_Subset
  <2>2. Cardinality({k \in S : k < x}) \in Nat
    BY <2>1, FS_CardinalityType
  <2>3. QED
    BY <2>2, FeedConstants DEF FirstOf, Behind
<1>2. m \in Cut /\ Cut \subseteq Nat
  BY <1>1, FeedConstants
<1>3. IsWellFoundedOn(R, Nat)
  BY NatLessThanWellFounded DEF OpToRel
<1> HIDE DEF R, Cut, slice
<1>4. PICK c \in Cut : \A x \in Cut : ~(<<x, c>> \in R)
  BY <1>2, <1>3, WFMin
<1>5. \A x \in Cut : x \in Nat /\ ~(x < c)
  BY <1>2, <1>4 DEF R
<1>6. c <= m /\ c \in Nat /\ m \in Nat
  BY <1>2, <1>5
<1>7. c \in S /\ Behind(S, c)
  BY DEF Cut
<1>8. {x \in S : x < c} \subseteq {x \in slice : x < m}
  <2> SUFFICES ASSUME NEW x \in S, x < c PROVE x \in slice /\ x < m
    OBVIOUS
  <2>1. x \notin Cut /\ x \in Nat
    BY <1>5, FeedConstants
  <2>2. QED
    BY <1>1, <1>6, <2>1 DEF Cut
<1>9. slice \in SUBSET Months
  BY DEF slice, FirstOf
<1>10. Behind(slice, m)
  BY <1>7, <1>8, <1>9, MoreBehind
<1>11. QED
  BY <1>10 DEF slice

-----------------------------------------------------------------------------
(* What a step does.                                                          *)
Looks(p) ==
    PrepareKeys(p) \/ BuyBars(p) \/ SeeBlocked(p) \/ SeeReady(p) \/ Refused(p) \/ RunRest(p)
ByHand(m) == HandBegin(m) \/ HandEnd(m) \/ SupplyChanges(m) \/ Compact(m)

\* The steps of the feed and of the hands beside it.
LEMMA FeedMoves ==
    ASSUME [FeedNext]_feedVars
    PROVE  \/ \E p \in Tickers :
                 \/ Looks(p) \/ Die(p) \/ EnterFeed(p) \/ EndFeed(p) \/ EnterTarget(p)
                 \/ Materialize(p) \/ \E m \in Months : Call(p, m)
           \/ \E m \in Months : ByHand(m)
           \/ UNCHANGED feedVars
BY DEF FeedNext, TickStep, Looks, ByHand

Alone(p) == \A e \in Tickers : e # p => ticker'[e] = ticker[e]

\* A tick that is elsewhere now, with what it has in hand.
LEMMA TickerMoves ==
    ASSUME FeedTypes, NEW p \in Tickers, NEW new \in TickerStates,
           ticker' = [ticker EXCEPT ![p] = new]
    PROVE  Alone(p) /\ ticker'[p] = new /\ ticker' \in [Tickers -> TickerStates]
BY DEF Alone, FeedTypes

\* The states of a ticker.
LEMMA States ==
    /\ Resting \in TickerStates /\ Resting.pc = "idle"
    /\ \A new \in TickerStates : new.pc \in {"idle", "blocked", "ready", "materialize", "calls"}
    /\ \A new \in TickerStates : new.pc = "calls" =>
          new \in [pc : {"calls"}, slice : SUBSET Months, todo : SUBSET Months]
    /\ \A S, T \in SUBSET Months : [pc |-> "calls", slice |-> S, todo |-> T] \in TickerStates
    /\ \A S \in SUBSET Months : [pc |-> "blocked", seen |-> S] \in TickerStates
    /\ [pc |-> "ready"] \in TickerStates /\ [pc |-> "materialize"] \in TickerStates
BY DEF TickerStates, Resting

\* A look changes what is next, and nothing of the feed.
Looked(p) ==
    /\ Alone(p) /\ ticker'[p].pc \in {"idle", "blocked", "ready"}
    /\ ticker' \in [Tickers -> TickerStates]
    /\ stage'.target = stage.target
    /\ UNCHANGED <<feed, compact, hand, used, asked, barren, byHand, again, stageLock>>
    /\ ticker[p].pc \notin {"calls", "materialize"}

\* A ticker that looks moves itself only,
LEMMA LookStep ==
    ASSUME FeedTypes, NEW p \in Tickers, Looks(p)
    PROVE  Looked(p) /\ FeedTypes'
<1>1. ticker[p] \in TickerStates
  BY DEF FeedTypes
<1>2. CASE PrepareKeys(p) \/ BuyBars(p) \/ RunRest(p)
  <2>1. ticker[p].pc = "idle" /\ UNCHANGED ticker
    BY <1>2, States DEF PrepareKeys, BuyBars, RunRest, Idle
  <2>2. /\ stage' \in [bars : {"open", "succeeded"}, target : {"open", "succeeded", "failed"},
                       rest : {"open", "succeeded"}]
        /\ stage'.target = stage.target
    BY <1>2 DEF PrepareKeys, BuyBars, RunRest, FeedTypes
  <2>3. keys' \in BOOLEAN
    BY <1>2 DEF PrepareKeys, BuyBars, RunRest, FeedTypes
  <2>4. UNCHANGED <<flags, supply, feed, compact, hand, used, calls, changes, asked, barren, byHand,
                    again, stageLock>>
    BY <1>2 DEF PrepareKeys, BuyBars, RunRest, history
  <2>5. QED
    BY <2>1, <2>2, <2>3, <2>4 DEF Looked, Alone, FeedTypes
<1>3. CASE SeeBlocked(p) \/ SeeReady(p) \/ Refused(p)
  <2>1. PICK new \in TickerStates : /\ ticker' = [ticker EXCEPT ![p] = new]
                                    /\ new.pc \in {"idle", "blocked", "ready"}
    <3>1. CASE SeeBlocked(p)
      <4>1. [pc |-> "blocked", seen |-> Missing] \in TickerStates
        BY States DEF Missing
      <4>2. QED
        BY <3>1, <4>1 DEF SeeBlocked
    <3>2. CASE SeeReady(p)
      BY <3>2, States DEF SeeReady
    <3>3. CASE Refused(p)
      BY <3>3, States DEF Refused
    <3>4. QED
      BY <1>3, <3>1, <3>2, <3>3
  <2>2. ticker[p].pc \notin {"calls", "materialize"}
    BY <1>3, States DEF SeeBlocked, SeeReady, Refused, Idle
  <2>3. UNCHANGED <<flags, keys, stage, supply, feed, compact, hand, used, calls, changes, asked,
                    barren, byHand, again, stageLock>>
    BY <1>3 DEF SeeBlocked, SeeReady, Refused, history
  <2>4. Alone(p) /\ ticker'[p] = new /\ ticker' \in [Tickers -> TickerStates]
    BY <2>1, TickerMoves
  <2>5. QED
    BY <2>1, <2>2, <2>3, <2>4 DEF Looked, FeedTypes
<1>4. QED
  BY <1>2, <1>3 DEF Looks

\* A tick that is over gives the lock back if it is its own.
Rests(p) ==
    /\ Alone(p) /\ ticker'[p] = Resting /\ ticker' \in [Tickers -> TickerStates]
    /\ stageLock' = stageLock \/ (stageLock = p /\ stageLock' = NoTicker)
    /\ UNCHANGED <<feed, compact, hand, asked, byHand, again>>
    /\ UNCHANGED <<stage, used, barren>>

\* A slice is begun under the lock ...
Buys(p) ==
    /\ Alone(p) /\ ticker' \in [Tickers -> TickerStates]
    /\ ticker'[p] = [pc |-> "calls", slice |-> FirstOf(Missing, NextLimit),
                     todo |-> FirstOf(Missing, NextLimit)]
    /\ stageLock = NoTicker /\ stageLock' = p
    /\ UNCHANGED <<stage, feed, compact, hand, used, asked, barren, byHand, again>>

\* ... goes on month by month ...
Calls(p, m) ==
    /\ Alone(p) /\ ticker' \in [Tickers -> TickerStates]
    /\ ticker[p].pc = "calls" /\ ticker'[p].pc = "calls" /\ m \in ticker[p].todo
    /\ ticker'[p].slice = ticker[p].slice /\ ticker'[p].todo = ticker[p].todo \ {m}
    /\ feed' = AfterCall(m) /\ asked' = asked \cup {m}
    /\ again' = (IF Found(m) THEN again \cup {m} ELSE again)
    /\ UNCHANGED <<stage, compact, hand, used, barren, byHand, stageLock>>

\* ... and ends.
Sums(p) ==
    /\ Alone(p) /\ ticker'[p] = Resting /\ ticker' \in [Tickers -> TickerStates]
    /\ ticker[p].pc = "calls" /\ ticker[p].todo = {} /\ stageLock' = NoTicker
    /\ UNCHANGED <<stage, feed, compact, hand, used, asked, byHand, again>>

\* The materialization is begun under the lock, with the whole fold, and ends.
Takes(p) ==
    /\ Alone(p) /\ ticker'[p].pc = "materialize" /\ ticker' \in [Tickers -> TickerStates]
    /\ Missing = {} /\ stageLock = NoTicker /\ stageLock' = p
    /\ UNCHANGED <<stage, feed, compact, hand, used, asked, barren, byHand, again>>
Gives(p) ==
    /\ Alone(p) /\ ticker'[p] = Resting /\ ticker' \in [Tickers -> TickerStates]
    /\ ticker[p].pc = "materialize" /\ stageLock' = NoTicker /\ used' = Months \ Missing
    /\ UNCHANGED <<feed, compact, hand, asked, barren, byHand, again>>

\* What happens beside the ticks.
Beside(m) ==
    /\ UNCHANGED <<stage, ticker, stageLock, used, asked, barren>>
    /\ byHand \subseteq byHand' /\ hand' \subseteq byHand \cup {m}
    /\ hand' \subseteq byHand' /\ byHand' \subseteq Months
    /\ \/ UNCHANGED <<feed, compact, again>>
       \/ /\ m \in byHand' /\ feed' = AfterCall(m) /\ UNCHANGED compact
          /\ again' \subseteq again \cup {m}
       \/ /\ feed[m] = "rows" /\ feed' = [feed EXCEPT ![m] = "absent"]
          /\ compact' = compact \cup {m} /\ UNCHANGED again

FeedMoved ==
    \/ \E p \in Tickers : Looked(p) \/ Rests(p) \/ Buys(p) \/ Sums(p) \/ Takes(p) \/ Gives(p)
    \/ \E p \in Tickers, m \in Months : Calls(p, m)
    \/ \E m \in Months : Beside(m)
    \/ UNCHANGED feedVars

\* What a call leaves is a supply of the months.
LEMMA AfterCallType ==
    ASSUME FeedTypes, NEW m \in Months
    PROVE  AfterCall(m) \in [Months -> Supply \cup {"absent", "failed"}]
BY DEF FeedTypes, AfterCall, Supply

\* A ticker that dies rests.
LEMMA DieStep ==
    ASSUME FeedTypes, NEW p \in Tickers, Die(p)
    PROVE  Rests(p) /\ FeedTypes'
<1>1. Alone(p) /\ ticker'[p] = Resting /\ ticker' \in [Tickers -> TickerStates]
  BY States, TickerMoves DEF Die
<1>2. /\ UNCHANGED <<flags, keys, stage, supply, feed, compact, hand, used, calls, changes, asked,
                     barren, byHand, again>>
      /\ stageLock' = stageLock \/ (stageLock = p /\ stageLock' = NoTicker)
  BY DEF Die, history
<1>3. QED
  BY <1>1, <1>2 DEF Rests, FeedTypes

\* A ticker that enters the feed rests or has a slice to buy.
LEMMA EnterFeedStep ==
    ASSUME FeedTypes, NEW p \in Tickers, EnterFeed(p)
    PROVE  (Rests(p) \/ Buys(p)) /\ FeedTypes'
<1> DEFINE slice == FirstOf(Missing, NextLimit)
<1>1. slice \in SUBSET Months
  BY DEF FirstOf, Missing
<1>2. UNCHANGED <<flags, keys, stage, supply, feed, compact, hand, used, calls, changes, asked, barren,
                  byHand, again>>
  BY DEF EnterFeed, history
<1>3. CASE slice = {}
  <2>1. ticker' = [ticker EXCEPT ![p] = Resting] /\ UNCHANGED stageLock
    BY <1>3 DEF EnterFeed, Slice
  <2>2. Alone(p) /\ ticker'[p] = Resting /\ ticker' \in [Tickers -> TickerStates]
    BY <2>1, States, TickerMoves
  <2>3. QED
    BY <1>2, <2>1, <2>2 DEF Rests, FeedTypes
<1>4. CASE slice # {}
  <2>1. /\ ticker' = [ticker EXCEPT ![p] = [pc |-> "calls", slice |-> slice, todo |-> slice]]
        /\ stageLock = NoTicker /\ stageLock' = p
    BY <1>4 DEF EnterFeed, Slice
  <2>2. [pc |-> "calls", slice |-> slice, todo |-> slice] \in TickerStates
    BY <1>1, States
  <2>3. /\ Alone(p) /\ ticker' \in [Tickers -> TickerStates]
        /\ ticker'[p] = [pc |-> "calls", slice |-> slice, todo |-> slice]
    BY <2>1, <2>2, TickerMoves
  <2>4. QED
    BY <1>2, <2>1, <2>3 DEF Buys, FeedTypes
<1>5. QED
  BY <1>3, <1>4

\* A call is for a month of the slice.
LEMMA CallStep ==
    ASSUME FeedTypes, NEW p \in Tickers, NEW m \in Months, Call(p, m)
    PROVE  Calls(p, m) /\ FeedTypes'
<1>1. ticker[p].pc = "calls" /\ ticker[p] \in TickerStates /\ m \in ticker[p].todo
  BY DEF Call, FeedTypes
<1>2. ticker[p] \in [pc : {"calls"}, slice : SUBSET Months, todo : SUBSET Months]
  BY <1>1, States
<1>3. PICK S, T \in SUBSET Months : ticker[p].slice = S /\ ticker[p].todo = T
  BY <1>2
<1>4. ticker' = [ticker EXCEPT ![p] = [pc |-> "calls", slice |-> S, todo |-> T \ {m}]]
  <2>1. [ticker[p] EXCEPT !.todo = T \ {m}] = [pc |-> "calls", slice |-> S, todo |-> T \ {m}]
    BY <1>2, <1>3
  <2>2. ticker' = [ticker EXCEPT ![p] = [ticker[p] EXCEPT !.todo = T \ {m}]]
    BY <1>3 DEF Call, FeedTypes
  <2>3. QED
    BY <2>1, <2>2
<1>5. [pc |-> "calls", slice |-> S, todo |-> T \ {m}] \in TickerStates
  <2>1. T \ {m} \in SUBSET Months
    OBVIOUS
  <2>2. QED
    BY <2>1, States
<1>6. /\ Alone(p) /\ ticker' \in [Tickers -> TickerStates]
      /\ ticker'[p] = [pc |-> "calls", slice |-> S, todo |-> T \ {m}]
  BY <1>4, <1>5, TickerMoves
<1>7. feed' = AfterCall(m) /\ feed' \in [Months -> Supply \cup {"absent", "failed"}]
  BY AfterCallType DEF Call
<1>8. /\ asked' = asked \cup {m} /\ again' = (IF Found(m) THEN again \cup {m} ELSE again)
      /\ calls' = calls + 1
      /\ UNCHANGED <<flags, keys, stage, supply, compact, stageLock, hand, used, changes, barren, byHand>>
  BY DEF Call
<1>9. calls' \in Nat /\ asked' \subseteq Months /\ again' \subseteq Months
  BY <1>8 DEF FeedTypes
<1>10. Calls(p, m)
  BY <1>1, <1>3, <1>6, <1>7, <1>8 DEF Calls
<1>11. QED
  BY <1>6, <1>7, <1>8, <1>9, <1>10 DEF FeedTypes

\* The feed ends with the sum of what was bought.
LEMMA EndFeedStep ==
    ASSUME FeedTypes, NEW p \in Tickers, EndFeed(p)
    PROVE  Sums(p) /\ FeedTypes'
<1>1. Alone(p) /\ ticker'[p] = Resting /\ ticker' \in [Tickers -> TickerStates]
  BY States, TickerMoves DEF EndFeed
<1>2. /\ UNCHANGED <<flags, keys, stage, supply, feed, compact, hand, used, calls, changes, asked,
                     byHand, again>>
      /\ stageLock' = NoTicker /\ ticker[p].pc = "calls" /\ ticker[p].todo = {}
      /\ barren' \in BOOLEAN
  BY DEF EndFeed
<1>3. QED
  BY <1>1, <1>2 DEF Sums, FeedTypes

\* The steps of the target stage.
LEMMA TargetStep ==
    ASSUME FeedTypes, NEW p \in Tickers, EnterTarget(p) \/ Materialize(p)
    PROVE  (Rests(p) \/ Takes(p) \/ Gives(p)) /\ FeedTypes'
<1>1. CASE EnterTarget(p)
  <2>1. UNCHANGED <<flags, keys, stage, supply, feed, compact, hand, used, calls, changes, asked,
                    barren, byHand, again>>
    BY <1>1 DEF EnterTarget, history
  <2>2. CASE TargetReady
    <3>1. /\ ticker' = [ticker EXCEPT ![p] = [pc |-> "materialize"]]
          /\ stageLock = NoTicker /\ stageLock' = p /\ Missing = {}
      BY <1>1, <2>2 DEF EnterTarget, TargetReady
    <3>2. /\ Alone(p) /\ ticker'[p] = [pc |-> "materialize"]
          /\ ticker' \in [Tickers -> TickerStates]
      BY <3>1, States, TickerMoves
    <3>3. QED
      BY <2>1, <3>1, <3>2 DEF Takes, FeedTypes
  <2>3. CASE ~TargetReady
    <3>1. ticker' = [ticker EXCEPT ![p] = Resting] /\ UNCHANGED stageLock
      BY <1>1, <2>3 DEF EnterTarget
    <3>2. Alone(p) /\ ticker'[p] = Resting /\ ticker' \in [Tickers -> TickerStates]
      BY <3>1, States, TickerMoves
    <3>3. QED
      BY <2>1, <3>1, <3>2 DEF Rests, FeedTypes
  <2>4. QED
    BY <2>2, <2>3
<1>2. CASE Materialize(p)
  <2>1. Alone(p) /\ ticker'[p] = Resting /\ ticker' \in [Tickers -> TickerStates]
    BY <1>2, States, TickerMoves DEF Materialize
  <2>2. /\ UNCHANGED <<flags, keys, supply, feed, compact, hand, calls, changes, asked, barren,
                       byHand, again>>
        /\ stageLock' = NoTicker /\ used' = Months \ Missing /\ ticker[p].pc = "materialize"
    BY <1>2 DEF Materialize, history
  <2>3. stage' \in [bars : {"open", "succeeded"}, target : {"open", "succeeded", "failed"},
                    rest : {"open", "succeeded"}]
    BY <1>2 DEF Materialize, FeedTypes
  <2>4. QED
    BY <2>1, <2>2, <2>3 DEF Gives, FeedTypes
<1>3. QED
  BY <1>1, <1>2

\* What is done by hand moves no ticker.
LEMMA BesideStep ==
    ASSUME FeedTypes, hand \subseteq byHand, NEW m \in Months, ByHand(m)
    PROVE  Beside(m) /\ FeedTypes'
<1>1. CASE HandBegin(m)
  BY <1>1 DEF HandBegin, Beside, FeedTypes
<1>2. CASE HandEnd(m)
  <2>1. feed' \in [Months -> Supply \cup {"absent", "failed"}] /\ feed' = AfterCall(m)
    BY <1>2, AfterCallType DEF HandEnd
  <2>2. UNCHANGED <<flags, keys, stage, supply, compact, ticker, stageLock, used, changes, asked,
                    barren, byHand>>
    BY <1>2 DEF HandEnd
  <2>3. /\ hand' = {} /\ calls' \in Nat /\ m \in byHand
        /\ again' \subseteq again \cup {m} /\ again' \subseteq Months
    BY <1>2 DEF HandEnd, FeedTypes
  <2>4. QED
    BY <2>1, <2>2, <2>3 DEF Beside, FeedTypes
<1>3. CASE SupplyChanges(m)
  <2>1. supply' \in [Months -> Supply]
    BY <1>3 DEF SupplyChanges, FeedTypes
  <2>2. changes' \in Nat
    BY <1>3 DEF SupplyChanges, FeedTypes
  <2>3. UNCHANGED <<flags, keys, stage, feed, compact, ticker, stageLock, hand, used, calls, asked,
                    barren, byHand, again>>
    BY <1>3 DEF SupplyChanges, history
  <2>4. QED
    BY <2>1, <2>2, <2>3 DEF Beside, FeedTypes
<1>4. CASE Compact(m)
  <2>1. feed' \in [Months -> Supply \cup {"absent", "failed"}] /\ compact' \subseteq Months
    BY <1>4 DEF Compact, FeedTypes
  <2>2. UNCHANGED <<flags, keys, stage, supply, ticker, stageLock, hand, used, calls, changes, asked,
                    barren, byHand, again>>
    BY <1>4 DEF Compact, history
  <2>3. QED
    BY <1>4, <2>1, <2>2 DEF Compact, Beside, FeedTypes
<1>5. QED
  BY <1>1, <1>2, <1>3, <1>4 DEF ByHand

\* Every step is one of these, and keeps the types.
LEMMA FeedTypeStep ==
    ASSUME FeedTypes, hand \subseteq byHand, [FeedNext]_feedVars
    PROVE  FeedMoved /\ FeedTypes'
<1>1. UNCHANGED feedVars => FeedTypes'
  BY DEF feedVars, FeedTypes
<1>2. QED
  BY <1>1, FeedMoves, LookStep, DieStep, EnterFeedStep, CallStep, EndFeedStep, TargetStep,
     BesideStep DEF FeedMoved

-----------------------------------------------------------------------------
(* The parts of the invariant, kept by every step.                            *)

\* Where a tick that buys or materializes was before.
LEMMA Elsewhere ==
    ASSUME FeedTypes, LockIsHeld, FeedMoved, NEW e \in Tickers,
           ticker'[e].pc \in {"calls", "materialize"}
    PROVE  \/ /\ ticker'[e] = ticker[e] /\ stageLock = e /\ stageLock' = e
              /\ \A p \in Tickers, m \in Months : ~Calls(p, m)
           \/ \E m \in Months : Calls(e, m) /\ stageLock = e
           \/ Buys(e) \/ Takes(e)
<1>1. NoTicker # e /\ Resting.pc = "idle"
  BY FeedConstants, States
<1>2. ASSUME NEW p \in Tickers, Looked(p) \/ Rests(p) \/ Buys(p) \/ Sums(p) \/ Takes(p) \/ Gives(p)
      PROVE  \/ ticker'[e] = ticker[e] /\ stageLock = e /\ stageLock' = e
             \/ Buys(e) \/ Takes(e)
  <2>1. CASE p = e
    BY <1>1, <1>2, <2>1 DEF Looked, Rests, Sums, Gives
  <2>2. CASE p # e
    <3>1. ticker'[e] = ticker[e] /\ stageLock = e
      BY <1>2, <2>2 DEF Looked, Rests, Buys, Sums, Takes, Gives, Alone, LockIsHeld
    <3>2. stageLock # NoTicker /\ stageLock # p
      BY <1>1, <2>2, <3>1
    <3>3. ~Buys(p) /\ ~Takes(p)
      BY <3>2 DEF Buys, Takes
    <3>4. ~Sums(p) /\ ~Gives(p)
      BY <3>2 DEF Sums, Gives, LockIsHeld
    <3>5. stageLock' = stageLock
      BY <1>2, <3>2, <3>3, <3>4 DEF Looked, Rests
    <3>6. QED
      BY <3>1, <3>5
  <2>3. QED
    BY <2>1, <2>2
<1>3. ASSUME NEW p \in Tickers, NEW m \in Months, Calls(p, m)
      PROVE  p = e /\ stageLock = e
  <2>1. stageLock = p
    BY <1>3 DEF Calls, LockIsHeld
  <2>2. CASE p # e
    BY <1>3, <2>1, <2>2 DEF Calls, Alone, LockIsHeld
  <2>3. QED
    BY <2>1, <2>2
<1>4. (\E m \in Months : Beside(m)) \/ UNCHANGED feedVars
      => ticker'[e] = ticker[e] /\ stageLock = e /\ stageLock' = e
  BY DEF Beside, feedVars, LockIsHeld
<1>5. QED
  BY <1>2, <1>3, <1>4 DEF FeedMoved

\* Whoever works holds the lock of its stage.
LEMMA LockStep ==
    ASSUME FeedTypes, LockIsHeld, FeedMoved
    PROVE  LockIsHeld'
BY Elsewhere DEF LockIsHeld, Calls, Buys, Takes

\* What is asked for grows.
LEMMA AskedGrows ==
    ASSUME FeedMoved
    PROVE  asked \subseteq asked' /\ byHand \subseteq byHand'
BY DEF FeedMoved, Looked, Rests, Buys, Calls, Sums, Takes, Gives, Beside, feedVars

\* A month's receipts change by a call in a slice, or by hand.
LEMMA FoundStep ==
    ASSUME FeedTypes, FeedMoved, NEW n \in Months
    PROVE  \/ Found(n)' = Found(n)
           \/ n \in byHand'
           \/ \E p \in Tickers : Calls(p, n)
<1>1. ASSUME UNCHANGED <<feed, compact>> PROVE Found(n)' = Found(n)
  BY <1>1 DEF Found
<1>2. ASSUME NEW m \in Months, m # n, feed' = AfterCall(m), UNCHANGED compact
      PROVE  Found(n)' = Found(n)
  <2>1. feed'[n] = feed[n]
    BY <1>2 DEF AfterCall, FeedTypes
  <2>2. QED
    BY <1>2, <2>1 DEF Found
<1>3. ASSUME NEW m \in Months, feed[m] = "rows", feed' = [feed EXCEPT ![m] = "absent"],
             compact' = compact \cup {m}
      PROVE  Found(n)' = Found(n)
  <2>1. CASE m = n
    BY <1>3, <2>1 DEF Found, FeedTypes
  <2>2. CASE m # n
    <3>1. feed'[n] = feed[n] /\ (n \in compact' <=> n \in compact)
      BY <1>3, <2>2 DEF FeedTypes
    <3>2. QED
      BY <3>1 DEF Found
  <2>3. QED
    BY <2>1, <2>2
<1>4. ASSUME NEW p \in Tickers, NEW m \in Months, Calls(p, m)
      PROVE  Found(n)' = Found(n) \/ Calls(p, n)
  <2>1. CASE m = n
    BY <1>4, <2>1
  <2>2. CASE m # n
    <3>1. feed' = AfterCall(m) /\ UNCHANGED compact
      BY <1>4 DEF Calls
    <3>2. QED
      BY <1>2, <2>2, <3>1
  <2>3. QED
    BY <2>1, <2>2
<1>5. ASSUME NEW m \in Months, Beside(m)
      PROVE  Found(n)' = Found(n) \/ n \in byHand'
  <2>1. CASE m = n /\ m \in byHand'
    BY <2>1
  <2>2. CASE m # n /\ feed' = AfterCall(m) /\ UNCHANGED compact
    BY <1>2, <2>2
  <2>3. CASE /\ feed[m] = "rows" /\ feed' = [feed EXCEPT ![m] = "absent"]
              /\ compact' = compact \cup {m}
    BY <1>3, <2>3
  <2>4. \/ UNCHANGED <<feed, compact>>
        \/ m \in byHand' /\ feed' = AfterCall(m) /\ UNCHANGED compact
        \/ /\ feed[m] = "rows" /\ feed' = [feed EXCEPT ![m] = "absent"]
           /\ compact' = compact \cup {m}
    BY <1>5 DEF Beside
  <2>5. QED
    BY <1>1, <2>1, <2>2, <2>3, <2>4
<1>6. ASSUME NEW p \in Tickers,
             Looked(p) \/ Rests(p) \/ Buys(p) \/ Sums(p) \/ Takes(p) \/ Gives(p)
      PROVE  UNCHANGED <<feed, compact>>
  BY <1>6 DEF Looked, Rests, Buys, Sums, Takes, Gives
<1>7. UNCHANGED feedVars => UNCHANGED <<feed, compact>>
  BY DEF feedVars
<1>8. QED
  BY <1>1, <1>4, <1>5, <1>6, <1>7 DEF FeedMoved

\* A month that nobody asked for has nothing.
LEMMA UntouchedStep ==
    ASSUME FeedTypes, Untouched, FeedMoved
    PROVE  Untouched'
<1> SUFFICES ASSUME NEW n \in Months, n \notin asked', n \notin byHand'
             PROVE  feed'[n] = "absent" /\ n \notin compact'
  BY DEF Untouched, Months
<1>1. feed[n] = "absent" /\ n \notin compact
  BY AskedGrows DEF Untouched
<1>2. CASE UNCHANGED <<feed, compact>>
  BY <1>1, <1>2
<1>3. ASSUME NEW m \in Months, m # n, feed' = AfterCall(m), UNCHANGED compact
      PROVE  feed'[n] = "absent" /\ n \notin compact'
  BY <1>1, <1>3 DEF AfterCall, FeedTypes
<1>4. ASSUME NEW m \in Months, feed[m] = "rows", feed' = [feed EXCEPT ![m] = "absent"],
             compact' = compact \cup {m}
      PROVE  feed'[n] = "absent" /\ n \notin compact'
  BY <1>1, <1>4 DEF FeedTypes
<1>5. ASSUME NEW p \in Tickers, NEW m \in Months, Calls(p, m)
      PROVE  feed'[n] = "absent" /\ n \notin compact'
  BY <1>3, <1>5 DEF Calls
<1>6. ASSUME NEW m \in Months, Beside(m)
      PROVE  feed'[n] = "absent" /\ n \notin compact'
  BY <1>2, <1>3, <1>4, <1>6 DEF Beside
<1>7. ASSUME NEW p \in Tickers,
             Looked(p) \/ Rests(p) \/ Buys(p) \/ Sums(p) \/ Takes(p) \/ Gives(p)
      PROVE  UNCHANGED <<feed, compact>>
  BY <1>7 DEF Looked, Rests, Buys, Sums, Takes, Gives
<1>8. UNCHANGED feedVars => UNCHANGED <<feed, compact>>
  BY DEF feedVars
<1>9. QED
  BY <1>2, <1>5, <1>6, <1>7, <1>8 DEF FeedMoved

\* Of a slice, every month is asked for or still to be.
LEMMA SliceStep ==
    ASSUME FeedTypes, LockIsHeld, Untouched, SliceInHand, FeedMoved
    PROVE  SliceInHand'
<1> SUFFICES ASSUME NEW e \in Tickers, ticker'[e].pc = "calls"
             PROVE  /\ ticker'[e].slice \subseteq asked' \cup ticker'[e].todo
                    /\ \A n \in ticker'[e].todo : Found(n)' => n \in byHand'
                    /\ \A n \in Months \ (asked' \cup byHand' \cup ticker'[e].slice) :
                          Behind(ticker'[e].slice, n)
  BY DEF SliceInHand, Months, Behind
<1>1. asked \subseteq asked' /\ byHand \subseteq byHand'
  BY AskedGrows
<1>2. CASE /\ ticker'[e] = ticker[e] /\ \A p \in Tickers, m \in Months : ~Calls(p, m)
  <2>1. /\ ticker[e].slice \subseteq asked \cup ticker[e].todo
        /\ \A n \in ticker[e].todo : Found(n) => n \in byHand
        /\ \A n \in Months \ (asked \cup byHand \cup ticker[e].slice) :
              Behind(ticker[e].slice, n)
    BY <1>2 DEF SliceInHand
  <2>2. ticker[e] \in TickerStates /\ ticker[e].pc = "calls"
    BY <1>2 DEF FeedTypes
  <2>3. ticker[e].todo \subseteq Months
    BY <2>2, States
  <2>4. \A n \in ticker[e].todo : Found(n)' => n \in byHand'
    BY <1>1, <1>2, <2>1, <2>3, FoundStep
  <2>5. QED
    BY <1>1, <1>2, <2>1, <2>4
<1>3. ASSUME NEW m \in Months, Calls(e, m)
      PROVE  /\ ticker'[e].slice \subseteq asked' \cup ticker'[e].todo
             /\ \A n \in ticker'[e].todo : Found(n)' => n \in byHand'
             /\ \A n \in Months \ (asked' \cup byHand' \cup ticker'[e].slice) :
                   Behind(ticker'[e].slice, n)
  <2>1. ticker[e].pc = "calls" /\ ticker[e] \in TickerStates
    BY <1>3 DEF Calls, FeedTypes
  <2>2. /\ ticker[e].slice \subseteq asked \cup ticker[e].todo
        /\ \A n \in ticker[e].todo : Found(n) => n \in byHand
        /\ \A n \in Months \ (asked \cup byHand \cup ticker[e].slice) :
              Behind(ticker[e].slice, n)
    BY <2>1 DEF SliceInHand
  <2>3. ticker[e].todo \subseteq Months
    BY <2>1, States
  <2>4. /\ ticker'[e].slice = ticker[e].slice /\ ticker'[e].todo = ticker[e].todo \ {m}
        /\ asked' = asked \cup {m}
    BY <1>3 DEF Calls
  <2>5. \A n \in Months : n # m => Found(n)' = Found(n)
    <3> TAKE n \in Months
    <3> HAVE n # m
    <3>1. feed'[n] = feed[n] /\ UNCHANGED compact
      BY <1>3 DEF Calls, AfterCall, FeedTypes
    <3>2. QED
      BY <3>1 DEF Found
  <2>6. QED
    BY <1>1, <2>2, <2>3, <2>4, <2>5
<1>4. CASE Buys(e)
  <2> DEFINE slice == FirstOf(Missing, NextLimit)
  <2>1. /\ ticker'[e].slice = slice /\ ticker'[e].todo = slice
        /\ UNCHANGED <<feed, compact, asked, byHand>>
    BY <1>4 DEF Buys
  <2>2. Missing \in SUBSET Months /\ slice \subseteq Missing
    BY DEF Missing, FirstOf
  <2>3. \A n \in slice : ~Found(n)'
    BY <2>1, <2>2 DEF Missing, Found
  <2>4. \A n \in Months \ (asked \cup byHand) : n \in Missing
    BY DEF Untouched, Missing, Found
  <2> HIDE DEF slice
  <2>5. \A n \in Months \ (asked \cup byHand \cup slice) : Behind(slice, n)
    BY <2>2, <2>4, SliceIsFull DEF slice
  <2>6. QED
    BY <2>1, <2>3, <2>5
<1>5. CASE Takes(e)
  BY <1>5 DEF Takes
<1>6. QED
  BY <1>2, <1>3, <1>4, <1>5, Elsewhere

\* A month that a materialization misses was taken by hand.
LEMMA WholeStep ==
    ASSUME FeedTypes, LockIsHeld, WholeInHand, FeedMoved
    PROVE  WholeInHand'
<1> SUFFICES ASSUME NEW e \in Tickers, ticker'[e].pc = "materialize", NEW n \in Months, ~Found(n)'
             PROVE  n \in byHand'
  BY DEF WholeInHand, Missing, Months
<1>1. CASE /\ ticker'[e] = ticker[e] /\ \A p \in Tickers, m \in Months : ~Calls(p, m)
  <2>1. ~Found(n) => n \in byHand
    BY <1>1 DEF WholeInHand, Missing
  <2>2. QED
    BY <1>1, <2>1, FoundStep, AskedGrows
<1>2. CASE Takes(e)
  BY <1>2 DEF Takes, Missing, Found
<1>3. QED
  BY <1>1, <1>2, Elsewhere DEF Buys, Calls

\* So was one that the target misses.
LEMMA GivenStep ==
    ASSUME FeedTypes, WholeInHand, TargetIsWhole, FeedMoved
    PROVE  TargetIsWhole'
<1>1. byHand \subseteq byHand'
  BY AskedGrows
<1>2. CASE UNCHANGED used /\ stage'.target = stage.target
  BY <1>1, <1>2 DEF TargetIsWhole, Months
<1>3. ASSUME NEW p \in Tickers, Gives(p) PROVE TargetIsWhole'
  <2>1. Missing \subseteq byHand /\ used' = Months \ Missing /\ Missing \subseteq Months
    BY <1>3 DEF Gives, WholeInHand, Missing
  <2>2. QED
    BY <1>1, <2>1 DEF TargetIsWhole, Months
<1>4. ASSUME NEW p \in Tickers, Looked(p) \/ Rests(p) \/ Buys(p) \/ Sums(p) \/ Takes(p)
      PROVE  UNCHANGED used /\ stage'.target = stage.target
  BY <1>4 DEF Looked, Rests, Buys, Sums, Takes
<1>5. \/ \E p \in Tickers, m \in Months : Calls(p, m)
      \/ \E m \in Months : Beside(m)
      \/ UNCHANGED feedVars
      => UNCHANGED used /\ stage'.target = stage.target
  BY DEF Calls, Beside, feedVars
<1>6. QED
  BY <1>2, <1>3, <1>4, <1>5 DEF FeedMoved

\* A month is paid for again only by hand.
LEMMA PaidStep ==
    ASSUME FeedTypes, SliceInHand, PaidAgainByHand, FeedMoved
    PROVE  PaidAgainByHand'
<1>1. byHand \subseteq byHand'
  BY AskedGrows
<1>2. CASE UNCHANGED again
  BY <1>1, <1>2 DEF PaidAgainByHand
<1>3. ASSUME NEW p \in Tickers, NEW m \in Months, Calls(p, m) PROVE PaidAgainByHand'
  <2>1. Found(m) => m \in byHand
    BY <1>3 DEF Calls, SliceInHand
  <2>2. again' = (IF Found(m) THEN again \cup {m} ELSE again)
    BY <1>3 DEF Calls
  <2>3. QED
    BY <1>1, <2>1, <2>2 DEF PaidAgainByHand
<1>4. ASSUME NEW m \in Months, Beside(m) PROVE PaidAgainByHand'
  BY <1>1, <1>4 DEF Beside, PaidAgainByHand
<1>5. ASSUME NEW p \in Tickers,
             Looked(p) \/ Rests(p) \/ Buys(p) \/ Sums(p) \/ Takes(p) \/ Gives(p)
      PROVE  UNCHANGED again
  BY <1>5 DEF Looked, Rests, Buys, Sums, Takes, Gives
<1>6. UNCHANGED feedVars => UNCHANGED again
  BY DEF feedVars
<1>7. QED
  BY <1>2, <1>3, <1>4, <1>5, <1>6 DEF FeedMoved

\* A month without supply holds up only those behind it.
LEMMA HeldStep ==
    ASSUME FeedTypes, FeedTypes', SliceInHand, HeldUp, FeedMoved
    PROVE  HeldUp'
<1> SUFFICES ASSUME barren', NEW n \in Months, n \notin asked', n \notin byHand'
             PROVE  Behind(asked', n)
  BY DEF HeldUp, Months, Behind
<1>1. asked \subseteq asked' /\ byHand \subseteq byHand' /\ asked' \in SUBSET Months
  BY AskedGrows DEF FeedTypes, Months
<1>2. CASE barren
  <2>1. Behind(asked, n)
    BY <1>1, <1>2 DEF HeldUp
  <2>2. {x \in asked : x < n} \subseteq {x \in asked' : x < n}
    BY <1>1
  <2>3. QED
    BY <1>1, <2>1, <2>2, MoreBehind
<1>3. ASSUME NEW p \in Tickers, Sums(p) PROVE Behind(asked', n)
  <2>1. ticker[p].slice \subseteq asked /\ UNCHANGED <<asked, byHand>>
    BY <1>3 DEF Sums, SliceInHand
  <2>2. Behind(ticker[p].slice, n)
    BY <1>3, <2>1 DEF Sums, SliceInHand
  <2>3. {x \in ticker[p].slice : x < n} \subseteq {x \in asked' : x < n}
    BY <2>1
  <2>4. QED
    BY <1>1, <2>2, <2>3, MoreBehind
<1>4. barren' = barren \/ \E p \in Tickers : Sums(p)
  <2>1. \A p \in Tickers :
           Looked(p) \/ Rests(p) \/ Buys(p) \/ Takes(p) \/ Gives(p) => barren' = barren
    BY DEF Looked, Rests, Buys, Takes, Gives
  <2>2. \A p \in Tickers, m \in Months : Calls(p, m) => barren' = barren
    BY DEF Calls
  <2>3. \A m \in Months : Beside(m) => barren' = barren
    BY DEF Beside
  <2>4. UNCHANGED feedVars => barren' = barren
    BY DEF feedVars
  <2>5. QED
    BY <2>1, <2>2, <2>3, <2>4 DEF FeedMoved
<1>5. QED
  BY <1>2, <1>3, <1>4

\* The invariant of the feed holds at the start,
LEMMA FeedInitInvariant == FeedInit => FeedInv
<1> SUFFICES ASSUME FeedInit PROVE FeedInv
  OBVIOUS
<1>1. \A p \in Tickers : ticker[p] = Resting /\ ticker[p].pc = "idle"
  BY States DEF FeedInit
<1>2. FeedTypes
  BY States DEF FeedInit, FeedTypes
<1>3. stage.target = "open" /\ barren = FALSE
  BY DEF FeedInit
<1>4. LockIsHeld /\ SliceInHand /\ WholeInHand
  BY <1>1 DEF LockIsHeld, SliceInHand, WholeInHand
<1>5. hand \subseteq byHand /\ Untouched /\ PaidAgainByHand
  BY DEF FeedInit, Untouched, PaidAgainByHand
<1>6. TargetIsWhole /\ HeldUp
  BY <1>3 DEF TargetIsWhole, HeldUp
<1>7. QED
  BY <1>2, <1>4, <1>5, <1>6 DEF FeedInv

\* and is inductive.
LEMMA FeedStepInvariant == FeedInv /\ [FeedNext]_feedVars => FeedInv'
<1> SUFFICES ASSUME FeedInv, [FeedNext]_feedVars PROVE FeedInv'
  OBVIOUS
<1>1. /\ FeedTypes /\ LockIsHeld /\ hand \subseteq byHand /\ Untouched /\ SliceInHand
      /\ WholeInHand /\ TargetIsWhole /\ PaidAgainByHand /\ HeldUp
  BY DEF FeedInv
<1>2. FeedMoved /\ FeedTypes'
  BY <1>1, FeedTypeStep
<1>3. hand' \subseteq byHand'
  <2>1. \A p \in Tickers :
           Looked(p) \/ Rests(p) \/ Buys(p) \/ Sums(p) \/ Takes(p) \/ Gives(p)
             => UNCHANGED <<hand, byHand>>
    BY DEF Looked, Rests, Buys, Sums, Takes, Gives
  <2>2. \A p \in Tickers, m \in Months : Calls(p, m) => UNCHANGED <<hand, byHand>>
    BY DEF Calls
  <2>3. \A m \in Months : Beside(m) => hand' \subseteq byHand'
    BY DEF Beside
  <2>4. UNCHANGED feedVars => UNCHANGED <<hand, byHand>>
    BY DEF feedVars
  <2>5. QED
    BY <1>1, <1>2, <2>1, <2>2, <2>3, <2>4 DEF FeedMoved
<1>4. LockIsHeld' /\ Untouched' /\ SliceInHand' /\ WholeInHand'
  BY <1>1, <1>2, LockStep, UntouchedStep, SliceStep, WholeStep
<1>5. TargetIsWhole' /\ PaidAgainByHand' /\ HeldUp'
  BY <1>1, <1>2, GivenStep, PaidStep, HeldStep
<1>6. QED
  BY <1>2, <1>3, <1>4, <1>5 DEF FeedInv

\* The inductive invariant of the target's feed, in every reachable state.
THEOREM FeedInvariant == FeedSpec => []FeedInv
BY FeedInitInvariant, FeedStepInvariant, PTL DEF FeedSpec

\* M02 is given the whole fold, a tick never pays for a month with rows, and a month
\* nobody asks for stands behind a slice of months without rows; only the command line,
\* which takes no lock, makes exceptions.
THEOREM FeedAccounted == FeedSpec => []FeedIsAccountedFor
<1>1. FeedInv => FeedIsAccountedFor
  <2> SUFFICES ASSUME FeedInv PROVE FeedIsAccountedFor
    OBVIOUS
  <2>1. TargetIsWhole /\ PaidAgainByHand /\ HeldUp /\ FeedTypes
    BY DEF FeedInv
  <2>2. HeldUpByDeadMonths
    BY <2>1 DEF HeldUp, HeldUpByDeadMonths, Missing, Behind
  <2>3. QED
    BY <2>1, <2>2 DEF FeedIsAccountedFor
<1>2. QED
  BY <1>1, FeedInvariant, PTL

-----------------------------------------------------------------------------
(* RerunReset: the state and the invariant.                                   *)
Numbers == 1 .. MaxResets
Pairs == Folds \X PlanStages
Asked == [number : Numbers, fold : Folds, stages : SUBSET PlanStages, explicit : SUBSET PlanStages]
Resets ==
    [pc : {"loaded", "written"}, number : Numbers, fold : Folds, cut : DOMAIN FoldPlan.order,
     ck : Checkpoints(FoldPlan), refs : SUBSET PlanStages, request : Asked]

ResetTypes ==
    /\ fold \in [Folds -> Checkpoints(FoldPlan)] /\ refs \in [Folds -> SUBSET PlanStages]
    /\ artifacts \subseteq Pairs /\ operator \in [Operators -> {NoReset} \cup Resets]
    /\ requests \subseteq Asked /\ made \in 0 .. MaxResets
    /\ rerun \in [Numbers -> SUBSET Pairs]
    /\ torn \subseteq Pairs /\ late \subseteq Pairs /\ revived \subseteq Pairs

\* References and the status say the same of a stage, in the state of a fold and in the
\* copy an operator holds.
Agree(known, cp) == \A s \in PlanStages : s \in known <=> cp.status[s] = "succeeded"
RefsAgree == \A f \in Folds : Agree(refs[f], fold[f])

OperatorAt(o, pc) == operator[o].pc = pc
Resetting(o) == OperatorAt(o, "loaded") \/ OperatorAt(o, "written")

\* An operator's request is for what the reset of its copy forgets.
CopiesAgree ==
    \A o \in Operators : Resetting(o) =>
        /\ Agree(operator[o].refs, operator[o].ck)
        /\ operator[o].request.number = operator[o].number
        /\ operator[o].request.fold = operator[o].fold
        /\ operator[o].request.stages = Selects(operator[o].ck, operator[o].cut)
        /\ operator[o].request.explicit \subseteq operator[o].request.stages

\* Each reset has a number of its own.
OwnNumbers ==
    /\ \A o \in Operators : Resetting(o) => operator[o].number <= made
    /\ \A r \in requests : r.number <= made /\ r.explicit \subseteq r.stages
    /\ \A o, p \in Operators :
          o # p /\ Resetting(o) /\ Resetting(p) => operator[o].number # operator[p].number
    /\ \A o \in Operators, r \in requests : Resetting(o) => operator[o].number # r.number

\* What a request will clear and a stage refers to was made after the reset, or by
\* another one.
Explained(r) ==
    \A s \in r.stages : s \in refs[r.fold] => <<r.fold, s>> \in rerun[r.number] \cup revived
RerunsAreKnown ==
    /\ \A r \in requests : Explained(r)
    /\ \A o \in Operators : OperatorAt(o, "written") => Explained(operator[o].request)

ResetInv ==
    /\ ResetTypes /\ RefsAgree /\ CopiesAgree /\ OwnNumbers /\ RerunsAreKnown
    /\ OrphansAreListed /\ DoneHasItsArtifact

-----------------------------------------------------------------------------
(* What loads, executions and resets do to a checkpoint.                      *)
LEMMA RefreshKeeps ==
    ASSUME NEW cp \in Checkpoints(FoldPlan)
    PROVE  /\ Refresh(FoldPlan, cp) \in Checkpoints(FoldPlan)
           /\ \A s \in PlanStages :
                 Refresh(FoldPlan, cp).status[s] = "succeeded" <=> cp.status[s] = "succeeded"
BY DEF Refresh, Checkpoints, Status, Terminal, PlanStages

\* A checkpoint with a success more.
LEMMA ExecutedKeeps ==
    ASSUME NEW cp \in Checkpoints(FoldPlan), NEW s \in PlanStages
    PROVE  /\ Succeeded(cp, s) \in Checkpoints(FoldPlan)
           /\ \A t \in PlanStages :
                 Succeeded(cp, s).status[t] = "succeeded" <=> t = s \/ cp.status[t] = "succeeded"
BY DEF Succeeded, Checkpoints, Status, PlanStages

\* A checkpoint that was reset from a place on.
LEMMA ResetKeeps ==
    ASSUME NEW cp \in Checkpoints(FoldPlan), NEW cut
    PROVE  /\ ResetFrom(FoldPlan, cp, cut) \in Checkpoints(FoldPlan)
           /\ \A s \in PlanStages :
                 ResetFrom(FoldPlan, cp, cut).status[s] = "succeeded"
                     <=> cp.status[s] = "succeeded" /\ s \notin Affected(cut)
<1> DEFINE hit == Affected(cut)
           clear(s) == s \in hit /\ cp.status[s] # "not_applicable"
           cleared == [status |-> [s \in DOMAIN cp.status |->
                          IF clear(s) THEN "pending" ELSE cp.status[s]],
                       hold   |-> [s \in DOMAIN cp.hold |-> ~clear(s) /\ cp.hold[s]]]
<1>1. ResetFrom(FoldPlan, cp, cut) = Refresh(FoldPlan, cleared)
  BY DEF ResetFrom, Affected
<1>2. cleared \in Checkpoints(FoldPlan)
  <2> HIDE DEF hit
  <2>1. cleared.status \in [PlanStages -> Status]
    BY DEF Checkpoints, Status, PlanStages
  <2>2. cleared.hold \in [PlanStages -> BOOLEAN]
    BY DEF Checkpoints, PlanStages
  <2>3. QED
    BY <2>1, <2>2 DEF Checkpoints, PlanStages
<1>3. \A s \in PlanStages :
         cleared.status[s] = "succeeded" <=> cp.status[s] = "succeeded" /\ s \notin hit
  <2> HIDE DEF hit
  <2> QED
    BY DEF Checkpoints, PlanStages
<1> HIDE DEF cleared, hit
<1>4. QED
  BY <1>1, <1>2, <1>3, RefreshKeeps DEF hit

\* The next ready stage is one of the plan.
LEMMA NextReadyIsStage ==
    ASSUME NEW cp, NextReady(FoldPlan, cp, NoneReady) # NoneReady
    PROVE  NextReady(FoldPlan, cp, NoneReady) \in PlanStages
<1> DEFINE first(i) == /\ cp.status[FoldPlan.order[i]] = "ready"
                       /\ \A j \in 1..(i - 1) : cp.status[FoldPlan.order[j]] # "ready"
           at == CHOOSE i \in DOMAIN FoldPlan.order : first(i)
<1>1. \E i \in DOMAIN FoldPlan.order : first(i)
  BY DEF NextReady
<1>2. NextReady(FoldPlan, cp, NoneReady) = FoldPlan.order[at]
  BY <1>1 DEF NextReady
<1>3. at \in DOMAIN FoldPlan.order
  BY <1>1
<1>4. QED
  BY <1>2, <1>3 DEF PlanStages, StagesOf

\* A cut affects stages of the plan.
LEMMA AffectedType ==
    ASSUME NEW cut \in DOMAIN FoldPlan.order
    PROVE  Affected(cut) \subseteq PlanStages
<1>1. FoldPlan.order \in Seq(StagesOf(FoldPlan))
  BY ResetAssumption
<1>2. DOMAIN FoldPlan.order = 1 .. Len(FoldPlan.order) /\ Len(FoldPlan.order) \in Nat
  BY <1>1
<1>3. \A i \in cut .. Len(FoldPlan.order) : i \in DOMAIN FoldPlan.order
  BY <1>2
<1>4. QED
  BY <1>3 DEF Affected, PlanStages, StagesOf

\* What an operator holds.
LEMMA Held ==
    ASSUME ResetTypes, NEW o \in Operators
    PROVE  /\ operator[o] = NoReset <=> ~Resetting(o)
           /\ Resetting(o) => operator[o] \in Resets
           /\ NoReset.pc = "idle"
BY DEF ResetTypes, Resets, Resetting, OperatorAt, NoReset

OtherOperators(o) == \A p \in Operators : p # o => operator'[p] = operator[p]

-----------------------------------------------------------------------------
(* What each step does.                                                       *)

\* A stage is executed.
Executed(f, s) ==
    /\ fold'[f] \in Checkpoints(FoldPlan)
    /\ \A t \in PlanStages :
          fold'[f].status[t] = "succeeded" <=> t = s \/ fold[f].status[t] = "succeeded"
    /\ \A g \in Folds : g # f => fold'[g] = fold[g] /\ refs'[g] = refs[g]
    /\ refs'[f] = refs[f] \cup {s} /\ artifacts' = artifacts \cup {<<f, s>>}
    /\ \A n \in Numbers : rerun'[n] = rerun[n] \cup {<<f, s>>}
    /\ torn' = torn \ {<<f, s>>} /\ late' = late \ {<<f, s>>} /\ revived' = revived \ {<<f, s>>}
    /\ UNCHANGED <<operator, requests, made>>

\* A stage that is executed gets its artifact.
LEMMA ExecuteStep ==
    ASSUME ResetTypes, NEW f \in Folds, ExecuteStage(f)
    PROVE  /\ \E s \in PlanStages : Executed(f, s)
           /\ ResetTypes'
<1>1. PICK cp \in Checkpoints(FoldPlan) : cp = LoadedFold(f)
  BY RefreshKeeps DEF LoadedFold, ResetTypes
<1>2. PICK s \in PlanStages : s = NextReady(FoldPlan, cp, NoneReady)
  BY <1>1, NextReadyIsStage DEF ExecuteStage
<1>3. PICK new \in Checkpoints(FoldPlan) : new = Refresh(FoldPlan, Succeeded(cp, s))
  BY ExecutedKeeps, RefreshKeeps
<1>4. \A t \in PlanStages : new.status[t] = "succeeded" <=> t = s \/ fold[f].status[t] = "succeeded"
  <2>1. fold[f] \in Checkpoints(FoldPlan) /\ Succeeded(cp, s) \in Checkpoints(FoldPlan)
    BY ExecutedKeeps DEF ResetTypes
  <2>2. \A t \in PlanStages : cp.status[t] = "succeeded" <=> fold[f].status[t] = "succeeded"
    BY <1>1, <2>1, RefreshKeeps DEF LoadedFold
  <2>3. \A t \in PlanStages :
           new.status[t] = "succeeded" <=> Succeeded(cp, s).status[t] = "succeeded"
    BY <1>3, <2>1, RefreshKeeps
  <2>4. QED
    BY <2>2, <2>3, ExecutedKeeps
<1>5. /\ fold' = [fold EXCEPT ![f] = new] /\ refs' = [refs EXCEPT ![f] = refs[f] \cup {s}]
      /\ artifacts' = artifacts \cup {<<f, s>>}
      /\ rerun' = [n \in DOMAIN rerun |-> rerun[n] \cup {<<f, s>>}]
      /\ torn' = torn \ {<<f, s>>} /\ late' = late \ {<<f, s>>} /\ revived' = revived \ {<<f, s>>}
      /\ UNCHANGED <<operator, requests, made>>
  BY <1>1, <1>2, <1>3 DEF ExecuteStage
<1>6. <<f, s>> \in Pairs
  BY DEF Pairs
<1>7. /\ fold' \in [Folds -> Checkpoints(FoldPlan)] /\ refs' \in [Folds -> SUBSET PlanStages]
      /\ rerun' \in [Numbers -> SUBSET Pairs]
  BY <1>5, <1>6 DEF ResetTypes
<1>8. ResetTypes'
  BY <1>5, <1>6, <1>7 DEF ResetTypes
<1>9. /\ fold'[f] = new /\ refs'[f] = refs[f] \cup {s}
      /\ \A g \in Folds : g # f => fold'[g] = fold[g] /\ refs'[g] = refs[g]
      /\ \A n \in Numbers : rerun'[n] = rerun[n] \cup {<<f, s>>}
  BY <1>5 DEF ResetTypes
<1>10. Executed(f, s)
  BY <1>4, <1>5, <1>9 DEF Executed
<1>11. QED
  BY <1>8, <1>10

\* The state of a fold is loaded for a reset.
Opened(o) ==
    /\ OtherOperators(o) /\ ~Resetting(o) /\ OperatorAt(o, "loaded")'
    /\ operator'[o] \in Resets /\ operator'[o].number = made + 1
    /\ made' = made + 1 /\ made + 1 \in Numbers
    /\ Agree(operator'[o].refs, operator'[o].ck)
    /\ operator'[o].request.number = operator'[o].number
    /\ operator'[o].request.fold = operator'[o].fold
    /\ operator'[o].request.stages = Selects(operator'[o].ck, operator'[o].cut)
    /\ operator'[o].request.explicit \subseteq operator'[o].request.stages
    /\ UNCHANGED <<fold, refs, artifacts, requests, rerun, torn, late, revived>>

\* What an operator loads agrees with its references.
LEMMA LoadStep ==
    ASSUME ResetTypes, RefsAgree, NEW o \in Operators, NEW f \in Folds,
           NEW cut \in DOMAIN FoldPlan.order, LoadForReset(o, f, cut)
    PROVE  Opened(o) /\ ResetTypes'
<1>1. PICK cp \in Checkpoints(FoldPlan) : cp = LoadedFold(f)
  BY RefreshKeeps DEF LoadedFold, ResetTypes
<1>2. PICK known \in SUBSET PlanStages : known = refs[f]
  BY DEF ResetTypes
<1>3. Agree(known, cp)
  <2>1. fold[f] \in Checkpoints(FoldPlan)
    BY DEF ResetTypes
  <2>2. QED
    BY <1>1, <1>2, <2>1, RefreshKeeps DEF LoadedFold, Agree, RefsAgree
<1>4. PICK number \in Numbers : number = made + 1
  BY ResetAssumption DEF LoadForReset, ResetTypes, Numbers
<1>5. PICK wish \in Asked :
         /\ wish = Request(number, f, Selects(cp, cut), Affected(cut) \cap known)
         /\ wish.number = number /\ wish.fold = f /\ wish.stages = Selects(cp, cut)
         /\ wish.explicit = Affected(cut) \cap known
  <2>1. Selects(cp, cut) \in SUBSET PlanStages /\ Affected(cut) \cap known \in SUBSET PlanStages
    BY AffectedType DEF Selects
  <2>2. Request(number, f, Selects(cp, cut), Affected(cut) \cap known) \in Asked
    BY <2>1 DEF Request, Asked
  <2>3. QED
    BY <2>2 DEF Request
<1>6. wish.explicit \subseteq wish.stages
  BY <1>3, <1>5 DEF Selects, Agree
<1>7. PICK new : new = [pc |-> "loaded", number |-> number, fold |-> f, cut |-> cut, ck |-> cp,
                        refs |-> known, request |-> wish]
  OBVIOUS
<1>8. /\ new \in Resets /\ new.pc = "loaded" /\ new.number = number /\ new.fold = f /\ new.cut = cut
      /\ new.ck = cp /\ new.refs = known /\ new.request = wish
  BY <1>7 DEF Resets
<1>9. operator' = [operator EXCEPT ![o] = new] /\ operator[o] = NoReset
  BY <1>1, <1>2, <1>4, <1>5, <1>7 DEF LoadForReset
<1>10. /\ operator' \in [Operators -> {NoReset} \cup Resets] /\ operator'[o] = new /\ OtherOperators(o)
  BY <1>8, <1>9 DEF ResetTypes, OtherOperators
<1>11. /\ made' = made + 1
       /\ UNCHANGED <<fold, refs, artifacts, requests, rerun, torn, late, revived>>
  BY DEF LoadForReset
<1>12. made' \in 0 .. MaxResets
  BY <1>4, <1>11, ResetAssumption DEF Numbers
<1>13. ResetTypes'
  BY <1>10, <1>11, <1>12 DEF ResetTypes
<1>14. ~Resetting(o)
  BY <1>9, Held
<1>15. QED
  BY <1>3, <1>4, <1>5, <1>6, <1>8, <1>10, <1>11, <1>13, <1>14 DEF Opened, OperatorAt

\* The state is written over what the fold has now.
Written(o) ==
    LET f == operator[o].fold
        kept == operator[o].refs \ operator[o].request.stages
    IN  /\ OtherOperators(o) /\ OperatorAt(o, "loaded") /\ OperatorAt(o, "written")'
        /\ operator'[o].number = operator[o].number /\ operator'[o].fold = operator[o].fold
        /\ operator'[o].ck = operator[o].ck /\ operator'[o].cut = operator[o].cut
        /\ operator'[o].refs = operator[o].refs /\ operator'[o].request = operator[o].request
        /\ \A g \in Folds : g # f => fold'[g] = fold[g] /\ refs'[g] = refs[g]
        /\ refs'[f] = kept /\ Agree(kept, fold'[f])
        /\ torn' = torn \cup {<<f, s>> : s \in refs[f] \ operator[o].refs}
        /\ revived' = revived \cup {<<f, s>> : s \in kept \ refs[f]}
        /\ \A n \in Numbers : n # operator[o].number => rerun'[n] = rerun[n]
        /\ UNCHANGED <<artifacts, requests, made, late>>

\* What an operator writes is what it loaded, reset.
LEMMA WriteStep ==
    ASSUME ResetTypes, CopiesAgree, NEW o \in Operators, WriteState(o)
    PROVE  Written(o) /\ ResetTypes'
<1>1. OperatorAt(o, "loaded") /\ operator[o] \in Resets
  BY Held DEF WriteState, OperatorAt, Resetting
<1>2. PICK f \in Folds, number \in Numbers, cp \in Checkpoints(FoldPlan), known \in SUBSET PlanStages :
         /\ f = operator[o].fold /\ number = operator[o].number /\ cp = operator[o].ck
         /\ known = operator[o].refs
  BY <1>1 DEF Resets
<1>3. PICK cut : cut = operator[o].cut
  OBVIOUS
<1>4. operator[o].request.stages = Selects(cp, cut) /\ Agree(known, cp)
  BY <1>1, <1>2, <1>3 DEF CopiesAgree, Resetting
<1>5. PICK kept \in SUBSET PlanStages : kept = known \ Forgets(cp, cut)
  OBVIOUS
<1>6. Forgets(cp, cut) = Selects(cp, cut)
  BY DEF Forgets, Selects
<1>7. PICK new \in Checkpoints(FoldPlan) : new = ResetFrom(FoldPlan, cp, cut)
  BY ResetKeeps
<1>8. Agree(kept, new)
  <2>1. \A s \in PlanStages :
           new.status[s] = "succeeded" <=> cp.status[s] = "succeeded" /\ s \notin Affected(cut)
    BY <1>7, ResetKeeps
  <2>2. \A s \in PlanStages : s \in kept <=> s \in known /\ s \notin Affected(cut)
    BY <1>4, <1>5 DEF Forgets, Agree
  <2>3. QED
    BY <1>4, <2>1, <2>2 DEF Agree
<1>9. ResetOf(o).ck = new /\ ResetOf(o).refs = kept
  BY <1>2, <1>3, <1>5, <1>7 DEF ResetOf
<1>10. /\ fold' = [fold EXCEPT ![f] = new] /\ refs' = [refs EXCEPT ![f] = kept]
       /\ torn' = torn \cup {<<f, s>> : s \in refs[f] \ known}
       /\ revived' = revived \cup {<<f, s>> : s \in kept \ refs[f]}
       /\ rerun' = [rerun EXCEPT ![number] = {}]
       /\ UNCHANGED <<artifacts, requests, made, late>>
  BY <1>2, <1>9 DEF WriteState
<1>11. PICK mine : mine = [operator[o] EXCEPT !.pc = "written"]
  OBVIOUS
<1>12. /\ mine \in Resets /\ mine.pc = "written" /\ mine.number = operator[o].number
       /\ mine.fold = operator[o].fold /\ mine.ck = operator[o].ck /\ mine.cut = operator[o].cut
       /\ mine.refs = operator[o].refs /\ mine.request = operator[o].request
  BY <1>1, <1>11 DEF Resets
<1>13. operator' = [operator EXCEPT ![o] = mine]
  BY <1>11 DEF WriteState, ResetTypes
<1>14. operator' \in [Operators -> {NoReset} \cup Resets] /\ operator'[o] = mine /\ OtherOperators(o)
  BY <1>12, <1>13 DEF ResetTypes, OtherOperators
<1>15. /\ fold' \in [Folds -> Checkpoints(FoldPlan)] /\ refs' \in [Folds -> SUBSET PlanStages]
       /\ rerun' \in [Numbers -> SUBSET Pairs]
  BY <1>10 DEF ResetTypes
<1>16. torn' \subseteq Pairs /\ revived' \subseteq Pairs
  <2>1. refs[f] \subseteq PlanStages
    BY DEF ResetTypes
  <2>2. QED
    BY <1>10, <2>1 DEF ResetTypes, Pairs
<1>17. ResetTypes'
  BY <1>10, <1>14, <1>15, <1>16 DEF ResetTypes
<1>18. /\ fold'[f] = new /\ refs'[f] = kept
       /\ \A g \in Folds : g # f => fold'[g] = fold[g] /\ refs'[g] = refs[g]
       /\ \A n \in Numbers : n # number => rerun'[n] = rerun[n]
  BY <1>10 DEF ResetTypes
<1>19. kept = operator[o].refs \ operator[o].request.stages
  BY <1>2, <1>4, <1>5, <1>6
<1>20. Written(o)
  BY <1>1, <1>2, <1>8, <1>10, <1>12, <1>14, <1>18, <1>19 DEF Written, OperatorAt
<1>21. QED
  BY <1>17, <1>20

\* An operator is done, or interrupted; storage clears.
Closed(o) ==
    /\ OtherOperators(o) /\ Resetting(o) /\ operator'[o] = NoReset /\ ~Resetting(o)'
    /\ UNCHANGED <<fold, refs, artifacts, made, rerun, late, revived>>
    /\ \/ /\ requests' = requests \cup {operator[o].request} /\ OperatorAt(o, "written") /\ UNCHANGED torn
       \/ /\ UNCHANGED requests /\ torn \subseteq torn'
          /\ OperatorAt(o, "written") =>
                \A s \in operator[o].request.stages : <<operator[o].fold, s>> \in torn'

\* A reset that ends keeps the types.
LEMMA CloseStep ==
    ASSUME ResetTypes, NEW o \in Operators, WriteReceipt(o) \/ Interrupt(o)
    PROVE  Closed(o) /\ ResetTypes'
<1>1. operator' = [operator EXCEPT ![o] = NoReset]
  BY DEF WriteReceipt, Interrupt
<1>2. /\ operator' \in [Operators -> {NoReset} \cup Resets] /\ operator'[o] = NoReset
      /\ OtherOperators(o) /\ ~Resetting(o)'
  BY <1>1, Held DEF ResetTypes, OtherOperators, Resetting, OperatorAt
<1>3. CASE WriteReceipt(o)
  <2>1. OperatorAt(o, "written") /\ Resetting(o) /\ operator[o] \in Resets
    BY <1>3, Held DEF WriteReceipt, OperatorAt, Resetting
  <2>2. /\ requests' = requests \cup {operator[o].request}
        /\ UNCHANGED <<fold, refs, artifacts, made, rerun, torn, late, revived>>
    BY <1>3 DEF WriteReceipt
  <2>3. requests' \subseteq Asked
    BY <2>1, <2>2 DEF ResetTypes, Resets
  <2>4. QED
    BY <1>2, <2>1, <2>2, <2>3 DEF Closed, ResetTypes
<1>4. CASE Interrupt(o)
  <2>1. Resetting(o) /\ operator[o] \in Resets
    BY <1>4, Held DEF Interrupt
  <2>2. UNCHANGED <<fold, refs, artifacts, requests, made, rerun, late, revived>>
    BY <1>4 DEF Interrupt
  <2>3. torn' = IF operator[o].pc = "written"
                THEN torn \cup {<<operator[o].fold, s>> : s \in operator[o].request.stages} ELSE torn
    BY <1>4 DEF Interrupt
  <2>4. operator[o].fold \in Folds /\ operator[o].request.stages \subseteq PlanStages
    BY <2>1 DEF Resets, Asked
  <2>5. torn' \subseteq Pairs
    BY <2>3, <2>4 DEF ResetTypes, Pairs
  <2>6. /\ torn \subseteq torn'
        /\ OperatorAt(o, "written") =>
              \A s \in operator[o].request.stages : <<operator[o].fold, s>> \in torn'
    BY <2>3 DEF OperatorAt
  <2>7. QED
    BY <1>2, <2>1, <2>2, <2>5, <2>6 DEF Closed, ResetTypes
<1>5. QED
  BY <1>3, <1>4

Cleared(r) ==
    LET hit == {<<r.fold, s>> : s \in r.stages \cup r.explicit}
    IN  /\ r \in requests /\ requests' = requests \ {r} /\ artifacts' = artifacts \ hit
        /\ late' = late \cup (hit \cap rerun[r.number]) /\ torn' = torn \ hit
        /\ UNCHANGED <<fold, refs, operator, made, rerun, revived>>

\* Clearing a request keeps the types.
LEMMA ClearStep ==
    ASSUME ResetTypes, NEW r \in requests, Clear(r)
    PROVE  Cleared(r) /\ ResetTypes'
<1>1. Cleared(r)
  BY DEF Clear, Cleared
<1>2. r \in Asked
  BY DEF ResetTypes
<1>3. rerun[r.number] \subseteq Pairs
  BY <1>2 DEF ResetTypes, Asked
<1>4. QED
  BY <1>1, <1>3 DEF Cleared, ResetTypes

ResetMoved ==
    \/ \E f \in Folds, s \in PlanStages : Executed(f, s)
    \/ \E o \in Operators : Opened(o) \/ Written(o) \/ Closed(o)
    \/ \E r \in requests : Cleared(r)
    \/ UNCHANGED resetVars

\* Every step is one of these, and keeps the types.
LEMMA ResetTypeStep ==
    ASSUME ResetTypes, RefsAgree, CopiesAgree, [ResetNext]_resetVars
    PROVE  ResetMoved /\ ResetTypes'
<1>1. UNCHANGED resetVars => ResetTypes'
  BY DEF resetVars, ResetTypes
<1>2. QED
  BY <1>1, ExecuteStep, LoadStep, WriteStep, CloseStep, ClearStep DEF ResetNext, ResetMoved

-----------------------------------------------------------------------------
(* The parts of the invariant, kept by every step.                            *)
LEMMA AgreeStep ==
    ASSUME ResetTypes, RefsAgree, ResetMoved
    PROVE  RefsAgree'
<1> SUFFICES ASSUME NEW g \in Folds PROVE Agree(refs'[g], fold'[g])
  BY DEF RefsAgree, Agree
<1>1. Agree(refs[g], fold[g])
  BY DEF RefsAgree
<1>2. ASSUME NEW f \in Folds, NEW s \in PlanStages, Executed(f, s)
      PROVE  Agree(refs'[g], fold'[g])
  BY <1>1, <1>2 DEF Executed, Agree
<1>3. ASSUME NEW o \in Operators, Written(o)
      PROVE  Agree(refs'[g], fold'[g])
  <2>1. CASE g = operator[o].fold
    BY <1>3, <2>1 DEF Written
  <2>2. CASE g # operator[o].fold
    BY <1>1, <1>3, <2>2 DEF Written
  <2>3. QED
    BY <2>1, <2>2
<1>4. ASSUME \/ \E o \in Operators : Opened(o) \/ Closed(o)
             \/ \E r \in requests : Cleared(r)
             \/ UNCHANGED resetVars
      PROVE  UNCHANGED <<fold, refs>>
  BY <1>4 DEF Opened, Closed, Cleared, resetVars
<1>5. QED
  BY <1>1, <1>2, <1>3, <1>4 DEF ResetMoved

\* An operator at a reset was there before, or has just loaded.
LEMMA StillResetting ==
    ASSUME ResetTypes, ResetMoved, NEW p \in Operators, Resetting(p)'
    PROVE  Opened(p) \/ Written(p) \/ (operator'[p] = operator[p] /\ Resetting(p))
<1>1. ASSUME NEW o \in Operators, Opened(o) \/ Written(o) \/ Closed(o), o # p
      PROVE  operator'[p] = operator[p]
  BY <1>1 DEF Opened, Written, Closed, OtherOperators
<1>2. ~Closed(p)
  BY DEF Closed
<1>3. ASSUME \/ \E f \in Folds, s \in PlanStages : Executed(f, s)
             \/ \E r \in requests : Cleared(r)
             \/ UNCHANGED resetVars
      PROVE  operator'[p] = operator[p]
  BY <1>3 DEF Executed, Cleared, resetVars
<1>4. operator'[p] = operator[p] => Resetting(p)
  BY DEF Resetting, OperatorAt
<1>5. QED
  BY <1>1, <1>2, <1>3, <1>4 DEF ResetMoved

\* The copies in hand agree with each other.
LEMMA CopiesStep ==
    ASSUME ResetTypes, CopiesAgree, ResetMoved
    PROVE  CopiesAgree'
<1> SUFFICES ASSUME NEW p \in Operators, Resetting(p)'
             PROVE  /\ Agree(operator'[p].refs, operator'[p].ck)
                    /\ operator'[p].request.number = operator'[p].number
                    /\ operator'[p].request.fold = operator'[p].fold
                    /\ operator'[p].request.stages = Selects(operator'[p].ck, operator'[p].cut)
                    /\ operator'[p].request.explicit \subseteq operator'[p].request.stages
  BY DEF CopiesAgree, Agree, Selects, Affected
<1>1. CASE Opened(p)
  BY <1>1 DEF Opened
<1>2. CASE Written(p)
  <2>1. Resetting(p)
    BY <1>2 DEF Written, Resetting
  <2>2. QED
    BY <1>2, <2>1 DEF Written, CopiesAgree
<1>3. CASE operator'[p] = operator[p] /\ Resetting(p)
  BY <1>3 DEF CopiesAgree
<1>4. QED
  BY <1>1, <1>2, <1>3, StillResetting

\* A reset that begins gets a number of its own.
LEMMA NumbersStep ==
    ASSUME ResetTypes, CopiesAgree, OwnNumbers, ResetMoved
    PROVE  OwnNumbers'
<1> DEFINE Of(p) == operator[p].number
<1>1. made' >= made /\ made \in Nat /\ made' \in Nat
  <2>1. made \in Nat
    BY ResetAssumption DEF ResetTypes
  <2>2. ASSUME NEW o \in Operators, Opened(o) PROVE made' = made + 1
    BY <2>2 DEF Opened
  <2>3. ASSUME NEW o \in Operators, Written(o) \/ Closed(o) PROVE made' = made
    BY <2>3 DEF Written, Closed
  <2>4. ASSUME \/ \E f \in Folds, s \in PlanStages : Executed(f, s)
               \/ \E r \in requests : Cleared(r)
               \/ UNCHANGED resetVars
        PROVE  made' = made
    BY <2>4 DEF Executed, Cleared, resetVars
  <2>5. made' = made + 1 \/ made' = made
    BY <2>2, <2>3, <2>4 DEF ResetMoved
  <2>6. QED
    BY <2>1, <2>5
<1>2. ASSUME NEW p \in Operators, Resetting(p)'
      PROVE  \/ Opened(p) /\ operator'[p].number = made + 1 /\ made' = made + 1
             \/ Resetting(p) /\ operator'[p].number = operator[p].number
  <2>1. Opened(p) => operator'[p].number = made + 1 /\ made' = made + 1
    BY DEF Opened
  <2>2. Written(p) => Resetting(p) /\ operator'[p].number = operator[p].number
    BY DEF Written, Resetting
  <2>3. QED
    BY <1>2, <2>1, <2>2, StillResetting
<1>3. \A p \in Operators : Resetting(p) => Of(p) <= made /\ Of(p) \in Nat
  BY Held DEF OwnNumbers, Resets, Numbers
<1>4. \A p \in Operators : Resetting(p)' => operator'[p].number <= made'
  BY <1>1, <1>2, <1>3
<1>5. ASSUME NEW p, NEW q, p \in Operators, q \in Operators, p # q, Resetting(p)', Resetting(q)'
      PROVE  operator'[p].number # operator'[q].number
  <2>1. ~(Opened(p) /\ Opened(q))
    BY <1>5 DEF Opened, OtherOperators, Resetting, OperatorAt
  <2>2. CASE Resetting(p) /\ operator'[p].number = operator[p].number
             /\ Resetting(q) /\ operator'[q].number = operator[q].number
    BY <1>5, <2>2 DEF OwnNumbers
  <2>3. CASE /\ operator'[p].number = made + 1
             /\ Resetting(q) /\ operator'[q].number = operator[q].number
    BY <1>1, <1>3, <1>5, <2>3
  <2>4. CASE /\ operator'[q].number = made + 1
             /\ Resetting(p) /\ operator'[p].number = operator[p].number
    BY <1>1, <1>3, <1>5, <2>4
  <2>5. QED
    BY <1>2, <1>5, <2>1, <2>2, <2>3, <2>4
<1>6. ASSUME NEW r \in requests'
      PROVE  \/ r \in requests
             \/ \E o \in Operators : /\ Closed(o) /\ Resetting(o) /\ r = operator[o].request
                                     /\ requests' = requests \cup {operator[o].request}
  BY <1>6 DEF ResetMoved, Opened, Written, Closed, Executed, Cleared, resetVars
<1>7. \A r \in requests : r.number <= made /\ r.explicit \subseteq r.stages /\ r.number \in Nat
  BY DEF OwnNumbers, ResetTypes, Asked, Numbers
<1>8. \A o \in Operators : Resetting(o) =>
          /\ operator[o].request.number = Of(o)
          /\ operator[o].request.explicit \subseteq operator[o].request.stages
  BY DEF CopiesAgree
<1>9. ASSUME NEW r \in requests'
      PROVE  r.number <= made' /\ r.explicit \subseteq r.stages
  BY <1>1, <1>3, <1>6, <1>7, <1>8, <1>9
<1>10. ASSUME NEW p \in Operators, NEW r \in requests', Resetting(p)'
       PROVE  operator'[p].number # r.number
  <2>1. CASE r \in requests
    BY <1>1, <1>2, <1>7, <1>10, <2>1 DEF OwnNumbers
  <2>2. ASSUME NEW o \in Operators, Closed(o), Resetting(o), r = operator[o].request
        PROVE  operator'[p].number # r.number
    <3>1. o # p
      BY <1>10, <2>2 DEF Closed
    <3>2. operator'[p] = operator[p] /\ Resetting(p)
      BY <1>10, <2>2, <3>1 DEF Closed, OtherOperators, Resetting, OperatorAt
    <3>3. Of(p) # Of(o)
      BY <2>2, <3>1, <3>2 DEF OwnNumbers
    <3>4. QED
      BY <1>8, <2>2, <3>2, <3>3
  <2>3. QED
    BY <1>6, <1>10, <2>1, <2>2
<1>11. QED
  BY <1>4, <1>5, <1>9, <1>10 DEF OwnNumbers

\* What is referred to now was before, was executed by this step or put back by it.
LEMMA ExplainedStep ==
    ASSUME ResetTypes, ResetMoved, NEW r \in Asked, Explained(r),
           \A o \in Operators : Written(o) => operator[o].number # r.number
    PROVE  Explained(r)'
<1> SUFFICES ASSUME NEW s \in r.stages, s \in refs'[r.fold]
             PROVE  <<r.fold, s>> \in rerun'[r.number] \cup revived'
  BY DEF Explained
<1>1. PICK g \in Folds, n \in Numbers : g = r.fold /\ n = r.number
  BY DEF Asked
<1>2. s \in refs[g] => <<g, s>> \in rerun[n] \cup revived
  BY <1>1 DEF Explained
<1>3. ASSUME NEW f \in Folds, NEW t \in PlanStages, Executed(f, t)
      PROVE  <<g, s>> \in rerun'[n] \cup revived'
  <2>1. CASE <<g, s>> = <<f, t>>
    BY <1>3, <2>1 DEF Executed
  <2>2. CASE <<g, s>> # <<f, t>>
    <3>1. s \in refs[g]
      BY <1>1, <1>3, <2>2 DEF Executed
    <3>2. QED
      BY <1>2, <1>3, <2>2, <3>1 DEF Executed
  <2>3. QED
    BY <2>1, <2>2
<1>4. ASSUME NEW o \in Operators, Written(o)
      PROVE  <<g, s>> \in rerun'[n] \cup revived'
  <2>1. rerun'[n] = rerun[n] /\ revived \subseteq revived'
    BY <1>1, <1>4 DEF Written
  <2>2. CASE s \in refs[g]
    BY <1>2, <2>1, <2>2
  <2>3. CASE s \notin refs[g]
    BY <1>1, <1>4, <2>3 DEF Written
  <2>4. QED
    BY <2>2, <2>3
<1>5. ASSUME \/ \E o \in Operators : Opened(o) \/ Closed(o)
             \/ \E q \in requests : Cleared(q)
             \/ UNCHANGED resetVars
      PROVE  UNCHANGED <<refs, rerun, revived>>
  BY <1>5 DEF Opened, Closed, Cleared, resetVars
<1>6. QED
  BY <1>1, <1>2, <1>3, <1>4, <1>5 DEF ResetMoved

\* What a request will clear stays explained.
LEMMA KnownStep ==
    ASSUME ResetTypes, CopiesAgree, OwnNumbers, RerunsAreKnown, ResetMoved
    PROVE  RerunsAreKnown'
<1>1. ASSUME NEW r \in requests PROVE r \in Asked /\ Explained(r)'
  <2>1. r \in Asked /\ Explained(r)
    BY DEF ResetTypes, RerunsAreKnown
  <2>2. \A o \in Operators : Written(o) => operator[o].number # r.number
    BY DEF OwnNumbers, Written, Resetting
  <2>3. QED
    BY <2>1, <2>2, ExplainedStep
<1>2. ASSUME NEW p \in Operators, OperatorAt(p, "written"), NEW r \in Asked, r = operator[p].request
      PROVE  Explained(r)'
  <2>1. Explained(r)
    BY <1>2 DEF RerunsAreKnown
  <2>2. r.number = operator[p].number
    BY <1>2 DEF CopiesAgree, Resetting
  <2>3. ASSUME NEW o \in Operators, Written(o) PROVE operator[o].number # r.number
    <3>1. OperatorAt(o, "loaded")
      BY <2>3 DEF Written
    <3>2. o # p /\ Resetting(o) /\ Resetting(p)
      BY <1>2, <3>1 DEF OperatorAt, Resetting
    <3>3. QED
      BY <2>2, <3>2 DEF OwnNumbers
  <2>4. QED
    BY <2>1, <2>3, ExplainedStep
<1>3. ASSUME NEW r, r \in requests' PROVE Explained(r)'
  <2>1. CASE r \in requests
    BY <1>1, <2>1
  <2>2. ASSUME NEW o \in Operators, OperatorAt(o, "written"), r = operator[o].request
        PROVE  Explained(r)'
    <3>1. operator[o] \in Resets
      BY <2>2, Held DEF Resetting
    <3>2. r \in Asked
      BY <2>2, <3>1 DEF Resets
    <3>3. QED
      BY <1>2, <2>2, <3>2
  <2>3. \/ r \in requests
        \/ \E o \in Operators : OperatorAt(o, "written") /\ r = operator[o].request
    BY <1>3 DEF ResetMoved, Opened, Written, Closed, Executed, Cleared, resetVars
  <2>4. QED
    BY <2>1, <2>2, <2>3
<1>4. ASSUME NEW p \in Operators, OperatorAt(p, "written")', NEW r, r = operator'[p].request
      PROVE  Explained(r)'
  <2>1. CASE Written(p)
    <3>1. r = operator[p].request /\ r.fold = operator[p].fold
      BY <1>4, <2>1 DEF Written, CopiesAgree, Resetting
    <3>2. refs'[r.fold] = operator[p].refs \ r.stages
      BY <2>1, <3>1 DEF Written
    <3>3. QED
      BY <3>2 DEF Explained
  <2>2. CASE operator'[p] = operator[p]
    <3>1. OperatorAt(p, "written") /\ r = operator[p].request
      BY <1>4, <2>2 DEF OperatorAt
    <3>2. operator[p] \in Resets
      BY <3>1, Held DEF Resetting
    <3>3. r \in Asked
      BY <3>1, <3>2 DEF Resets
    <3>4. QED
      BY <1>2, <3>1, <3>3
  <2>3. ~Opened(p)
    BY <1>4 DEF Opened, OperatorAt
  <2>4. Resetting(p)'
    BY <1>4 DEF Resetting
  <2>5. QED
    BY <2>1, <2>2, <2>3, <2>4, StillResetting
<1>5. \A r \in requests' : Explained(r)'
  BY <1>3
<1>6. \A p \in Operators : OperatorAt(p, "written")' => \A r : r = operator'[p].request => Explained(r)'
  BY <1>4
<1>7. QED
  BY <1>5, <1>6 DEF RerunsAreKnown, Explained

\* Who is to clear the artifact of a stage.
Listed(f, s) ==
    \/ <<f, s>> \in torn
    \/ \E r \in requests : r.fold = f /\ s \in r.stages
    \/ \E o \in Operators :
          OperatorAt(o, "written") /\ operator[o].fold = f /\ s \in operator[o].request.stages

\* An artifact without a reference is listed by a reset.
LEMMA OrphanStep ==
    ASSUME ResetTypes, CopiesAgree, OrphansAreListed, ResetMoved
    PROVE  OrphansAreListed'
<1> SUFFICES ASSUME NEW g \in Folds, NEW s \in PlanStages, <<g, s>> \in artifacts', s \notin refs'[g]
             PROVE  Listed(g, s)'
  BY DEF OrphansAreListed, Listed, OperatorAt
<1>1. <<g, s>> \in artifacts /\ s \notin refs[g] => Listed(g, s)
  BY DEF OrphansAreListed, Listed, OperatorAt
<1>2. ASSUME NEW f \in Folds, NEW t \in PlanStages, Executed(f, t) PROVE Listed(g, s)'
  <2>1. <<g, s>> # <<f, t>>
    BY <1>2 DEF Executed
  <2>2. <<g, s>> \in artifacts /\ s \notin refs[g]
    BY <1>2, <2>1 DEF Executed
  <2>3. QED
    BY <1>1, <1>2, <2>1, <2>2 DEF Executed, Listed, OperatorAt
<1>3. ASSUME NEW o \in Operators, Opened(o) PROVE Listed(g, s)'
  <2>1. Listed(g, s)
    BY <1>1, <1>3 DEF Opened
  <2>2. \A p \in Operators : OperatorAt(p, "written") => operator'[p] = operator[p]
    BY <1>3 DEF Opened, OtherOperators, Resetting
  <2>3. QED
    BY <1>3, <2>1, <2>2 DEF Opened, Listed, OperatorAt
<1>4. ASSUME NEW o \in Operators, Written(o) PROVE Listed(g, s)'
  <2>1. CASE Listed(g, s)
    <3>1. \A p \in Operators : OperatorAt(p, "written") => operator'[p] = operator[p]
      BY <1>4 DEF Written, OtherOperators, OperatorAt
    <3>2. QED
      BY <1>4, <2>1, <3>1 DEF Written, Listed, OperatorAt
  <2>2. CASE s \in refs[g]
    <3>1. g = operator[o].fold /\ (s \notin operator[o].refs \/ s \in operator[o].request.stages)
      BY <1>4, <2>2 DEF Written
    <3>2. CASE s \notin operator[o].refs
      BY <1>4, <2>2, <3>1, <3>2 DEF Written, Listed
    <3>3. CASE s \in operator[o].request.stages
      BY <1>4, <3>1, <3>3 DEF Written, Listed, OperatorAt
    <3>4. QED
      BY <3>1, <3>2, <3>3
  <2>3. <<g, s>> \in artifacts
    BY <1>4 DEF Written
  <2>4. QED
    BY <1>1, <2>1, <2>2, <2>3
<1>5. ASSUME NEW o \in Operators, Closed(o) PROVE Listed(g, s)'
  <2>1. Listed(g, s)
    BY <1>1, <1>5 DEF Closed
  <2>2. \A p \in Operators : p # o => operator'[p] = operator[p]
    BY <1>5 DEF Closed, OtherOperators
  <2>3. CASE OperatorAt(o, "written") /\ operator[o].fold = g /\ s \in operator[o].request.stages
    <3>1. operator[o].request.fold = g
      BY <2>3 DEF CopiesAgree, Resetting
    <3>2. operator[o].request \in requests' \/ <<g, s>> \in torn'
      BY <1>5, <2>3 DEF Closed
    <3>3. QED
      BY <2>3, <3>1, <3>2 DEF Listed
  <2>4. CASE <<g, s>> \in torn \/ \E r \in requests : r.fold = g /\ s \in r.stages
    BY <1>5, <2>4 DEF Closed, Listed
  <2>5. ASSUME NEW p \in Operators, p # o, OperatorAt(p, "written"), operator[p].fold = g,
               s \in operator[p].request.stages
        PROVE  Listed(g, s)'
    BY <2>2, <2>5 DEF Listed, OperatorAt
  <2>6. QED
    BY <2>1, <2>3, <2>4, <2>5 DEF Listed
<1>6. ASSUME NEW q \in requests, Cleared(q) PROVE Listed(g, s)'
  <2>1. ~(q.fold = g /\ s \in q.stages)
    BY <1>6 DEF Cleared
  <2>2. <<g, s>> \in artifacts /\ s \notin refs[g]
    BY <1>6 DEF Cleared
  <2>3. <<g, s>> \in torn => <<g, s>> \in torn'
    BY <1>6 DEF Cleared
  <2>4. QED
    BY <1>1, <1>6, <2>1, <2>2, <2>3 DEF Cleared, Listed, OperatorAt
<1>7. CASE UNCHANGED resetVars
  BY <1>1, <1>7 DEF resetVars, Listed, OperatorAt
<1>8. QED
  BY <1>2, <1>3, <1>4, <1>5, <1>6, <1>7 DEF ResetMoved

\* A stage that is done has its artifact.
LEMMA DoneStep ==
    ASSUME ResetTypes, RefsAgree, RefsAgree', OwnNumbers, RerunsAreKnown, DoneHasItsArtifact,
           ResetMoved
    PROVE  DoneHasItsArtifact'
<1> SUFFICES ASSUME NEW g \in Folds, NEW s \in PlanStages, s \in refs'[g]
             PROVE  <<g, s>> \in artifacts' \cup late' \cup revived'
  BY DEF DoneHasItsArtifact, RefsAgree, Agree
<1>1. s \in refs[g] => <<g, s>> \in artifacts \cup late \cup revived
  BY DEF DoneHasItsArtifact, RefsAgree, Agree
<1>2. ASSUME NEW f \in Folds, NEW t \in PlanStages, Executed(f, t)
      PROVE  <<g, s>> \in artifacts' \cup late' \cup revived'
  <2>1. CASE <<g, s>> = <<f, t>>
    BY <1>2, <2>1 DEF Executed
  <2>2. CASE <<g, s>> # <<f, t>>
    <3>1. s \in refs[g]
      BY <1>2, <2>2 DEF Executed
    <3>2. QED
      BY <1>1, <1>2, <2>2, <3>1 DEF Executed
  <2>3. QED
    BY <2>1, <2>2
<1>3. ASSUME NEW o \in Operators, Written(o)
      PROVE  <<g, s>> \in artifacts' \cup late' \cup revived'
  <2>1. CASE s \in refs[g]
    BY <1>1, <1>3, <2>1 DEF Written
  <2>2. CASE s \notin refs[g]
    BY <1>3, <2>2 DEF Written
  <2>3. QED
    BY <2>1, <2>2
<1>4. ASSUME NEW q \in requests, Cleared(q)
      PROVE  <<g, s>> \in artifacts' \cup late' \cup revived'
  <2>1. s \in refs[g] /\ q.explicit \subseteq q.stages
    BY <1>4 DEF Cleared, OwnNumbers
  <2>2. CASE q.fold = g /\ s \in q.stages
    <3>1. <<g, s>> \in rerun[q.number] \cup revived
      BY <2>1, <2>2 DEF RerunsAreKnown, Explained
    <3>2. QED
      BY <1>4, <2>2, <3>1 DEF Cleared
  <2>3. CASE ~(q.fold = g /\ s \in q.stages)
    BY <1>1, <1>4, <2>1, <2>3 DEF Cleared
  <2>4. QED
    BY <2>2, <2>3
<1>5. ASSUME \/ \E o \in Operators : Opened(o) \/ Closed(o)
             \/ UNCHANGED resetVars
      PROVE  UNCHANGED <<refs, artifacts, late, revived>>
  BY <1>5 DEF Opened, Closed, resetVars
<1>6. QED
  BY <1>1, <1>2, <1>3, <1>4, <1>5 DEF ResetMoved

-----------------------------------------------------------------------------
(* The theorems about RerunReset.                                             *)
LEMMA InitialStatus ==
    /\ Initial(FoldPlan) \in Checkpoints(FoldPlan)
    /\ \A s \in PlanStages : Initial(FoldPlan).status[s] # "succeeded"
<1> DEFINE cp == [status |-> [s \in StagesOf(FoldPlan) |-> "pending"],
                  hold   |-> [s \in StagesOf(FoldPlan) |-> FALSE]]
<1>1. cp \in Checkpoints(FoldPlan) /\ \A s \in PlanStages : cp.status[s] # "succeeded"
  BY DEF Checkpoints, Status, PlanStages
<1>2. Initial(FoldPlan) = Refresh(FoldPlan, cp)
  BY DEF Initial
<1> HIDE DEF cp
<1>3. QED
  BY <1>1, <1>2, RefreshKeeps

\* The invariant of the reset holds at the start,
LEMMA ResetInitInvariant == ResetInit => ResetInv
<1> SUFFICES ASSUME ResetInit PROVE ResetInv
  OBVIOUS
<1>1. /\ \A f \in Folds : fold[f] = Initial(FoldPlan) /\ refs[f] = {}
      /\ fold \in [Folds -> Checkpoints(FoldPlan)] /\ refs \in [Folds -> SUBSET PlanStages]
  BY InitialStatus DEF ResetInit
<1>2. ResetTypes
  BY <1>1, ResetAssumption DEF ResetInit, ResetTypes, Numbers
<1>3. \A o \in Operators : ~Resetting(o) /\ ~OperatorAt(o, "written")
  BY DEF ResetInit, Resetting, OperatorAt, NoReset
<1>4. artifacts = {} /\ requests = {}
  BY DEF ResetInit
<1>5. RefsAgree /\ DoneHasItsArtifact
  BY <1>1, InitialStatus DEF RefsAgree, Agree, DoneHasItsArtifact
<1>6. CopiesAgree /\ OwnNumbers /\ RerunsAreKnown /\ OrphansAreListed
  BY <1>3, <1>4 DEF CopiesAgree, OwnNumbers, RerunsAreKnown, OrphansAreListed
<1>7. QED
  BY <1>2, <1>5, <1>6 DEF ResetInv

\* and is inductive.
LEMMA ResetStepInvariant == ResetInv /\ [ResetNext]_resetVars => ResetInv'
<1> SUFFICES ASSUME ResetInv, [ResetNext]_resetVars PROVE ResetInv'
  OBVIOUS
<1>1. /\ ResetTypes /\ RefsAgree /\ CopiesAgree /\ OwnNumbers /\ RerunsAreKnown
      /\ OrphansAreListed /\ DoneHasItsArtifact
  BY DEF ResetInv
<1>2. ResetMoved /\ ResetTypes'
  BY <1>1, ResetTypeStep
<1>3. RefsAgree' /\ CopiesAgree' /\ OwnNumbers' /\ RerunsAreKnown'
  BY <1>1, <1>2, AgreeStep, CopiesStep, NumbersStep, KnownStep
<1>4. OrphansAreListed' /\ DoneHasItsArtifact'
  BY <1>1, <1>2, <1>3, OrphanStep, DoneStep
<1>5. QED
  BY <1>2, <1>3, <1>4 DEF ResetInv

\* The inductive invariant of the resets, in every reachable state.
THEOREM ResetInvariant == ResetSpec => []ResetInv
BY ResetInitInvariant, ResetStepInvariant, PTL DEF ResetSpec

\* An artifact no stage refers to is in a request or torn off by an interrupted reset, and
\* a stage that is done has its artifact unless it was cleared too late or revived.
THEOREM ArtifactsAccounted == ResetSpec => []ArtifactsAreAccountedFor
<1>1. ResetInv => ArtifactsAreAccountedFor
  BY DEF ResetInv, ArtifactsAreAccountedFor
<1>2. QED
  BY <1>1, ResetInvariant, PTL

-----------------------------------------------------------------------------
(* RequestHandoff: the state and the invariant.                               *)
RowMaps == UNION {[S -> DOMAIN Batches] : S \in SUBSET Requests}
Job == [pc : {"persist", "files", "bind", "bindings", "check"}, cmd : Commands, rows : RowMaps,
        held : [Requests -> Contents], todo : SUBSET Nat]
KindOf(p) == proc[p].cmd.kind

HandoffTypes == HandoffTypeOK /\ proc \in [Processes -> {Vacant} \cup Job]

\* A command does what its kind does, for requests of its batch.
JobsFit ==
    \A p \in Processes : Busy(p) =>
        /\ proc[p].todo \subseteq Places(proc[p].cmd, proc[p].rows)
        /\ RequestsOf(p) \subseteq Range(Batches[proc[p].cmd.batch])
        /\ KindOf(p) \in {"prepare", "promote"} => proc[p].rows = Planned(proc[p].cmd)
        /\ proc[p].pc = "persist" => KindOf(p) \in {"prepare", "promote"}
        /\ proc[p].pc = "files" => KindOf(p) \in {"prepare", "materialize"} /\ proc[p].cmd.write
        /\ proc[p].pc = "bind" => KindOf(p) \in {"prepare", "materialize"} /\ proc[p].cmd.persist
        /\ proc[p].pc = "bindings" => KindOf(p) = "validate"
        /\ proc[p].pc = "check" => \/ KindOf(p) = "validate"
                                   \/ KindOf(p) = "prepare" /\ proc[p].cmd.write
        /\ OneSided(proc[p].cmd) => RequestsOf(p) \subseteq broken

\* What the history says of commands that are busy with one request.
MeetingsAreKnown ==
    \A p, q \in Processes, r \in Requests :
        p # q /\ Touches(p, r) /\ Touches(q, r) =>
            /\ r \in crossed
            /\ KindOf(p) = "materialize" => r \in broken

\* FileIsBound is not inductive: a file that differs from its binding is about to be
\* bound, or to be checked by the command that bound it last.
Pends(p, r) ==
    \/ proc[p].pc \in {"files", "bind"}
    \/ /\ proc[p].pc = "check" /\ KindOf(p) = "prepare" /\ proc[p].rows[r] = binding[r]
       /\ \E i \in proc[p].todo : Batches[proc[p].cmd.batch][i] = r
MismatchPends ==
    \A r \in Requests \ broken :
        file[r] = binding[r] \/ \E p \in Processes : Touches(p, r) /\ Pends(p, r)

\* A materialization that nobody disturbs has written the file it is to bind.
IsWritten(p, r) ==
    \/ proc[p].pc \in {"bind", "check"}
    \/ proc[p].pc = "files" /\ \A i \in proc[p].todo : Batches[proc[p].cmd.batch][i] # r
MaterializedFirst ==
    \A p \in Processes, r \in Requests \ broken :
        Touches(p, r) /\ KindOf(p) = "materialize" /\ IsWritten(p, r) => file[r] = proc[p].rows[r]

\* RowIsOfTheFile is not inductive: while a command is busy with a request, the row is
\* what the command holds, and so is the file once it is written.
Holds(p, r) == Touches(p, r) /\ proc[p].pc # "persist" /\ KindOf(p) # "validate"
RowIsInStep ==
    \A r \in Requests \ (broken \cup crossed) :
        /\ \A p \in Processes : Holds(p, r) =>
              /\ row[r] = proc[p].rows[r]
              /\ IsWritten(p, r) => file[r] = row[r]
        /\ (\A p \in Processes : ~Holds(p, r)) => binding[r] = Nothing \/ row[r] = file[r]

\* What a promotion plans has one content.
PromotionsAreApart ==
    \A c \in Commands : c.kind = "promote" => \A r \in Range(Batches[c.batch]) :
        /\ {row[r], file[r], binding[r]} \subseteq {c.batch, Nothing}
        /\ \A p \in Processes : Touches(p, r) => proc[p].rows[r] = c.batch

HandoffInv ==
    /\ HandoffTypes /\ JobsFit /\ MeetingsAreKnown /\ MismatchPends /\ MaterializedFirst
    /\ RowIsInStep /\ PromotionsAreApart
-----------------------------------------------------------------------------
(* RequestHandoff: lemmas.                                                    *)

\* Rows are of requests, and from batches.
LEMMA RowMapType ==
    ASSUME NEW m \in RowMaps
    PROVE  /\ DOMAIN m \subseteq Requests
           /\ \A r \in DOMAIN m : m[r] \in DOMAIN Batches
  BY DEF RowMaps

\* What gives every request of a set a batch.
LEMMA RowMapMade ==
    ASSUME NEW S \in SUBSET Requests, NEW m, m \in [S -> DOMAIN Batches]
    PROVE  m \in RowMaps
  BY DEF RowMaps

\* A set of numbers has a least one, and the least of a set of places is one of them.
LEMMA LeastNumber ==
    ASSUME NEW S \in SUBSET Nat, S # {}
    PROVE  \E m \in S : \A x \in S : m <= x
<1> DEFINE R == {ss \in Nat \X Nat : ss[1] < ss[2]}
<1>1. IsWellFoundedOn(R, Nat)
  BY NatLessThanWellFounded DEF OpToRel
<1> HIDE DEF R
<1>2. PICK m \in S : \A x \in S : ~(<<x, m>> \in R)
  BY <1>1, WFMin
<1>3. \A x, y \in Nat : x < y => <<x, y>> \in R
  BY DEF R
<1>4. ASSUME NEW x \in S PROVE m <= x
  <2>1. x \in Nat /\ m \in Nat
    OBVIOUS
  <2>2. CASE x < m
    <3>1. <<x, m>> \in R
      BY <1>3, <2>1, <2>2
    <3>2. QED
      BY <1>2, <3>1
  <2>3. QED
    BY <2>1, <2>2
<1>5. QED
  BY <1>4

\* The least place of a set is in it.
LEMMA LeastPlace ==
    ASSUME NEW S \in SUBSET Nat, S # {}
    PROVE  Min(S) \in S
  BY LeastNumber DEF Min

\* Batches are lists of requests, of which a command has the places.
LEMMA PlacesType ==
    ASSUME NEW c \in Commands, NEW m
    PROVE  /\ Places(c, m) \subseteq Nat
           /\ \A i \in Places(c, m) : Batches[c.batch][i] \in DOMAIN m
           /\ c.batch \in DOMAIN Batches /\ c.batch \in Contents /\ c.batch # Nothing
           /\ Range(Batches[c.batch]) \subseteq Requests
           /\ \A r \in DOMAIN m \cap Range(Batches[c.batch]) :
                 \E i \in Places(c, m) : Batches[c.batch][i] = r
<1>1. c.batch \in DOMAIN Batches /\ Batches[c.batch] \in Seq(Requests)
  BY HandoffAssumption
<1>2. DOMAIN Batches[c.batch] \subseteq Nat
  BY <1>1
<1>3. QED
  BY <1>1, <1>2, HandoffAssumption DEF Places, Range, Contents, Nothing

\* What a command plans is its own batch.
LEMMA PlannedType ==
    ASSUME NEW c \in Commands
    PROVE  /\ Planned(c) \in RowMaps /\ DOMAIN Planned(c) = Range(Batches[c.batch])
           /\ \A r \in Range(Batches[c.batch]) : Planned(c)[r] = c.batch
<1>1. Planned(c) \in [Range(Batches[c.batch]) -> DOMAIN Batches]
  BY PlacesType DEF Planned
<1>2. QED
  BY <1>1, PlacesType, RowMapMade DEF Planned

\* What it fetches is what the rows say.
LEMMA FetchedType ==
    ASSUME HandoffTypes, NEW c \in Commands
    PROVE  /\ Fetched(c) \in RowMaps /\ DOMAIN Fetched(c) \subseteq Range(Batches[c.batch])
           /\ \A r \in DOMAIN Fetched(c) : Fetched(c)[r] = row[r] /\ row[r] # Nothing
<1> DEFINE S == {q \in Range(Batches[c.batch]) : row[q] # Nothing}
<1>1. Fetched(c) = [r \in S |-> row[r]]
  BY PlannedType DEF Fetched
<1>2. S \subseteq Requests
  BY PlacesType
<1>3. \A r \in S : row[r] \in DOMAIN Batches
  BY <1>2 DEF HandoffTypes, HandoffTypeOK, Contents
<1>4. [r \in S |-> row[r]] \in [S -> DOMAIN Batches]
  BY <1>3
<1>5. QED
  BY <1>1, <1>2, <1>4, RowMapMade

\* A process at work has a job.
LEMMA JobType ==
    ASSUME HandoffTypes, NEW p \in Processes, Busy(p)
    PROVE  /\ proc[p] \in Job
           /\ RequestsOf(p) \subseteq Requests
           /\ \A r \in RequestsOf(p) : proc[p].rows[r] \in DOMAIN Batches
                                       /\ proc[p].rows[r] \in Contents
<1>1. proc[p] \in Job
  BY DEF HandoffTypes, Busy, Vacant
<1>2. proc[p].rows \in RowMaps
  BY <1>1 DEF Job
<1>3. QED
  BY <1>1, <1>2, RowMapType DEF RequestsOf, Contents

\* A job that moves on is a job,
LEMMA MovedType ==
    ASSUME HandoffTypes, NEW p \in Processes, Busy(p),
           NEW pc \in {"persist", "files", "bind", "bindings", "check"}
    PROVE  /\ Moved(p, pc) \in Job
           /\ Moved(p, pc).pc = pc /\ Moved(p, pc).cmd = proc[p].cmd
           /\ Moved(p, pc).rows = proc[p].rows
           /\ Moved(p, pc).todo = Places(proc[p].cmd, proc[p].rows)
<1>1. proc[p] \in Job
  BY JobType
<1>2. proc[p].cmd \in Commands
  BY <1>1 DEF Job
<1>3. Places(proc[p].cmd, proc[p].rows) \in SUBSET Nat
  BY <1>2, PlacesType
<1>4. Moved(p, pc) = [proc[p] EXCEPT !.pc = pc, !.todo = Places(proc[p].cmd, proc[p].rows)]
  BY DEF Moved
<1>5. QED
  BY <1>1, <1>3, <1>4 DEF Job

\* The place that is next is one of those to do, and its request one of the rows.
LEMMA AtType ==
    ASSUME HandoffTypes, JobsFit, NEW p \in Processes, Busy(p), proc[p].todo # {}
    PROVE  /\ Min(proc[p].todo) \in proc[p].todo
           /\ At(p) = Batches[proc[p].cmd.batch][Min(proc[p].todo)]
           /\ At(p) \in RequestsOf(p)
<1>1. proc[p] \in Job
  BY JobType
<1>2. proc[p].todo \in SUBSET Nat /\ proc[p].cmd \in Commands
  BY <1>1 DEF Job
<1>3. Min(proc[p].todo) \in proc[p].todo
  BY <1>2, LeastPlace
<1>4. Min(proc[p].todo) \in Places(proc[p].cmd, proc[p].rows)
  BY <1>3 DEF JobsFit
<1>5. QED
  BY <1>2, <1>3, <1>4, PlacesType DEF At, RequestsOf

-----------------------------------------------------------------------------
(* What a step does to the command of its process.                            *)
OnlyMoves(p, job) ==
    /\ proc' = [proc EXCEPT ![p] = job]
    /\ proc'[p] = job /\ \A q \in Processes : q # p => proc'[q] = proc[q]
    /\ job \in {Vacant} \cup Job
Keeps(p, job) == job.pc # "idle" => job.cmd = proc[p].cmd /\ job.rows = proc[p].rows

\* A command that goes on has its requests still; the steps that are left are those
\* below, and each leaves alone what it does not name.
LEMMA MoveEffect ==
    ASSUME HandoffTypes, NEW p \in Processes, Busy(p),
           NEW pc \in {"persist", "files", "bind", "bindings", "check", "end"},
           proc' = MoveTo(p, pc)
    PROVE  OnlyMoves(p, Moved(p, pc)) /\ Keeps(p, Moved(p, pc))
<1>1. CASE pc = "end"
  <2>1. Moved(p, pc) = Vacant
    BY <1>1 DEF Moved
  <2>2. Vacant.pc = "idle"
    BY DEF Vacant
  <2>3. QED
    BY <2>1, <2>2 DEF MoveTo, OnlyMoves, Keeps, HandoffTypes
<1>2. CASE pc # "end"
  BY <1>2, MovedType DEF MoveTo, OnlyMoves, Keeps, HandoffTypes
<1>3. QED
  BY <1>1, <1>2

\* and a process that ends has none.
LEMMA VacateEffect ==
    ASSUME HandoffTypes, NEW p \in Processes, proc' = [proc EXCEPT ![p] = Vacant]
    PROVE  OnlyMoves(p, Vacant) /\ Keeps(p, Vacant) /\ Vacant.pc = "idle"
  BY DEF OnlyMoves, Keeps, HandoffTypes, Vacant

\* One place less is to do.
LessToDo(p) == [proc[p] EXCEPT !.todo = proc[p].todo \ {Min(proc[p].todo)}]
\* A place less to do leaves the job at its step.
LEMMA LessEffect ==
    ASSUME HandoffTypes, NEW p \in Processes, Busy(p),
           proc' = [proc EXCEPT ![p].todo = @ \ {Min(@)}]
    PROVE  /\ OnlyMoves(p, LessToDo(p)) /\ Keeps(p, LessToDo(p))
           /\ LessToDo(p).pc = proc[p].pc
           /\ LessToDo(p).todo = proc[p].todo \ {Min(proc[p].todo)}
<1>1. proc[p] \in Job
  BY JobType
<1>2. LessToDo(p) \in Job /\ LessToDo(p).cmd = proc[p].cmd /\ LessToDo(p).rows = proc[p].rows
      /\ LessToDo(p).pc = proc[p].pc /\ LessToDo(p).todo = proc[p].todo \ {Min(proc[p].todo)}
  BY <1>1 DEF LessToDo, Job
<1>3. proc' = [proc EXCEPT ![p] = LessToDo(p)]
  BY DEF LessToDo
<1>4. QED
  BY <1>2, <1>3 DEF OnlyMoves, Keeps, HandoffTypes

\* What a command begins with.
BegunJob(c, rows) ==
    [pc |-> First(c), cmd |-> c, rows |-> rows, held |-> binding, todo |-> Places(c, rows)]
RowsFor(c) == IF c.kind \in {"prepare", "promote"} THEN Planned(c) ELSE Fetched(c)

\* Where a command begins.
LEMMA FirstType ==
    ASSUME NEW c \in Commands
    PROVE  /\ First(c) \in {"persist", "files", "bind", "bindings"}
           /\ First(c) = "persist" => c.kind \in {"prepare", "promote"}
           /\ First(c) = "files" => c.kind \in {"prepare", "materialize"} /\ c.write
           /\ First(c) = "bind" => c.kind \in {"prepare", "materialize"} /\ c.persist
           /\ First(c) = "bindings" => c.kind = "validate"
           /\ c.kind = "validate" => First(c) = "bindings"
           /\ c.kind = "promote" => First(c) = "persist"
           /\ c.kind = "materialize" => First(c) = "files"
           /\ c.kind = "prepare" => First(c) = IF c.persist THEN "persist" ELSE "files"
  BY HandoffAssumption DEF First

\* The rows it begins with.
LEMMA RowsForType ==
    ASSUME HandoffTypes, NEW c \in Commands
    PROVE  /\ RowsFor(c) \in RowMaps /\ DOMAIN RowsFor(c) \subseteq Range(Batches[c.batch])
           /\ DOMAIN RowsFor(c) \subseteq Requests
           /\ c.kind \in {"prepare", "promote"} => RowsFor(c) = Planned(c)
           /\ c.kind \notin {"prepare", "promote"} =>
                 \A r \in DOMAIN RowsFor(c) : RowsFor(c)[r] = row[r] /\ row[r] # Nothing
  BY PlannedType, FetchedType, PlacesType DEF RowsFor

\* What the beginning changes,
LEMMA BeginEffect ==
    ASSUME HandoffTypes, NEW p \in Processes, NEW c \in Commands, Begin(p, c)
    PROVE  /\ ~Busy(p)
           /\ OnlyMoves(p, BegunJob(c, RowsFor(c)))
           /\ BegunJob(c, RowsFor(c)).pc = First(c) /\ BegunJob(c, RowsFor(c)).cmd = c
           /\ BegunJob(c, RowsFor(c)).rows = RowsFor(c)
           /\ BegunJob(c, RowsFor(c)).todo = Places(c, RowsFor(c))
           /\ crossed' = crossed \cup Met(p, RowsFor(c))
           /\ broken' = broken \cup (IF OneSided(c) THEN DOMAIN RowsFor(c)
                                     ELSE Unchecked(p, c, RowsFor(c)))
           /\ row' = row /\ file' = file /\ binding' = binding
<1>1. Enter(p, c, RowsFor(c)) /\ ~Busy(p) /\ UNCHANGED <<row, file, binding>>
  BY DEF Begin, RowsFor
<1>2. BegunJob(c, RowsFor(c)) \in Job
  <2>1. RowsFor(c) \in RowMaps /\ Places(c, RowsFor(c)) \in SUBSET Nat
    BY RowsForType, PlacesType
  <2>2. First(c) \in {"persist", "files", "bind", "bindings", "check"}
    BY FirstType
  <2>3. binding \in [Requests -> Contents]
    BY DEF HandoffTypes, HandoffTypeOK
  <2>4. QED
    BY <2>1, <2>2, <2>3 DEF BegunJob, Job
<1>3. proc' = [proc EXCEPT ![p] = BegunJob(c, RowsFor(c))]
  BY <1>1 DEF Enter, BegunJob
<1>4. QED
  BY <1>1, <1>2, <1>3 DEF OnlyMoves, BegunJob, Enter, HandoffTypes

-----------------------------------------------------------------------------
(* RequestHandoff: every step preserves each part of the invariant.           *)

\* The steps of a command that has begun.
Works(p) ==
    \/ PersistRows(p) \/ WriteFile(p) \/ FilesDone(p) \/ Bind(p)
    \/ FetchBindings(p) \/ Check(p) \/ Checked(p) \/ Break(p)

AfterPersist(p) ==
    IF KindOf(p) = "promote" THEN "end" ELSE IF proc[p].cmd.write THEN "files" ELSE "bind"
Bound(p) == [Moved(p, "check") EXCEPT !.held = binding]

\* What becomes of the command.
NextJob(p, job) ==
    \/ proc[p].pc = "persist" /\ job = Moved(p, AfterPersist(p))
    \/ proc[p].pc \in {"files", "check"} /\ proc[p].todo # {} /\ job = LessToDo(p)
    \/ proc[p].pc = "files" /\ proc[p].todo = {} /\ job = Moved(p, AfterFiles(proc[p].cmd))
    \/ proc[p].pc = "bind" /\ job = Moved(p, AfterBind(proc[p].cmd))
    \/ proc[p].pc = "bindings" /\ job = Bound(p)
    \/ job = Vacant

\* what the binding checks,
LEMMA BoundType ==
    ASSUME HandoffTypes, NEW p \in Processes, Busy(p)
    PROVE  /\ Bound(p) \in Job
           /\ Bound(p).pc = "check" /\ Bound(p).cmd = proc[p].cmd /\ Bound(p).rows = proc[p].rows
           /\ Bound(p).todo = Places(proc[p].cmd, proc[p].rows)
<1>1. Moved(p, "check") \in Job /\ binding \in [Requests -> Contents]
  BY MovedType DEF HandoffTypes, HandoffTypeOK
<1>2. QED
  BY <1>1, MovedType DEF Bound, Job

\* and what the work changes.
LEMMA WorkEffect ==
    ASSUME HandoffTypes, NEW p \in Processes, Works(p)
    PROVE  /\ Busy(p)
           /\ \E job : OnlyMoves(p, job) /\ Keeps(p, job) /\ NextJob(p, job)
           /\ broken \subseteq broken' /\ broken' \subseteq Requests /\ crossed' = crossed
<1> USE DEF Busy
<1>1. broken \subseteq Requests
  BY DEF HandoffTypes, HandoffTypeOK
<1>2. CASE PersistRows(p)
  <2>1. proc[p].pc = "persist" /\ proc' = MoveTo(p, AfterPersist(p))
        /\ broken' = broken /\ crossed' = crossed
    BY <1>2 DEF PersistRows, AfterPersist, KindOf
  <2>2. AfterPersist(p) \in {"persist", "files", "bind", "bindings", "check", "end"}
    BY DEF AfterPersist
  <2>3. QED
    BY <1>1, <2>1, <2>2, MoveEffect DEF NextJob
<1>3. CASE WriteFile(p)
  <2>1. proc[p].pc = "files" /\ proc[p].todo # {} /\ broken' = broken /\ crossed' = crossed
        /\ proc' = [proc EXCEPT ![p].todo = @ \ {Min(@)}]
    BY <1>3 DEF WriteFile
  <2>2. QED
    BY <1>1, <2>1, LessEffect DEF NextJob
<1>4. CASE FilesDone(p)
  <2>1. proc[p].pc = "files" /\ proc[p].todo = {} /\ broken' = broken /\ crossed' = crossed
        /\ proc' = MoveTo(p, AfterFiles(proc[p].cmd))
    BY <1>4 DEF FilesDone
  <2>2. AfterFiles(proc[p].cmd) \in {"persist", "files", "bind", "bindings", "check", "end"}
    BY DEF AfterFiles
  <2>3. QED
    BY <1>1, <2>1, <2>2, MoveEffect DEF NextJob
<1>5. CASE Bind(p)
  <2>1. proc[p].pc = "bind" /\ broken' = broken /\ crossed' = crossed
        /\ proc' = MoveTo(p, AfterBind(proc[p].cmd))
    BY <1>5 DEF Bind
  <2>2. AfterBind(proc[p].cmd) \in {"persist", "files", "bind", "bindings", "check", "end"}
    BY DEF AfterBind
  <2>3. QED
    BY <1>1, <2>1, <2>2, MoveEffect DEF NextJob
<1>6. CASE FetchBindings(p)
  <2>1. proc[p].pc = "bindings" /\ broken' = broken /\ crossed' = crossed
        /\ proc' = [proc EXCEPT ![p] = Bound(p)]
    BY <1>6 DEF FetchBindings, Bound
  <2>2. Keeps(p, Bound(p)) /\ Bound(p) \in Job
    BY <2>1, BoundType DEF Keeps
  <2>3. QED
    BY <1>1, <2>1, <2>2 DEF NextJob, OnlyMoves, HandoffTypes
<1>7. CASE Check(p)
  <2>1. proc[p].pc = "check" /\ proc[p].todo # {} /\ crossed' = crossed
    BY <1>7 DEF Check
  <2>2. CASE Accepts(p, At(p))
    <3>1. broken' = broken /\ proc' = [proc EXCEPT ![p].todo = @ \ {Min(@)}]
      BY <1>7, <2>2 DEF Check
    <3>2. QED
      BY <1>1, <2>1, <3>1, LessEffect DEF NextJob
  <2>3. CASE ~Accepts(p, At(p))
    <3>1. proc' = [proc EXCEPT ![p] = Vacant]
          /\ broken' = IF KindOf(p) = "prepare" THEN broken \cup RequestsOf(p) ELSE broken
      BY <1>7, <2>3 DEF Check, KindOf
    <3>2. RequestsOf(p) \subseteq Requests
      BY <2>1, JobType
    <3>3. QED
      BY <1>1, <2>1, <3>1, <3>2, VacateEffect DEF NextJob
  <2>4. QED
    BY <2>2, <2>3
<1>8. CASE Checked(p)
  <2>1. proc[p].pc = "check" /\ broken' = broken /\ crossed' = crossed
        /\ proc' = [proc EXCEPT ![p] = Vacant]
    BY <1>8 DEF Checked
  <2>2. QED
    BY <1>1, <2>1, VacateEffect DEF NextJob
<1>9. CASE Break(p)
  <2>1. proc[p].pc # "idle" /\ crossed' = crossed /\ proc' = [proc EXCEPT ![p] = Vacant]
        /\ broken' = IF KindOf(p) = "validate" THEN broken ELSE broken \cup RequestsOf(p)
    BY <1>9 DEF Break, KindOf
  <2>2. RequestsOf(p) \subseteq Requests
    BY <2>1, JobType
  <2>3. QED
    BY <1>1, <2>1, <2>2, VacateEffect DEF NextJob
<1>10. QED
  BY <1>2, <1>3, <1>4, <1>5, <1>6, <1>7, <1>8, <1>9 DEF Works

\* While a command works, those that are busy with a request were so before.
LEMMA WorkGoesOn ==
    ASSUME NEW p \in Processes, NEW job, OnlyMoves(p, job), Keeps(p, job), Busy(p),
           NEW q \in Processes, NEW r, Touches(q, r)'
    PROVE  Touches(q, r) /\ proc'[q].cmd = proc[q].cmd /\ proc'[q].rows = proc[q].rows
<1>1. CASE q = p
  BY <1>1 DEF OnlyMoves, Keeps, Touches, Busy, RequestsOf
<1>2. CASE q # p
  BY <1>2 DEF OnlyMoves, Touches, Busy, RequestsOf
<1>3. QED
  BY <1>1, <1>2

\* Every step keeps the types.
LEMMA HandoffTypeStep ==
    ASSUME HandoffTypes, JobsFit, NEW p \in Processes, HandoffStep(p)
    PROVE  HandoffTypes'
<1> USE DEF HandoffTypes, HandoffTypeOK
<1>1. ASSUME NEW c \in Commands, Begin(p, c) PROVE HandoffTypes'
  <2>1. OnlyMoves(p, BegunJob(c, RowsFor(c))) /\ row' = row /\ file' = file /\ binding' = binding
    BY <1>1, BeginEffect
  <2>2. broken' \subseteq Requests /\ crossed' \subseteq Requests
    BY <1>1, BeginEffect, RowsForType DEF Met, Unchecked
  <2>3. QED
    BY <2>1, <2>2 DEF OnlyMoves
<1>2. ASSUME Works(p) PROVE HandoffTypes'
  <2>1. PICK job : OnlyMoves(p, job) /\ Keeps(p, job) /\ NextJob(p, job)
    BY <1>2, WorkEffect
  <2>2. Busy(p) /\ broken' \subseteq Requests /\ crossed' = crossed
    BY <1>2, WorkEffect
  <2>3. \A r \in RequestsOf(p) : proc[p].rows[r] \in Contents
    BY <2>2, JobType
  <2>4. row' \in [Requests -> Contents] /\ binding' \in [Requests -> Contents]
    BY <1>2, <2>3 DEF Works, PersistRows, WriteFile, FilesDone, Bind, FetchBindings, Check,
                      Checked, Break
  <2>5. file' \in [Requests -> Contents]
    <3>1. CASE WriteFile(p)
      <4>1. At(p) \in RequestsOf(p)
        BY <2>2, <3>1, AtType DEF WriteFile
      <4>2. QED
        BY <2>3, <3>1, <4>1 DEF WriteFile
    <3>2. CASE ~WriteFile(p)
      BY <1>2, <3>2 DEF Works, PersistRows, FilesDone, Bind, FetchBindings, Check, Checked, Break
    <3>3. QED
      BY <3>1, <3>2
  <2>6. QED
    BY <2>1, <2>2, <2>4, <2>5 DEF OnlyMoves
<1>3. QED
  BY <1>1, <1>2 DEF HandoffStep, Works

\* What is said of one command.
Fits(j, given) ==
    /\ j.todo \subseteq Places(j.cmd, j.rows)
    /\ DOMAIN j.rows \subseteq Range(Batches[j.cmd.batch])
    /\ j.cmd.kind \in {"prepare", "promote"} => j.rows = Planned(j.cmd)
    /\ j.pc = "persist" => j.cmd.kind \in {"prepare", "promote"}
    /\ j.pc = "files" => j.cmd.kind \in {"prepare", "materialize"} /\ j.cmd.write
    /\ j.pc = "bind" => j.cmd.kind \in {"prepare", "materialize"} /\ j.cmd.persist
    /\ j.pc = "bindings" => j.cmd.kind = "validate"
    /\ j.pc = "check" => j.cmd.kind = "validate" \/ (j.cmd.kind = "prepare" /\ j.cmd.write)
    /\ OneSided(j.cmd) => DOMAIN j.rows \subseteq given

\* Every job fits its command,
LEMMA JobsFitAll ==
    JobsFit <=> \A p \in Processes : Busy(p) => Fits(proc[p], broken)
  BY DEF JobsFit, Fits, KindOf, RequestsOf

\* the more so with more requests given up,
LEMMA FitsMore ==
    ASSUME NEW j, NEW given, NEW more, given \subseteq more, Fits(j, given)
    PROVE  Fits(j, more)
  BY DEF Fits

\* also after the next of its steps,
LEMMA NextJobFits ==
    ASSUME HandoffTypes, NEW p \in Processes, Busy(p), Fits(proc[p], broken),
           NEW job, Keeps(p, job), NextJob(p, job), job.pc # "idle"
    PROVE  Fits(job, broken)
<1>1. proc[p] \in Job /\ proc[p].cmd \in Commands
  BY JobType DEF Job
<1>2. /\ job.cmd = proc[p].cmd /\ job.rows = proc[p].rows
  BY DEF Keeps
<1>3. job # Vacant
  BY DEF Vacant
<1>4. SUFFICES
      /\ job.todo \subseteq Places(job.cmd, job.rows)
      /\ job.pc # "persist" /\ job.pc # "bindings"
      /\ job.pc = "files" => job.cmd.kind \in {"prepare", "materialize"} /\ job.cmd.write
      /\ job.pc = "bind" => job.cmd.kind \in {"prepare", "materialize"} /\ job.cmd.persist
      /\ job.pc = "check" => job.cmd.kind = "validate" \/ (job.cmd.kind = "prepare" /\ job.cmd.write)
  BY <1>2 DEF Fits
<1>5. CASE proc[p].pc = "persist" /\ job = Moved(p, AfterPersist(p))
  <2>1. AfterPersist(p) # "end"
    BY <1>3, <1>5 DEF Moved
  <2>2. KindOf(p) = "prepare"
    BY <1>5, <2>1 DEF Fits, AfterPersist, KindOf
  <2>3. proc[p].cmd.write \/ proc[p].cmd.persist
    BY <1>1, <2>2, HandoffAssumption DEF KindOf
  <2>4. AfterPersist(p) = IF proc[p].cmd.write THEN "files" ELSE "bind"
    BY <2>1 DEF AfterPersist
  <2>5. QED
    BY <1>2, <1>5, <2>2, <2>3, <2>4, MovedType DEF KindOf
<1>6. CASE proc[p].pc \in {"files", "check"} /\ proc[p].todo # {} /\ job = LessToDo(p)
  <2>1. job.pc = proc[p].pc /\ job.todo \subseteq proc[p].todo
    BY <1>1, <1>6 DEF LessToDo, Job
  <2>2. QED
    BY <1>2, <1>6, <2>1 DEF Fits
<1>7. CASE proc[p].pc = "files" /\ proc[p].todo = {} /\ job = Moved(p, AfterFiles(proc[p].cmd))
  <2>1. AfterFiles(proc[p].cmd) # "end"
    BY <1>3, <1>7 DEF Moved
  <2>2. QED
    <3>1. LET pc == AfterFiles(proc[p].cmd) IN
          /\ pc \in {"bind", "check"}
          /\ pc = "bind" => proc[p].cmd.persist
          /\ pc = "check" => proc[p].cmd.kind = "prepare"
      BY <2>1 DEF AfterFiles
    <3>2. job.pc = AfterFiles(proc[p].cmd) /\ job.todo = Places(job.cmd, job.rows)
      BY <1>2, <1>7, <3>1, MovedType
    <3>3. proc[p].cmd.kind \in {"prepare", "materialize"} /\ proc[p].cmd.write
      BY <1>7 DEF Fits
    <3>4. QED
      BY <1>2, <3>1, <3>2, <3>3
<1>8. CASE proc[p].pc = "bind" /\ job = Moved(p, AfterBind(proc[p].cmd))
  <2>1. AfterBind(proc[p].cmd) # "end"
    BY <1>3, <1>8 DEF Moved
  <2>2. QED
    <3>1. /\ AfterBind(proc[p].cmd) = "check"
          /\ proc[p].cmd.kind = "prepare" /\ proc[p].cmd.write
      BY <2>1 DEF AfterBind
    <3>2. job.pc = "check" /\ job.todo = Places(job.cmd, job.rows)
      BY <1>2, <1>8, <3>1, MovedType
    <3>3. QED
      BY <1>2, <3>1, <3>2
<1>9. CASE proc[p].pc = "bindings" /\ job = Bound(p)
  BY <1>2, <1>9, BoundType DEF Fits
<1>10. QED
  BY <1>3, <1>5, <1>6, <1>7, <1>8, <1>9 DEF NextJob

\* and after those of others.
LEMMA FitStep ==
    ASSUME HandoffTypes, JobsFit, NEW p \in Processes, HandoffStep(p)
    PROVE  JobsFit'
<1>1. SUFFICES ASSUME NEW q \in Processes, Busy(q)' PROVE Fits(proc'[q], broken')
  BY DEF JobsFit, Fits, KindOf, RequestsOf
<1>2. \A o \in Processes : Busy(o) => Fits(proc[o], broken)
  BY JobsFitAll
<1>3. ASSUME NEW c \in Commands, Begin(p, c) PROVE Fits(proc'[q], broken')
  <2>1. CASE q # p
    <3>1. proc'[q] = proc[q] /\ broken \subseteq broken'
      BY <1>3, <2>1, BeginEffect DEF OnlyMoves
    <3>2. Busy(q)
      BY <1>1, <3>1 DEF Busy
    <3>3. QED
      BY <1>2, <3>1, <3>2, FitsMore
  <2>2. CASE q = p
    <3>1. /\ proc'[q].pc = First(c) /\ proc'[q].cmd = c /\ proc'[q].rows = RowsFor(c)
          /\ proc'[q].todo = Places(c, RowsFor(c))
          /\ OneSided(c) => DOMAIN RowsFor(c) \subseteq broken'
      BY <1>3, <2>2, BeginEffect DEF OnlyMoves
    <3>2. QED
      BY <3>1, FirstType, RowsForType DEF Fits
  <2>3. QED
    BY <2>1, <2>2
<1>4. ASSUME Works(p) PROVE Fits(proc'[q], broken')
  <2>1. PICK job : OnlyMoves(p, job) /\ Keeps(p, job) /\ NextJob(p, job)
    BY <1>4, WorkEffect
  <2>2. Busy(p) /\ broken \subseteq broken'
    BY <1>4, WorkEffect
  <2>3. CASE q # p
    <3>1. proc'[q] = proc[q]
      BY <2>1, <2>3 DEF OnlyMoves
    <3>2. Busy(q)
      BY <1>1, <3>1 DEF Busy
    <3>3. QED
      BY <1>2, <2>2, <3>1, <3>2, FitsMore
  <2>4. CASE q = p
    <3>1. proc'[q] = job /\ job.pc # "idle"
      BY <1>1, <2>1, <2>4 DEF OnlyMoves, Busy
    <3>2. Fits(job, broken)
      BY <1>2, <2>1, <2>2, <3>1, NextJobFits
    <3>3. QED
      BY <2>2, <3>1, <3>2, FitsMore
  <2>5. QED
    BY <2>3, <2>4
<1>5. QED
  BY <1>3, <1>4 DEF HandoffStep, Works

\* Two that meet at a request are known to have met.
LEMMA MeetingStep ==
    ASSUME HandoffTypes, MeetingsAreKnown, NEW p \in Processes, HandoffStep(p)
    PROVE  MeetingsAreKnown'
<1>1. SUFFICES ASSUME NEW a \in Processes, NEW b \in Processes, NEW r \in Requests,
                      a # b, Touches(a, r)', Touches(b, r)'
               PROVE  r \in crossed' /\ (KindOf(a)' = "materialize" => r \in broken')
  BY DEF MeetingsAreKnown
<1>2. ASSUME NEW c \in Commands, Begin(p, c)
      PROVE  r \in crossed' /\ (KindOf(a)' = "materialize" => r \in broken')
  <2> DEFINE rows == RowsFor(c)
  <2>1. /\ crossed' = crossed \cup Met(p, rows)
        /\ broken' = broken \cup (IF OneSided(c) THEN DOMAIN rows ELSE Unchecked(p, c, rows))
        /\ proc'[p].cmd = c /\ proc'[p].rows = rows
        /\ \A q \in Processes : q # p => proc'[q] = proc[q]
    BY <1>2, BeginEffect DEF OnlyMoves
  <2> HIDE DEF rows
  <2>2. CASE a # p /\ b # p
    <3>1. Touches(a, r) /\ Touches(b, r) /\ KindOf(a)' = KindOf(a)
      BY <1>1, <2>1, <2>2 DEF Touches, Busy, RequestsOf, KindOf
    <3>2. QED
      BY <1>1, <2>1, <3>1 DEF MeetingsAreKnown
  <2>3. CASE a = p
    <3>1. r \in DOMAIN rows /\ Touches(b, r) /\ b \in Processes \ {p} /\ KindOf(a)' = c.kind
      BY <1>1, <2>1, <2>3 DEF Touches, Busy, RequestsOf, KindOf
    <3>2. r \in Met(p, rows)
      BY <3>1 DEF Met
    <3>3. c.kind = "materialize" => r \in Unchecked(p, c, rows)
      BY <3>2 DEF Unchecked
    <3>4. QED
      BY <2>1, <3>1, <3>2, <3>3
  <2>4. CASE b = p
    <3>1. r \in DOMAIN rows /\ Touches(a, r) /\ a \in Processes \ {p} /\ KindOf(a)' = KindOf(a)
      BY <1>1, <2>1, <2>4 DEF Touches, Busy, RequestsOf, KindOf
    <3>2. r \in Met(p, rows)
      BY <3>1 DEF Met
    <3>3. KindOf(a) = "materialize" => r \in Unchecked(p, c, rows)
      BY <3>1, <3>2 DEF Unchecked, KindOf
    <3>4. QED
      BY <2>1, <3>1, <3>2, <3>3
  <2>5. QED
    BY <1>1, <2>2, <2>3, <2>4
<1>3. ASSUME Works(p) PROVE r \in crossed' /\ (KindOf(a)' = "materialize" => r \in broken')
  <2>1. PICK job : OnlyMoves(p, job) /\ Keeps(p, job) /\ NextJob(p, job)
    BY <1>3, WorkEffect
  <2>2. Busy(p) /\ broken \subseteq broken' /\ crossed' = crossed
    BY <1>3, WorkEffect
  <2>3. Touches(a, r) /\ Touches(b, r) /\ KindOf(a)' = KindOf(a)
    BY <1>1, <2>1, <2>2, WorkGoesOn DEF KindOf
  <2>4. QED
    BY <1>1, <2>2, <2>3 DEF MeetingsAreKnown
<1>4. QED
  BY <1>2, <1>3 DEF HandoffStep, Works

\* A preparation or materialization that writes both sides checks or ends in its turn;
\* one that writes one side only is broken from the start.
LEMMA TwoSides ==
    ASSUME HandoffTypes, JobsFit, NEW p \in Processes, Busy(p), NEW r \in RequestsOf(p) \ broken,
           KindOf(p) \in {"prepare", "materialize"}
    PROVE  proc[p].cmd.write /\ proc[p].cmd.persist
<1>1. ~OneSided(proc[p].cmd)
  BY DEF JobsFit
<1>2. proc[p].cmd \in Commands
  BY JobType DEF Job
<1>3. proc[p].cmd.write \in BOOLEAN /\ proc[p].cmd.persist \in BOOLEAN
      /\ (KindOf(p) = "prepare" => proc[p].cmd.write \/ proc[p].cmd.persist)
      /\ (KindOf(p) = "materialize" => proc[p].cmd.write)
  BY <1>2, HandoffAssumption DEF KindOf
<1>4. QED
  BY <1>1, <1>3 DEF OneSided, KindOf

\* A request of a command has a place in its batch.
LEMMA HasPlace ==
    ASSUME HandoffTypes, JobsFit, NEW p \in Processes, Busy(p), NEW r \in RequestsOf(p)
    PROVE  \E i \in Places(proc[p].cmd, proc[p].rows) : Batches[proc[p].cmd.batch][i] = r
<1>1. proc[p].cmd \in Commands
  BY JobType DEF Job
<1>2. r \in DOMAIN proc[p].rows /\ r \in Range(Batches[proc[p].cmd.batch])
  BY DEF JobsFit, RequestsOf
<1>3. QED
  BY <1>1, <1>2, PlacesType

\* Where the three records differ somebody is at work or has broken off.
LEMMA MismatchStep ==
    ASSUME HandoffTypes, JobsFit, MeetingsAreKnown, MaterializedFirst, MismatchPends,
           NEW p \in Processes, HandoffStep(p)
    PROVE  MismatchPends'
<1>1. SUFFICES ASSUME NEW r \in Requests \ broken'
               PROVE  (file[r] = binding[r] \/ \E q \in Processes : Touches(q, r) /\ Pends(q, r))'
  BY DEF MismatchPends
<1> DEFINE Goal == file'[r] = binding'[r] \/ \E q \in Processes : Touches(q, r)' /\ Pends(q, r)'
<1>2. SUFFICES Goal
  OBVIOUS
\* Who pends for the request and is not the one that moves still does.
<1>3. ASSUME NEW q \in Processes, q # p, Touches(q, r), Pends(q, r), proc'[q] = proc[q],
             binding'[r] = binding[r]
      PROVE  Goal
  <2>1. Touches(q, r)' /\ Pends(q, r)'
    BY <1>3 DEF Touches, Busy, RequestsOf, Pends, KindOf
  <2>2. QED
    BY <2>1
<1>4. ASSUME NEW c \in Commands, Begin(p, c) PROVE Goal
  <2>1. /\ ~Busy(p) /\ \A q \in Processes : q # p => proc'[q] = proc[q]
        /\ file' = file /\ binding' = binding /\ r \notin broken
    BY <1>4, BeginEffect DEF OnlyMoves
  <2>2. CASE file[r] = binding[r]
    BY <2>1, <2>2
  <2>3. CASE file[r] # binding[r]
    <3>1. PICK q \in Processes : Touches(q, r) /\ Pends(q, r)
      BY <2>1, <2>3 DEF MismatchPends
    <3>2. q # p
      BY <2>1, <3>1 DEF Touches
    <3>3. QED
      BY <1>3, <2>1, <3>1, <3>2
  <2>4. QED
    BY <2>2, <2>3
<1>5. ASSUME Works(p) PROVE Goal
  <2>1. /\ Busy(p) /\ r \notin broken
    BY <1>5, WorkEffect
  <2>2. \A q \in Processes : q # p => proc'[q] = proc[q]
    BY <1>5, WorkEffect DEF OnlyMoves
  <2>3. proc[p].cmd.kind = KindOf(p)
    BY DEF KindOf
  \* It is enough to look at the one that moves when it pends itself.
  <2>4. ASSUME file'[r] = file[r], binding'[r] = binding[r],
               Touches(p, r) /\ Pends(p, r) => Goal
        PROVE  Goal
    <3>1. CASE file[r] = binding[r]
      BY <2>4, <3>1
    <3>2. CASE file[r] # binding[r]
      <4>1. PICK q \in Processes : Touches(q, r) /\ Pends(q, r)
        BY <2>1, <3>2 DEF MismatchPends
      <4>2. CASE q = p
        BY <2>4, <4>1, <4>2
      <4>3. CASE q # p
        BY <1>3, <2>2, <2>4, <4>1, <4>3
      <4>4. QED
        BY <4>2, <4>3
    <3>3. QED
      BY <3>1, <3>2
  <2>5. CASE PersistRows(p)
    <3>1. ~Pends(p, r) /\ file' = file /\ binding' = binding
      BY <2>5 DEF PersistRows, Pends
    <3>2. QED
      BY <2>4, <3>1
  <2>6. CASE WriteFile(p)
    <3>1. proc[p].pc = "files" /\ proc[p].todo # {} /\ binding' = binding
          /\ proc' = [proc EXCEPT ![p].todo = @ \ {Min(@)}]
          /\ file' = [file EXCEPT ![At(p)] = proc[p].rows[At(p)]]
      BY <2>6 DEF WriteFile
    <3>2. OnlyMoves(p, LessToDo(p)) /\ Keeps(p, LessToDo(p)) /\ LessToDo(p).pc = "files"
      BY <2>1, <3>1, LessEffect
    <3>3. ASSUME Touches(p, r) PROVE Goal
      <4>1. Touches(p, r)' /\ proc'[p].pc = "files"
        BY <3>2, <3>3 DEF Touches, Busy, RequestsOf, OnlyMoves, Keeps
      <4>2. Pends(p, r)'
        BY <4>1 DEF Pends
      <4>3. QED
        BY <4>1, <4>2
    <3>4. ASSUME ~Touches(p, r) PROVE Goal
      <4>1. At(p) # r
        BY <2>1, <3>1, <3>4, AtType DEF Touches
      <4>2. file'[r] = file[r]
        BY <3>1, <4>1 DEF HandoffTypes, HandoffTypeOK
      <4>3. QED
        BY <2>4, <3>1, <3>4, <4>2
    <3>5. QED
      BY <3>3, <3>4
  <2>7. CASE FilesDone(p)
    <3>1. /\ proc[p].pc = "files" /\ file' = file /\ binding' = binding
          /\ proc' = MoveTo(p, AfterFiles(proc[p].cmd))
      BY <2>7 DEF FilesDone
    <3>2. ASSUME Touches(p, r) PROVE Goal
      <4>1. KindOf(p) \in {"prepare", "materialize"}
        BY <2>1, <3>1 DEF JobsFit
      <4>2. proc[p].cmd.persist
        BY <2>1, <3>2, <4>1, TwoSides DEF Touches
      <4>3. AfterFiles(proc[p].cmd) = "bind"
        BY <4>2 DEF AfterFiles
      <4>4. OnlyMoves(p, Moved(p, "bind"))
        BY <2>1, <3>1, <4>3, MoveEffect
      <4>5. proc'[p].pc = "bind" /\ proc'[p].rows = proc[p].rows
        BY <2>1, <4>4, MovedType DEF OnlyMoves
      <4>6. Touches(p, r)' /\ Pends(p, r)'
        BY <3>2, <4>5 DEF Touches, Busy, RequestsOf, Pends
      <4>7. QED
        BY <4>6
    <3>3. QED
      BY <2>4, <3>1, <3>2
  <2>8. CASE Bind(p)
    <3>1. /\ proc[p].pc = "bind" /\ file' = file
          /\ proc' = MoveTo(p, AfterBind(proc[p].cmd))
          /\ binding' = [q \in Requests |-> IF q \in RequestsOf(p) THEN proc[p].rows[q] ELSE binding[q]]
      BY <2>8 DEF Bind
    <3>2. CASE r \in RequestsOf(p)
      <4>1. binding'[r] = proc[p].rows[r] /\ Touches(p, r)
        BY <2>1, <3>1, <3>2 DEF Touches
      <4>2. KindOf(p) \in {"prepare", "materialize"}
        BY <2>1, <3>1 DEF JobsFit
      <4>3. CASE KindOf(p) = "materialize"
        <5>1. file[r] = proc[p].rows[r]
          BY <2>1, <3>1, <4>1, <4>3 DEF MaterializedFirst, IsWritten
        <5>2. QED
          BY <3>1, <4>1, <5>1
      <4>4. CASE KindOf(p) = "prepare"
        <5>1. proc[p].cmd.write
          BY <2>1, <3>2, <4>2, TwoSides
        <5>2. AfterBind(proc[p].cmd) = "check"
          BY <2>3, <4>4, <5>1 DEF AfterBind
        <5>3. OnlyMoves(p, Moved(p, "check"))
          BY <2>1, <3>1, <5>2, MoveEffect
        <5>4. /\ proc'[p].pc = "check" /\ proc'[p].rows = proc[p].rows /\ proc'[p].cmd = proc[p].cmd
              /\ proc'[p].todo = Places(proc[p].cmd, proc[p].rows)
          BY <2>1, <5>3, MovedType DEF OnlyMoves
        <5>5. Touches(p, r)'
          BY <3>2, <5>4 DEF Touches, Busy, RequestsOf
        <5>6. Pends(p, r)'
          BY <2>1, <3>2, <4>1, <4>4, <5>4, HasPlace DEF Pends, KindOf
        <5>7. QED
          BY <5>5, <5>6
      <4>5. QED
        BY <4>2, <4>3, <4>4
    <3>3. CASE r \notin RequestsOf(p)
      <4>1. binding'[r] = binding[r] /\ ~Touches(p, r)
        BY <3>1, <3>3 DEF Touches
      <4>2. QED
        BY <2>4, <3>1, <4>1
    <3>4. QED
      BY <3>2, <3>3
  <2>9. CASE FetchBindings(p)
    <3>1. ~Pends(p, r) /\ file' = file /\ binding' = binding
      BY <2>9 DEF FetchBindings, Pends
    <3>2. QED
      BY <2>4, <3>1
  <2>10. CASE Check(p)
    <3>1. proc[p].pc = "check" /\ proc[p].todo # {} /\ file' = file /\ binding' = binding
      BY <2>10 DEF Check
    <3>2. ASSUME Touches(p, r), Pends(p, r) PROVE Goal
      <4>1. KindOf(p) = "prepare" /\ proc[p].rows[r] = binding[r]
        BY <3>1, <3>2 DEF Pends
      <4>2. PICK i \in proc[p].todo : Batches[proc[p].cmd.batch][i] = r
        BY <3>1, <3>2 DEF Pends
      <4>3. CASE ~Accepts(p, At(p))
        <5>1. broken' = broken \cup RequestsOf(p)
          BY <2>10, <4>1, <4>3 DEF Check, KindOf
        <5>2. QED
          BY <1>1, <3>2, <5>1 DEF Touches
      <4>4. CASE Accepts(p, At(p)) /\ At(p) = r
        <5>1. file[r] = proc[p].rows[r]
          BY <2>3, <4>1, <4>4 DEF Accepts
        <5>2. QED
          BY <3>1, <4>1, <5>1
      <4>5. CASE Accepts(p, At(p)) /\ At(p) # r
        <5>1. proc' = [proc EXCEPT ![p].todo = @ \ {Min(@)}]
          BY <2>10, <4>5 DEF Check
        <5>2. OnlyMoves(p, LessToDo(p)) /\ Keeps(p, LessToDo(p)) /\ LessToDo(p).pc = "check"
              /\ LessToDo(p).todo = proc[p].todo \ {Min(proc[p].todo)}
          BY <2>1, <3>1, <5>1, LessEffect
        <5>3. i # Min(proc[p].todo)
          BY <4>2, <4>5 DEF At
        <5>4. /\ proc'[p].pc = "check" /\ proc'[p].rows = proc[p].rows /\ proc'[p].cmd = proc[p].cmd
              /\ i \in proc'[p].todo
          BY <4>2, <5>2, <5>3 DEF OnlyMoves, Keeps
        <5>5. Touches(p, r)'
          BY <3>2, <5>4 DEF Touches, Busy, RequestsOf
        <5>6. Pends(p, r)'
          BY <3>1, <4>1, <4>2, <5>4 DEF Pends, KindOf
        <5>7. QED
          BY <5>5, <5>6
      <4>6. QED
        BY <4>3, <4>4, <4>5
    <3>3. QED
      BY <2>4, <3>1, <3>2
  <2>11. CASE Checked(p)
    <3>1. ~Pends(p, r) /\ file' = file /\ binding' = binding
      BY <2>11 DEF Checked, Pends
    <3>2. QED
      BY <2>4, <3>1
  <2>12. CASE Break(p)
    <3>1. file' = file /\ binding' = binding
          /\ broken' = IF KindOf(p) = "validate" THEN broken ELSE broken \cup RequestsOf(p)
      BY <2>12 DEF Break, KindOf
    <3>2. ASSUME Touches(p, r), Pends(p, r) PROVE FALSE
      <4>1. KindOf(p) = "validate"
        BY <1>1, <3>1, <3>2 DEF Touches
      <4>2. proc[p].pc \notin {"files", "bind"}
        BY <2>1, <4>1 DEF JobsFit
      <4>3. QED
        BY <3>2, <4>1, <4>2 DEF Pends
    <3>3. QED
      BY <2>4, <3>1, <3>2
  <2>13. QED
    BY <1>5, <2>5, <2>6, <2>7, <2>8, <2>9, <2>10, <2>11, <2>12 DEF Works
<1>6. QED
  BY <1>4, <1>5 DEF HandoffStep, Works

\* Who materializes a request does it from its row.
LEMMA MaterializedStep ==
    ASSUME HandoffTypes, JobsFit, MeetingsAreKnown, MaterializedFirst,
           NEW p \in Processes, HandoffStep(p)
    PROVE  MaterializedFirst'
<1>1. SUFFICES ASSUME NEW q \in Processes, NEW r \in Requests \ broken', Touches(q, r)',
                      KindOf(q)' = "materialize", IsWritten(q, r)'
               PROVE  file'[r] = proc'[q].rows[r]
  BY DEF MaterializedFirst
<1>2. ASSUME NEW c \in Commands, Begin(p, c) PROVE file'[r] = proc'[q].rows[r]
  <2>1. file' = file /\ r \notin broken
    BY <1>2, BeginEffect
  <2>2. CASE q # p
    <3>1. proc'[q] = proc[q]
      BY <1>2, <2>2, BeginEffect DEF OnlyMoves
    <3>2. Touches(q, r) /\ KindOf(q) = "materialize" /\ IsWritten(q, r)
      BY <1>1, <3>1 DEF Touches, Busy, RequestsOf, KindOf, IsWritten
    <3>3. QED
      BY <2>1, <3>1, <3>2 DEF MaterializedFirst
  <2>3. CASE q = p
    <3>1. /\ proc'[p].pc = First(c) /\ proc'[p].cmd = c /\ proc'[p].rows = RowsFor(c)
          /\ proc'[p].todo = Places(c, RowsFor(c))
      BY <1>2, BeginEffect DEF OnlyMoves
    <3>2. c.kind = "materialize" /\ First(c) = "files"
      BY <1>1, <2>3, <3>1, FirstType DEF KindOf
    <3>3. r \in DOMAIN RowsFor(c) /\ r \in Range(Batches[c.batch])
      BY <1>1, <2>3, <3>1, RowsForType DEF Touches, RequestsOf
    <3>4. \E i \in Places(c, RowsFor(c)) : Batches[c.batch][i] = r
      BY <3>3, PlacesType
    <3>5. QED
      BY <1>1, <2>3, <3>1, <3>2, <3>4 DEF IsWritten
  <2>4. QED
    BY <2>2, <2>3
<1>3. ASSUME Works(p) PROVE file'[r] = proc'[q].rows[r]
  <2>1. PICK job : OnlyMoves(p, job) /\ Keeps(p, job) /\ NextJob(p, job)
    BY <1>3, WorkEffect
  <2>2. Busy(p) /\ r \notin broken
    BY <1>3, WorkEffect
  <2>3. Touches(q, r) /\ KindOf(q) = "materialize" /\ proc'[q].rows = proc[q].rows
        /\ proc'[q].cmd = proc[q].cmd
    BY <1>1, <2>1, <2>2, WorkGoesOn DEF KindOf
  <2>4. CASE WriteFile(p)
    <3>1. /\ proc[p].pc = "files" /\ proc[p].todo # {}
          /\ file' = [file EXCEPT ![At(p)] = proc[p].rows[At(p)]]
          /\ proc' = [proc EXCEPT ![p].todo = @ \ {Min(@)}]
      BY <2>4 DEF WriteFile
    <3>2. At(p) \in RequestsOf(p) /\ At(p) = Batches[proc[p].cmd.batch][Min(proc[p].todo)]
      BY <2>2, <3>1, AtType
    <3>3. RequestsOf(p) \subseteq Requests
      BY <2>2, JobType
    <3>4. CASE r = At(p)
      <4>1. q = p
        BY <2>2, <2>3, <3>2, <3>4 DEF MeetingsAreKnown, Touches
      <4>2. QED
        BY <2>3, <3>1, <3>2, <3>3, <3>4, <4>1 DEF HandoffTypes, HandoffTypeOK
    <3>5. CASE r # At(p)
      <4>1. file'[r] = file[r]
        BY <3>1, <3>5 DEF HandoffTypes, HandoffTypeOK
      <4>2. IsWritten(q, r)
        <5>1. CASE q = p
          <6>1. proc'[p].pc = "files" /\ proc'[p].todo = proc[p].todo \ {Min(proc[p].todo)}
            BY <2>2, <3>1, LessEffect DEF OnlyMoves
          <6>2. \A i \in proc[p].todo \ {Min(proc[p].todo)} : Batches[proc[p].cmd.batch][i] # r
            BY <1>1, <2>3, <5>1, <6>1 DEF IsWritten
          <6>3. QED
            BY <3>1, <3>2, <3>5, <5>1, <6>2 DEF IsWritten
        <5>2. CASE q # p
          BY <1>1, <2>1, <5>2 DEF IsWritten, OnlyMoves
        <5>3. QED
          BY <5>1, <5>2
      <4>3. QED
        BY <2>2, <2>3, <4>1, <4>2 DEF MaterializedFirst
    <3>6. QED
      BY <3>4, <3>5
  <2>5. CASE ~WriteFile(p)
    <3>1. file' = file
      BY <1>3, <2>5 DEF Works, PersistRows, FilesDone, Bind, FetchBindings, Check, Checked, Break
    <3>2. IsWritten(q, r)
      <4>1. CASE q # p
        BY <1>1, <2>1, <4>1 DEF IsWritten, OnlyMoves
      <4>2. CASE q = p
        <5>1. proc[p].pc \in {"files", "bind"}
          <6>1. proc[p] \in Job
            BY <2>2, JobType
          <6>2. QED
            BY <2>2, <2>3, <4>2, <6>1 DEF JobsFit, Job
        <5>2. CASE proc[p].pc = "files"
          <6>1. FilesDone(p)
            <7>1. ~Break(p)
              <8>1. ASSUME Break(p) PROVE FALSE
                <9>1. proc'[p].pc = "idle"
                  BY <2>1, <8>1 DEF Break, Vacant, HandoffTypes
                <9>2. QED
                  BY <1>1, <4>2, <9>1 DEF Touches, Busy
              <8>2. QED
                BY <8>1
            <7>2. QED
              BY <1>3, <2>5, <5>2, <7>1
                 DEF Works, PersistRows, Bind, FetchBindings, Check, Checked
          <6>2. QED
            BY <4>2, <5>2, <6>1 DEF FilesDone, IsWritten
        <5>3. CASE proc[p].pc = "bind"
          BY <4>2, <5>3 DEF IsWritten
        <5>4. QED
          BY <5>1, <5>2, <5>3
      <4>3. QED
        BY <4>1, <4>2
    <3>3. QED
      BY <2>2, <2>3, <3>1, <3>2 DEF MaterializedFirst
  <2>6. QED
    BY <2>4, <2>5
<1>4. QED
  BY <1>2, <1>3 DEF HandoffStep, Works

\* A promotion finds nothing but its own batch.
LEMMA PromotionStep ==
    ASSUME HandoffTypes, JobsFit, PromotionsAreApart, NEW p \in Processes, HandoffStep(p)
    PROVE  PromotionsAreApart'
<1>1. SUFFICES ASSUME NEW c \in Commands, c.kind = "promote", NEW r \in Range(Batches[c.batch])
               PROVE  /\ {row'[r], file'[r], binding'[r]} \subseteq {c.batch, Nothing}
                      /\ \A q \in Processes : Touches(q, r)' => proc'[q].rows[r] = c.batch
  BY DEF PromotionsAreApart
<1>2. /\ {row[r], file[r], binding[r]} \subseteq {c.batch, Nothing} /\ r \in Requests
      /\ \A q \in Processes : Touches(q, r) => proc[q].rows[r] = c.batch
  BY <1>1, PlacesType DEF PromotionsAreApart
<1>3. ASSUME NEW d \in Commands, Begin(p, d)
      PROVE  /\ {row'[r], file'[r], binding'[r]} \subseteq {c.batch, Nothing}
             /\ \A q \in Processes : Touches(q, r)' => proc'[q].rows[r] = c.batch
  <2>1. /\ row' = row /\ file' = file /\ binding' = binding /\ proc'[p].rows = RowsFor(d)
        /\ \A q \in Processes : q # p => proc'[q] = proc[q]
    BY <1>3, BeginEffect DEF OnlyMoves
  <2>2. ASSUME r \in DOMAIN RowsFor(d) PROVE RowsFor(d)[r] = c.batch
    <3>1. CASE d.kind \in {"prepare", "promote"}
      <4>1. r \in Range(Batches[d.batch]) /\ RowsFor(d)[r] = d.batch
        BY <2>2, <3>1, RowsForType, PlannedType
      <4>2. d.batch = c.batch
        BY <1>1, <3>1, <4>1, HandoffAssumption
      <4>3. QED
        BY <4>1, <4>2
    <3>2. CASE d.kind \notin {"prepare", "promote"}
      BY <1>2, <2>2, <3>2, RowsForType
    <3>3. QED
      BY <3>1, <3>2
  <2>3. ASSUME NEW q \in Processes, Touches(q, r)' PROVE proc'[q].rows[r] = c.batch
    <3>1. CASE q = p
      BY <2>1, <2>2, <2>3, <3>1 DEF Touches, RequestsOf
    <3>2. CASE q # p
      BY <1>2, <2>1, <2>3, <3>2 DEF Touches, RequestsOf, Busy
    <3>3. QED
      BY <3>1, <3>2
  <2>4. QED
    BY <1>2, <2>1, <2>3
<1>4. ASSUME Works(p)
      PROVE  /\ {row'[r], file'[r], binding'[r]} \subseteq {c.batch, Nothing}
             /\ \A q \in Processes : Touches(q, r)' => proc'[q].rows[r] = c.batch
  <2>1. PICK job : OnlyMoves(p, job) /\ Keeps(p, job) /\ NextJob(p, job)
    BY <1>4, WorkEffect
  <2>2. Busy(p)
    BY <1>4, WorkEffect
  <2>3. ASSUME NEW q \in Processes, Touches(q, r)' PROVE proc'[q].rows[r] = c.batch
    BY <1>2, <2>1, <2>2, <2>3, WorkGoesOn
  <2>4. r \in RequestsOf(p) => proc[p].rows[r] = c.batch
    BY <1>2, <2>2 DEF Touches
  <2>5. row'[r] \in {c.batch, Nothing} /\ binding'[r] \in {c.batch, Nothing}
    BY <1>2, <1>4, <2>4 DEF Works, PersistRows, WriteFile, FilesDone, Bind, FetchBindings, Check,
                            Checked, Break
  <2>6. file'[r] \in {c.batch, Nothing}
    <3>1. CASE WriteFile(p)
      <4>1. At(p) \in RequestsOf(p)
        BY <2>2, <3>1, AtType DEF WriteFile
      <4>2. file' = [file EXCEPT ![At(p)] = proc[p].rows[At(p)]]
        BY <3>1 DEF WriteFile
      <4>3. QED
        BY <1>2, <2>4, <4>1, <4>2 DEF HandoffTypes, HandoffTypeOK
    <3>2. CASE ~WriteFile(p)
      BY <1>2, <1>4, <3>2 DEF Works, PersistRows, FilesDone, Bind, FetchBindings, Check, Checked, Break
    <3>3. QED
      BY <3>1, <3>2
  <2>7. QED
    BY <2>3, <2>5, <2>6
<1>5. QED
  BY <1>3, <1>4 DEF HandoffStep, Works

\* Of the commands that are busy with a request that never met another there is one.
LEMMA OneAlone ==
    ASSUME MeetingsAreKnown, NEW r \in Requests \ crossed, NEW p \in Processes, Touches(p, r),
           NEW q \in Processes, Touches(q, r)
    PROVE  p = q
  BY DEF MeetingsAreKnown

\* The row is in step with whoever writes it.
LEMMA RowStep ==
    ASSUME HandoffTypes, JobsFit, MeetingsAreKnown, MeetingsAreKnown', MismatchPends,
           PromotionsAreApart, RowIsInStep, NEW p \in Processes, HandoffStep(p)
    PROVE  RowIsInStep'
<1> DEFINE Held_(q, r) == row[r] = proc[q].rows[r] /\ (IsWritten(q, r) => file[r] = row[r])
           Even(r) == binding[r] = Nothing \/ row[r] = file[r]
<1>1. SUFFICES ASSUME NEW r \in Requests, r \notin broken', r \notin crossed'
               PROVE  /\ \A q \in Processes : Holds(q, r)' => Held_(q, r)'
                      /\ (\A q \in Processes : ~Holds(q, r)') => Even(r)'
  BY DEF RowIsInStep
<1>2. r \notin broken /\ r \notin crossed
  BY <1>1, BeginEffect, WorkEffect DEF HandoffStep, Works
<1>3. /\ \A q \in Processes : Holds(q, r) => Held_(q, r)
      /\ (\A q \in Processes : ~Holds(q, r)) => Even(r)
  BY <1>1, <1>2 DEF RowIsInStep
<1>4. \A q \in Processes : q # p => proc'[q] = proc[q]
  BY BeginEffect, WorkEffect DEF HandoffStep, Works, OnlyMoves
\* When the one that moves is busy with the request, nobody else is.
<1>5. ASSUME Touches(p, r) \/ Touches(p, r)' PROVE \A q \in Processes : Holds(q, r)' => q = p
  <2>1. ASSUME NEW q \in Processes, Holds(q, r)', q # p PROVE FALSE
    <3>1. Touches(q, r) /\ Touches(q, r)'
      BY <1>4, <2>1 DEF Holds, Touches, Busy, RequestsOf
    <3>2. CASE Touches(p, r)
      BY <1>2, <2>1, <3>1, <3>2, OneAlone
    <3>3. CASE Touches(p, r)'
      BY <1>1, <2>1, <3>1, <3>3 DEF MeetingsAreKnown
    <3>4. QED
      BY <1>5, <3>2, <3>3
  <2>2. QED
    BY <2>1
\* When it is not, or holds it neither before nor after, nothing has changed.
<1>6. ASSUME row'[r] = row[r], file'[r] = file[r], binding'[r] = binding[r],
             ~Holds(p, r), ~Holds(p, r)'
      PROVE  /\ \A q \in Processes : Holds(q, r)' => Held_(q, r)'
             /\ (\A q \in Processes : ~Holds(q, r)') => Even(r)'
  <2>1. \A q \in Processes : Holds(q, r)' <=> Holds(q, r)
    BY <1>4, <1>6 DEF Holds, Touches, Busy, RequestsOf, KindOf
  <2>2. ASSUME NEW q \in Processes, Holds(q, r)' PROVE Held_(q, r)'
    <3>1. q # p /\ Holds(q, r)
      BY <1>6, <2>1, <2>2
    <3>2. proc'[q] = proc[q]
      BY <1>4, <3>1
    <3>3. QED
      BY <1>3, <1>6, <3>1, <3>2 DEF IsWritten
  <2>3. QED
    BY <1>3, <1>6, <2>1, <2>2
<1>7. ASSUME NEW c \in Commands, Begin(p, c)
      PROVE  /\ \A q \in Processes : Holds(q, r)' => Held_(q, r)'
             /\ (\A q \in Processes : ~Holds(q, r)') => Even(r)'
  <2>1. /\ row' = row /\ file' = file /\ binding' = binding /\ ~Busy(p)
        /\ proc'[p].pc = First(c) /\ proc'[p].cmd = c /\ proc'[p].rows = RowsFor(c)
        /\ proc'[p].todo = Places(c, RowsFor(c))
        /\ OneSided(c) => DOMAIN RowsFor(c) \subseteq broken'
    BY <1>7, BeginEffect DEF OnlyMoves
  <2>2. ~Holds(p, r)
    BY <2>1 DEF Holds, Touches
  <2>3. CASE ~Holds(p, r)'
    BY <1>6, <2>1, <2>2, <2>3
  <2>4. CASE Holds(p, r)'
    <3>1. r \in DOMAIN RowsFor(c) /\ First(c) # "persist" /\ c.kind # "validate"
      BY <2>1, <2>4 DEF Holds, Touches, RequestsOf, KindOf
    <3>2. ~OneSided(c)
      BY <1>1, <2>1, <3>1
    <3>3. c.kind = "materialize" /\ First(c) = "files"
      <4>1. c.kind \in {"prepare", "materialize", "validate", "promote"}
            /\ c.persist \in BOOLEAN /\ c.write \in BOOLEAN
        BY HandoffAssumption
      <4>2. c.kind # "prepare"
        BY <3>1, <3>2, <4>1, FirstType, HandoffAssumption DEF OneSided
      <4>3. QED
        BY <3>1, <4>1, <4>2, FirstType
    <3>4. row'[r] = proc'[p].rows[r]
      BY <2>1, <3>1, <3>3, RowsForType
    <3>5. \E i \in proc'[p].todo : Batches[proc'[p].cmd.batch][i] = r
      BY <2>1, <3>1, RowsForType, PlacesType
    <3>6. ~IsWritten(p, r)'
      BY <2>1, <3>3, <3>5 DEF IsWritten
    <3>7. Touches(p, r)'
      BY <2>4 DEF Holds
    <3>8. QED
      BY <1>5, <2>4, <3>4, <3>6, <3>7
  <2>5. QED
    BY <2>3, <2>4
<1>8. ASSUME Works(p)
      PROVE  /\ \A q \in Processes : Holds(q, r)' => Held_(q, r)'
             /\ (\A q \in Processes : ~Holds(q, r)') => Even(r)'
  <2>1. PICK job : OnlyMoves(p, job) /\ Keeps(p, job) /\ NextJob(p, job)
    BY <1>8, WorkEffect
  <2>2. Busy(p) /\ proc[p] \in Job /\ RequestsOf(p) \subseteq Requests
    BY <1>8, WorkEffect, JobType
  <2>3. Touches(p, r)' => Touches(p, r)
    BY <2>1, <2>2, WorkGoesOn
  <2>4. CASE ~Touches(p, r)
    <3>1. ~Holds(p, r) /\ ~Holds(p, r)' /\ r \notin RequestsOf(p)
      BY <2>2, <2>3, <2>4 DEF Holds, Touches
    <3>2. row'[r] = row[r] /\ binding'[r] = binding[r]
      BY <1>8, <3>1 DEF Works, PersistRows, WriteFile, FilesDone, Bind, FetchBindings, Check,
                        Checked, Break
    <3>3. file'[r] = file[r]
      <4>1. CASE WriteFile(p)
        <5>1. At(p) # r
          BY <2>2, <3>1, <4>1, AtType DEF WriteFile
        <5>2. QED
          BY <4>1, <5>1 DEF WriteFile, HandoffTypes, HandoffTypeOK
      <4>2. CASE ~WriteFile(p)
        BY <1>8, <4>2 DEF Works, PersistRows, FilesDone, Bind, FetchBindings, Check, Checked, Break
      <4>3. QED
        BY <4>1, <4>2
    <3>4. QED
      BY <1>6, <3>1, <3>2, <3>3
  <2>5. CASE Touches(p, r)
    <3>1. \A q \in Processes : Holds(q, r)' => q = p
      BY <1>5, <2>5
    <3>2. SUFFICES /\ Holds(p, r)' => Held_(p, r)'
                   /\ ~Holds(p, r)' => Even(r)'
      BY <3>1
    <3>3. r \in RequestsOf(p) /\ proc'[p] = job
      BY <2>1, <2>5 DEF Touches, OnlyMoves
    <3>4. KindOf(p) \in {"prepare", "materialize"} => proc[p].cmd.write /\ proc[p].cmd.persist
      BY <1>2, <2>2, <3>3, TwoSides
    \* A command that does not validate and is beyond its rows holds the request.
    <3>5. proc[p].pc \in {"files", "bind", "check"} /\ KindOf(p) # "validate" => Held_(p, r)
      BY <1>3, <2>5 DEF Holds
    <3>6. CASE PersistRows(p)
      <4>1. /\ proc[p].pc = "persist" /\ file' = file /\ binding' = binding
            /\ row' = [q \in Requests |-> IF q \in RequestsOf(p) THEN proc[p].rows[q] ELSE row[q]]
            /\ proc' = MoveTo(p, AfterPersist(p))
        BY <3>6 DEF PersistRows, AfterPersist, KindOf
      <4>2. row'[r] = proc[p].rows[r]
        BY <3>3, <4>1
      <4>3. CASE KindOf(p) = "promote"
        <5>1. AfterPersist(p) = "end"
          BY <4>3 DEF AfterPersist
        <5>2. OnlyMoves(p, Moved(p, "end"))
          BY <2>2, <4>1, <5>1, MoveEffect
        <5>3. ~Touches(p, r)'
          BY <5>2 DEF OnlyMoves, Moved, Vacant, Touches, Busy
        <5>4. proc[p].cmd \in Commands /\ r \in Range(Batches[proc[p].cmd.batch])
          BY <2>2, <3>3 DEF Job, JobsFit
        <5>5. /\ proc[p].rows[r] = proc[p].cmd.batch
              /\ {row[r], file[r], binding[r]} \subseteq {proc[p].cmd.batch, Nothing}
          BY <2>5, <4>3, <5>4 DEF PromotionsAreApart, KindOf
        <5>6. file[r] = binding[r]
          <6>1. ~Pends(p, r)
            BY <4>1 DEF Pends
          <6>2. \A q \in Processes : Touches(q, r) => q = p
            BY <1>2, <2>5, OneAlone
          <6>3. QED
            BY <1>2, <6>1, <6>2 DEF MismatchPends
        <5>7. QED
          BY <4>1, <4>2, <5>3, <5>5, <5>6 DEF Holds
      <4>4. CASE KindOf(p) # "promote"
        <5>1. KindOf(p) = "prepare"
          BY <2>2, <4>1, <4>4 DEF JobsFit
        <5>2. AfterPersist(p) = "files"
          BY <3>4, <4>4, <5>1 DEF AfterPersist
        <5>3. OnlyMoves(p, Moved(p, "files"))
          BY <2>2, <4>1, <5>2, MoveEffect
        <5>4. /\ proc'[p].pc = "files" /\ proc'[p].rows = proc[p].rows /\ proc'[p].cmd = proc[p].cmd
              /\ proc'[p].todo = Places(proc[p].cmd, proc[p].rows)
          BY <2>2, <5>3, MovedType DEF OnlyMoves
        <5>5. \E i \in proc'[p].todo : Batches[proc'[p].cmd.batch][i] = r
          BY <2>2, <3>3, <5>4, HasPlace
        <5>6. ~IsWritten(p, r)'
          BY <5>4, <5>5 DEF IsWritten
        <5>7. Holds(p, r)'
          BY <2>5, <5>1, <5>4 DEF Holds, Touches, Busy, RequestsOf, KindOf
        <5>8. QED
          BY <4>2, <5>4, <5>6, <5>7
      <4>5. QED
        BY <4>3, <4>4
    <3>7. CASE WriteFile(p)
      <4>1. /\ proc[p].pc = "files" /\ proc[p].todo # {} /\ row' = row /\ binding' = binding
            /\ file' = [file EXCEPT ![At(p)] = proc[p].rows[At(p)]]
            /\ proc' = [proc EXCEPT ![p].todo = @ \ {Min(@)}]
        BY <3>7 DEF WriteFile
      <4>2. /\ proc'[p].pc = "files" /\ proc'[p].rows = proc[p].rows /\ proc'[p].cmd = proc[p].cmd
            /\ proc'[p].todo = proc[p].todo \ {Min(proc[p].todo)}
        BY <2>2, <4>1, LessEffect DEF OnlyMoves, Keeps
      <4>3. KindOf(p) # "validate"
        BY <2>2, <4>1 DEF JobsFit
      <4>4. Held_(p, r)
        BY <3>5, <4>1, <4>3
      <4>5. Holds(p, r)'
        BY <2>5, <4>2, <4>3 DEF Holds, Touches, Busy, RequestsOf, KindOf
      <4>6. IsWritten(p, r)' => file'[r] = row[r]
        <5>1. CASE r = At(p)
          <6>1. file'[r] = proc[p].rows[r]
            BY <4>1, <5>1 DEF HandoffTypes, HandoffTypeOK
          <6>2. QED
            BY <4>4, <6>1
        <5>2. CASE r # At(p)
          <6>1. file'[r] = file[r]
            BY <4>1, <5>2 DEF HandoffTypes, HandoffTypeOK
          <6>2. IsWritten(p, r)' => IsWritten(p, r)
            BY <4>1, <4>2, <5>2 DEF IsWritten, At
          <6>3. QED
            BY <4>4, <6>1, <6>2
        <5>3. QED
          BY <5>1, <5>2
      <4>7. QED
        BY <4>1, <4>2, <4>4, <4>5, <4>6
    <3>8. CASE FilesDone(p)
      <4>1. /\ proc[p].pc = "files" /\ proc[p].todo = {} /\ row' = row /\ file' = file
            /\ binding' = binding /\ proc' = MoveTo(p, AfterFiles(proc[p].cmd))
        BY <3>8 DEF FilesDone
      <4>2. KindOf(p) \in {"prepare", "materialize"}
        BY <2>2, <4>1 DEF JobsFit
      <4>3. AfterFiles(proc[p].cmd) = "bind"
        BY <3>4, <4>2 DEF AfterFiles
      <4>4. OnlyMoves(p, Moved(p, "bind"))
        BY <2>2, <4>1, <4>3, MoveEffect
      <4>5. proc'[p].pc = "bind" /\ proc'[p].rows = proc[p].rows /\ proc'[p].cmd = proc[p].cmd
        BY <2>2, <4>4, MovedType DEF OnlyMoves
      <4>6. Held_(p, r) /\ IsWritten(p, r)
        BY <3>5, <4>1, <4>2 DEF IsWritten
      <4>7. Holds(p, r)'
        BY <2>5, <4>2, <4>5 DEF Holds, Touches, Busy, RequestsOf, KindOf
      <4>8. QED
        BY <4>1, <4>5, <4>6, <4>7
    <3>9. CASE Bind(p)
      <4>1. /\ proc[p].pc = "bind" /\ row' = row /\ file' = file
            /\ proc' = MoveTo(p, AfterBind(proc[p].cmd))
        BY <3>9 DEF Bind
      <4>2. KindOf(p) \in {"prepare", "materialize"}
        BY <2>2, <4>1 DEF JobsFit
      <4>3. Held_(p, r) /\ IsWritten(p, r)
        BY <3>5, <4>1, <4>2 DEF IsWritten
      <4>4. Touches(p, r)' => proc'[p].rows = proc[p].rows
        BY <2>1, <2>2, WorkGoesOn
      <4>5. QED
        BY <4>1, <4>3, <4>4 DEF Holds
    <3>10. CASE FetchBindings(p) \/ Check(p) \/ Checked(p) \/ Break(p)
      <4>1. row' = row /\ file' = file /\ binding' = binding
        BY <3>10 DEF FetchBindings, Check, Checked, Break
      <4>2. Touches(p, r)' => proc'[p].rows = proc[p].rows /\ proc'[p].cmd = proc[p].cmd
        BY <2>1, <2>2, WorkGoesOn
      <4>3. CASE KindOf(p) = "validate"
        <5>1. ~Holds(p, r) /\ ~Holds(p, r)'
          BY <4>2, <4>3 DEF Holds, KindOf
        <5>2. (\A q \in Processes : ~Holds(q, r)') => Even(r)'
          BY <1>6, <4>1, <5>1
        <5>3. \A q \in Processes : ~Holds(q, r)'
          BY <3>1, <5>1
        <5>4. QED
          BY <5>1, <5>2, <5>3
      <4>4. CASE KindOf(p) # "validate"
        <5>1. ~FetchBindings(p) /\ ~Break(p)
          <6>1. ~FetchBindings(p)
            BY <2>2, <4>4 DEF FetchBindings, JobsFit
          <6>2. ~Break(p)
            BY <1>1, <3>3, <4>4 DEF Break, KindOf
          <6>3. QED
            BY <6>1, <6>2
        <5>2. proc[p].pc = "check"
          BY <3>10, <5>1 DEF Check, Checked
        <5>3. Held_(p, r) /\ IsWritten(p, r)
          BY <3>5, <4>4, <5>2 DEF IsWritten
        <5>4. QED
          BY <4>1, <4>2, <5>3 DEF Holds
      <4>5. QED
        BY <4>3, <4>4
    <3>11. QED
      BY <1>8, <3>6, <3>7, <3>8, <3>9, <3>10 DEF Works
  <2>6. QED
    BY <2>4, <2>5
<1>9. QED
  BY <1>7, <1>8 DEF HandoffStep, Works

-----------------------------------------------------------------------------
\* The invariant of the hand-off holds at the start,
LEMMA HandoffInitInvariant == HandoffInit => HandoffInv
<1> SUFFICES ASSUME HandoffInit PROVE HandoffInv
  OBVIOUS
<1>1. /\ row = [r \in Requests |-> Nothing] /\ file = row /\ binding = row
      /\ proc = [p \in Processes |-> Vacant] /\ broken = {} /\ crossed = {}
  BY DEF HandoffInit
<1>2. \A p \in Processes : ~Busy(p)
  BY <1>1 DEF Busy, Vacant
<1>3. \A p \in Processes, r \in Requests : ~Touches(p, r)
  BY <1>2 DEF Touches
<1>4. HandoffTypes
  BY <1>1 DEF HandoffTypes, HandoffTypeOK, Contents
<1>5. JobsFit /\ MeetingsAreKnown /\ MaterializedFirst
  BY <1>2, <1>3 DEF JobsFit, MeetingsAreKnown, MaterializedFirst
<1>6. MismatchPends /\ RowIsInStep
  BY <1>1, <1>3 DEF MismatchPends, RowIsInStep, Holds
<1>7. PromotionsAreApart
  <2>1. \A c \in Commands : Range(Batches[c.batch]) \subseteq Requests
    BY PlacesType
  <2>2. QED
    BY <1>1, <1>3, <2>1 DEF PromotionsAreApart
<1>8. QED
  BY <1>4, <1>5, <1>6, <1>7 DEF HandoffInv

\* and is inductive.
LEMMA HandoffStepInvariant == HandoffInv /\ [HandoffNext]_handoffVars => HandoffInv'
<1> SUFFICES ASSUME HandoffInv, [HandoffNext]_handoffVars PROVE HandoffInv'
  OBVIOUS
<1>1. ASSUME NEW p \in Processes, HandoffStep(p) PROVE HandoffInv'
  <2>1. HandoffTypes' /\ JobsFit' /\ MeetingsAreKnown' /\ MaterializedFirst'
    BY <1>1, HandoffTypeStep, FitStep, MeetingStep, MaterializedStep DEF HandoffInv
  <2>2. MismatchPends' /\ PromotionsAreApart'
    BY <1>1, MismatchStep, PromotionStep DEF HandoffInv
  <2>3. RowIsInStep'
    BY <1>1, <2>1, RowStep DEF HandoffInv
  <2>4. QED
    BY <2>1, <2>2, <2>3 DEF HandoffInv
<1>2. CASE UNCHANGED handoffVars
  BY <1>2 DEF handoffVars, HandoffInv, HandoffTypes, HandoffTypeOK, JobsFit, MeetingsAreKnown,
              MismatchPends, MaterializedFirst, RowIsInStep, PromotionsAreApart, Touches, Busy,
              RequestsOf, KindOf, Pends, IsWritten, Holds
<1>3. QED
  BY <1>1, <1>2 DEF HandoffNext

\* The inductive invariant of the requests between planning and dispatch, for any
\* batches, commands and processes (request_handoff.py, request_payloads.py).
THEOREM HandoffInvariant == HandoffSpec => []HandoffInv
  BY HandoffInitInvariant, HandoffStepInvariant, PTL DEF HandoffSpec

\* When nobody is busy with a request, its file is the one that is bound, unless a command
\* ended early, wrote one side or did not check; and its row is that of the file unless
\* two commands met.
LEMMA InvariantPlaces == HandoffInv => PlacesAgree
<1> SUFFICES ASSUME HandoffInv PROVE PlacesAgree
  OBVIOUS
<1>1. FileIsBound
  BY DEF HandoffInv, MismatchPends, FileIsBound, AtRest
<1>2. ASSUME NEW r \in Requests \ (broken \cup crossed), AtRest(r), binding[r] # Nothing
      PROVE  row[r] = file[r]
  BY <1>2 DEF HandoffInv, RowIsInStep, Holds, AtRest
<1>3. QED
  BY <1>1, <1>2 DEF PlacesAgree, RowIsOfTheFile

-----------------------------------------------------------------------------
(* CompletionRows: the state and the invariant.                               *)
Run == [status : Statuses, outputs : {0, 1}]
RunIds == Tasks \X (Nat \ {0})
Underway == [pc : {"runs", "artifacts", "signals"}, task : Tasks, receipt : Seq(Run)]

CompletionTypes ==
    /\ receipt \in [Tasks -> Seq(Run)] /\ mixed \subseteq Tasks
    /\ runs \subseteq [run : RunIds, status : {"succeeded", "partial", "failed", "blocked"}]
    /\ artifactRefs \subseteq [run : RunIds, number : Nat, lifecycle : {"active", "failed"}]
    /\ signals \subseteq [run : RunIds, status : {"ready", "partial", "failed", "blocked"},
                          refs : SUBSET Nat, created : Nat]
    /\ IsFiniteSet(signals) /\ \E b \in Nat : \A s \in signals : s.created <= b
    /\ recorder \in [Recorders -> {Free} \cup Underway]

\* The rows that a recorder has passed are there, those it replaces included.
HasRun(id) == \E m \in runs : m.run = id
HasArtifact(id, k) == \E a \in artifactRefs : a.run = id /\ a.number = k
RowsAreThere ==
    \A r \in Recorders : Recording(r) => \A n \in DOMAIN ReadReceipt(r) :
        LET id == RunOf(recorder[r].task, n)
        IN  /\ recorder[r].pc \in {"artifacts", "signals"} => HasRun(id)
            /\ recorder[r].pc = "signals" =>
                  \A k \in 0 .. ReadReceipt(r)[n].outputs : HasArtifact(id, k)

\* A receipt that is only appended to says of a run what was read of it and shown.
Says(id, status) ==
    id[2] \in DOMAIN receipt[id[1]] /\ status = ReadyStatus(receipt[id[1]][id[2]].status)
ReceiptsAreKept ==
    /\ \A r \in Recorders : Recording(r) /\ recorder[r].task \notin Rewritten =>
          \A n \in DOMAIN ReadReceipt(r) :
              /\ n \in DOMAIN receipt[recorder[r].task]
              /\ ReadReceipt(r)[n] = receipt[recorder[r].task][n]
    /\ \A s \in signals : s.run[1] \notin Rewritten => Says(s.run, s.status)
    /\ \A m \in runs : m.run[1] \notin Rewritten => m.run[2] \in DOMAIN receipt[m.run[1]]

TwoAreMixed ==
    \A q, r \in Recorders :
        q # r /\ Recording(q) /\ Recording(r) /\ recorder[q].task = recorder[r].task
            => recorder[r].task \in mixed

\* RowsOfARunAgree is not inductive: what a lone recorder has written is what it has read.
Agrees(m) ==
    \E s \in signals :
        /\ s.run = m.run
        /\ m.status = "succeeded" <=> s.status = "ready"
        /\ \A a \in artifactRefs : a.run = m.run /\ a.number \in s.refs
               => (a.lifecycle = "active" <=> s.status \in {"ready", "partial"})
Renews(r, m) ==
    /\ Recording(r) /\ recorder[r].task = m.run[1] /\ recorder[r].pc \in {"artifacts", "signals"}
    /\ m.run[2] \in DOMAIN ReadReceipt(r)
OthersAgree ==
    \A m \in runs : m.run[1] \notin mixed => Agrees(m) \/ \E r \in Recorders : Renews(r, m)
WrittenAsRead ==
    \A r \in Recorders : Recording(r) /\ recorder[r].task \notin mixed =>
        \A n \in DOMAIN ReadReceipt(r) :
            LET id == RunOf(recorder[r].task, n)
                run == ReadReceipt(r)[n]
            IN  /\ recorder[r].pc \in {"artifacts", "signals"} =>
                      \A m \in runs : m.run = id => m = ManifestRow(recorder[r].task, n, run)
                /\ recorder[r].pc = "signals" =>
                      \A a \in artifactRefs : a.run = id /\ a.number \in 0 .. run.outputs
                          => a.lifecycle = Lifecycle(run.status)

CompletionInv ==
    /\ CompletionTypes /\ SignalsHaveArtifacts /\ RowsAreThere /\ ReceiptsAreKept /\ TwoAreMixed
    /\ OthersAgree /\ WrittenAsRead

-----------------------------------------------------------------------------
(* CompletionRows: statuses, runs and what a step writes.                     *)
LEMMA StatusTypes ==
    /\ \A status \in Statuses : ReadyStatus(status) \in {"ready", "partial", "failed", "blocked"}
    /\ \A status \in Statuses : ReadyStatus(status) = "ready" <=> status = "succeeded"
    /\ \A status \in Statuses : Lifecycle(status) \in {"active", "failed"}
    /\ \A status \in Statuses :
          Lifecycle(status) = "active" <=> ReadyStatus(status) \in {"ready", "partial"}
  BY DEF Statuses, ReadyStatus, Lifecycle

\* A recorder at work, and the receipt it has read.
LEMMA UnderwayType ==
    ASSUME CompletionTypes, NEW r \in Recorders, Recording(r)
    PROVE  /\ recorder[r] \in Underway /\ recorder[r].task \in Tasks
           /\ ReadReceipt(r) \in Seq(Run)
           /\ DOMAIN ReadReceipt(r) = 1 .. Len(ReadReceipt(r)) /\ Len(ReadReceipt(r)) \in Nat
           /\ \A n \in DOMAIN ReadReceipt(r) :
                 /\ ReadReceipt(r)[n] \in Run
                 /\ ReadReceipt(r)[n].status \in Statuses
                 /\ RunOf(recorder[r].task, n) \in RunIds
                 /\ RunOf(recorder[r].task, n)[1] = recorder[r].task
                 /\ RunOf(recorder[r].task, n)[2] = n
<1>1. recorder[r] \in Underway
  BY DEF CompletionTypes, Recording, Free
<1>2. recorder[r].task \in Tasks /\ ReadReceipt(r) \in Seq(Run)
  BY <1>1 DEF Underway, ReadReceipt
<1>3. DOMAIN ReadReceipt(r) = 1 .. Len(ReadReceipt(r)) /\ Len(ReadReceipt(r)) \in Nat
  BY <1>2
<1>4. ASSUME NEW n \in DOMAIN ReadReceipt(r)
      PROVE  /\ ReadReceipt(r)[n] \in Run
             /\ ReadReceipt(r)[n].status \in Statuses
             /\ RunOf(recorder[r].task, n) \in RunIds
             /\ RunOf(recorder[r].task, n)[1] = recorder[r].task
             /\ RunOf(recorder[r].task, n)[2] = n
  <2>1. ReadReceipt(r)[n] \in Run
    BY <1>2
  <2>2. n \in Nat \ {0}
    BY <1>3
  <2>3. QED
    BY <1>2, <2>1, <2>2 DEF Run, RunOf, RunIds
<1>5. QED
  BY <1>1, <1>2, <1>3, <1>4

\* The runs that a recorder has read.
Mine(r, id) == \E n \in DOMAIN ReadReceipt(r) : id = RunOf(recorder[r].task, n)

\* What a recorder that writes a table does otherwise.
Others(r) == \A q \in Recorders : q # r => recorder'[q] = recorder[q]
GoesOn(r, pc) ==
    /\ Recording(r)' /\ recorder'[r].pc = pc /\ recorder'[r].task = recorder[r].task
    /\ recorder'[r].receipt = recorder[r].receipt
    /\ recorder' \in [Recorders -> {Free} \cup Underway] /\ Others(r)
GoesTo(r, t) ==
    /\ Recording(r)' /\ recorder'[r].pc = "runs" /\ recorder'[r].task = t
    /\ recorder'[r].receipt = receipt[t]
    /\ recorder' \in [Recorders -> {Free} \cup Underway] /\ Others(r)

\* What is written of the runs,
LEMMA RunsEffect ==
    ASSUME CompletionTypes, NEW r \in Recorders, PersistRuns(r)
    PROVE  /\ Recording(r) /\ recorder[r].pc = "runs" /\ GoesOn(r, "artifacts")
           /\ UNCHANGED <<receipt, artifactRefs, signals, written, mixed>>
           /\ \A n \in DOMAIN ReadReceipt(r) :
                 /\ ManifestRow(recorder[r].task, n, ReadReceipt(r)[n]) \in runs'
                 /\ ManifestRow(recorder[r].task, n, ReadReceipt(r)[n]).run
                       = RunOf(recorder[r].task, n)
           /\ \A m \in runs : Mine(r, m.run) \/ m \in runs'
           /\ \A m \in runs' :
                 \/ m \in runs /\ ~Mine(r, m.run)
                 \/ \E n \in DOMAIN ReadReceipt(r) :
                       m = ManifestRow(recorder[r].task, n, ReadReceipt(r)[n])
<1> DEFINE R == ReadReceipt(r)
           t == recorder[r].task
<1>1. Recording(r) /\ recorder[r].pc = "runs"
  BY DEF PersistRuns, Recording
<1>2. recorder' = [recorder EXCEPT ![r] = [recorder[r] EXCEPT !.pc = "artifacts"]]
  BY <1>1 DEF PersistRuns, Advance, After
<1>3. recorder[r] \in Underway /\ recorder \in [Recorders -> {Free} \cup Underway]
  BY <1>1, UnderwayType DEF CompletionTypes
<1>4. GoesOn(r, "artifacts")
  BY <1>2, <1>3 DEF GoesOn, Others, Underway, Recording
<1>5. \A n : ManifestRow(t, n, R[n]).run = RunOf(t, n)
  BY DEF ManifestRow
<1>6. runs' = Upsert(runs, ManifestRows(t, R))
  BY DEF PersistRuns
<1>7. \A m : m \in ManifestRows(t, R) <=> \E n \in DOMAIN R : m = ManifestRow(t, n, R[n])
  BY DEF ManifestRows
<1>8. \A m : m \in runs' <=>
                            \/ m \in ManifestRows(t, R)
                            \/ m \in runs /\ \A new \in ManifestRows(t, R) : new.run # m.run
  BY <1>6 DEF Upsert
<1>9. \A m \in runs : (\A new \in ManifestRows(t, R) : new.run # m.run) <=> ~Mine(r, m.run)
  BY <1>5, <1>7 DEF Mine
<1>10. \A n \in DOMAIN R : ManifestRow(t, n, R[n]) \in runs' /\ ManifestRow(t, n, R[n]).run = RunOf(t, n)
  BY <1>5, <1>7, <1>8
<1>11. UNCHANGED <<receipt, artifactRefs, signals, written, mixed>>
  BY DEF PersistRuns
<1>12. \A m \in runs : Mine(r, m.run) \/ m \in runs'
  BY <1>8, <1>9
<1>13. \A m \in runs' : \/ m \in runs /\ ~Mine(r, m.run)
                       \/ \E n \in DOMAIN R : m = ManifestRow(t, n, R[n])
  BY <1>7, <1>8, <1>9
<1>14. QED
  BY <1>1, <1>4, <1>10, <1>11, <1>12, <1>13 DEF R, t

\* of the artifacts,
LEMMA ArtifactsEffect ==
    ASSUME CompletionTypes, NEW r \in Recorders, PersistArtifacts(r)
    PROVE  /\ Recording(r) /\ recorder[r].pc = "artifacts" /\ GoesOn(r, "signals")
           /\ UNCHANGED <<receipt, runs, signals, written, mixed>>
           /\ \A n \in DOMAIN ReadReceipt(r) : \A k \in 0 .. ReadReceipt(r)[n].outputs : \A id :
                 id = RunOf(recorder[r].task, n) => HasArtifact(id, k)'
           /\ \A id, k : HasArtifact(id, k) => HasArtifact(id, k)'
           /\ \A a \in artifactRefs' :
                 \/ a \in artifactRefs /\ \A n \in DOMAIN ReadReceipt(r) :
                       a.run = RunOf(recorder[r].task, n)
                          => a.number \notin 0 .. ReadReceipt(r)[n].outputs
                 \/ \E n \in DOMAIN ReadReceipt(r) : \E k \in 0 .. ReadReceipt(r)[n].outputs :
                       a = ArtifactRow(recorder[r].task, n, ReadReceipt(r)[n], k)
<1> DEFINE R == ReadReceipt(r)
           t == recorder[r].task
           New == ArtifactRows(t, R)
<1>1. Recording(r) /\ recorder[r].pc = "artifacts"
  BY DEF PersistArtifacts, Recording
<1>2. recorder' = [recorder EXCEPT ![r] = [recorder[r] EXCEPT !.pc = "signals"]]
  BY <1>1 DEF PersistArtifacts, Advance, After
<1>3. recorder[r] \in Underway /\ recorder \in [Recorders -> {Free} \cup Underway]
  BY <1>1, UnderwayType DEF CompletionTypes
<1>4. GoesOn(r, "signals")
  BY <1>2, <1>3 DEF GoesOn, Others, Underway, Recording
<1>5. \A n, k : ArtifactRow(t, n, R[n], k).run = RunOf(t, n) /\ ArtifactRow(t, n, R[n], k).number = k
  BY DEF ArtifactRow
<1>6. artifactRefs' = UpsertArtifacts(artifactRefs, New)
  BY DEF PersistArtifacts
<1>7. \A a : a \in New <=> \E n \in DOMAIN R : \E k \in 0 .. R[n].outputs :
                              a = ArtifactRow(t, n, R[n], k)
  BY DEF ArtifactRows
<1>14. \A n \in DOMAIN R : \A k \in 0 .. R[n].outputs : ArtifactRow(t, n, R[n], k) \in New
  BY DEF ArtifactRows
<1>8. \A a : a \in artifactRefs' <=>
           \/ a \in New
           \/ a \in artifactRefs /\ \A new \in New : new.run # a.run \/ new.number # a.number
  BY <1>6 DEF UpsertArtifacts
<1>9. UNCHANGED <<receipt, runs, signals, written, mixed>>
  BY DEF PersistArtifacts
<1>10. \A n \in DOMAIN R : \A k \in 0 .. R[n].outputs : \A id :
          id = RunOf(t, n) => HasArtifact(id, k)'
  <2>1. ASSUME NEW n \in DOMAIN R, NEW k \in 0 .. R[n].outputs, NEW id, id = RunOf(t, n)
        PROVE  HasArtifact(id, k)'
    <3>1. PICK new \in New : new = ArtifactRow(t, n, R[n], k)
      BY <1>14
    <3>2. new \in artifactRefs'
      BY <1>8
    <3>3. new.run = id /\ new.number = k
      BY <1>5, <2>1, <3>1
    <3>4. QED
      BY <3>2, <3>3 DEF HasArtifact
  <2>2. QED
    BY <2>1
<1>11. ASSUME NEW id, NEW k, HasArtifact(id, k) PROVE HasArtifact(id, k)'
  <2>1. PICK a \in artifactRefs : a.run = id /\ a.number = k
    BY <1>11 DEF HasArtifact
  <2>2. CASE a \in artifactRefs'
    BY <2>1, <2>2 DEF HasArtifact
  <2>3. CASE a \notin artifactRefs'
    <3>1. PICK new \in New : new.run = a.run /\ new.number = a.number
      BY <1>8, <2>3
    <3>2. new \in artifactRefs'
      BY <1>8
    <3>3. QED
      BY <2>1, <3>1, <3>2 DEF HasArtifact
  <2>4. QED
    BY <2>2, <2>3
<1>12. ASSUME NEW a \in artifactRefs'
       PROVE  \/ a \in artifactRefs /\ \A n \in DOMAIN R : a.run = RunOf(t, n) => a.number \notin 0 .. R[n].outputs
              \/ \E n \in DOMAIN R : \E k \in 0 .. R[n].outputs : a = ArtifactRow(t, n, R[n], k)
  <2>1. CASE a \in New
    BY <1>7, <2>1
  <2>2. CASE a \notin New
    <3>1. a \in artifactRefs /\ \A new \in New : new.run # a.run \/ new.number # a.number
      BY <1>8, <2>2
    <3>2. \A n \in DOMAIN R : a.run = RunOf(t, n) => a.number \notin 0 .. R[n].outputs
      BY <1>5, <1>14, <3>1
    <3>3. QED
      BY <3>1, <3>2
  <2>3. QED
    BY <2>1, <2>2
<1>15. QED
  BY <1>1, <1>4, <1>9, <1>10, <1>11, <1>12 DEF R, t

\* and of the signals.
LEMMA SignalsEffect ==
    ASSUME CompletionTypes, NEW r \in Recorders, PersistSignals(r)
    PROVE  /\ Recording(r) /\ recorder[r].pc = "signals"
           /\ recorder' = [recorder EXCEPT ![r] = Free] /\ ~Recording(r)' /\ Others(r)
           /\ UNCHANGED <<receipt, runs, artifactRefs, written, mixed>>
           /\ \A n \in DOMAIN ReadReceipt(r) :
                 SignalRow(recorder[r].task, n, ReadReceipt(r)[n], Created(RunOf(recorder[r].task, n)))
                    \in signals'
           /\ \A s \in signals : Mine(r, s.run) \/ s \in signals'
           /\ \A s \in signals' :
                 \/ s \in signals /\ ~Mine(r, s.run)
                 \/ \E n \in DOMAIN ReadReceipt(r) :
                       s = SignalRow(recorder[r].task, n, ReadReceipt(r)[n],
                                     Created(RunOf(recorder[r].task, n)))
<1> DEFINE R == ReadReceipt(r)
           t == recorder[r].task
           Row(n) == SignalRow(t, n, R[n], Created(RunOf(t, n)))
<1>1. Recording(r) /\ recorder[r].pc = "signals"
  BY DEF PersistSignals, Recording
<1>2. recorder' = [recorder EXCEPT ![r] = Free]
  BY <1>1 DEF PersistSignals, Advance, After
<1>3. recorder \in [Recorders -> {Free} \cup Underway]
  BY DEF CompletionTypes
<1>4. ~Recording(r)' /\ Others(r)
  BY <1>2, <1>3 DEF Others, Recording, Free
<1>5. \A n : Row(n).run = RunOf(t, n)
  BY DEF SignalRow
<1>6. signals' = Upsert(signals, SignalRows(t, R))
  BY DEF PersistSignals
<1>7. \A s : s \in SignalRows(t, R) <=> \E n \in DOMAIN R : s = Row(n)
  BY DEF SignalRows
<1>15. \A n \in DOMAIN R : Row(n) \in SignalRows(t, R)
  BY DEF SignalRows
<1>8. UNCHANGED <<receipt, runs, artifactRefs, written, mixed>>
  BY DEF PersistSignals
<1>9. \A s : s \in signals' <=>
                               \/ s \in SignalRows(t, R)
                               \/ s \in signals /\ \A new \in SignalRows(t, R) : new.run # s.run
  BY <1>6 DEF Upsert
<1>10. \A s \in signals : (\A new \in SignalRows(t, R) : new.run # s.run) <=> ~Mine(r, s.run)
  BY <1>5, <1>7 DEF Mine
<1>11. \A n \in DOMAIN R : Row(n) \in signals'
  BY <1>9, <1>15
<1>12. \A s \in signals : Mine(r, s.run) \/ s \in signals'
  BY <1>9, <1>10
<1>13. \A s \in signals' : \/ s \in signals /\ ~Mine(r, s.run)
                          \/ \E n \in DOMAIN R : s = Row(n)
  BY <1>7, <1>9, <1>10
<1>14. QED
  BY <1>1, <1>2, <1>4, <1>8, <1>11, <1>12, <1>13 DEF R, t, Row

\* What a recorder that begins changes,
LEMMA LoadEffect ==
    ASSUME CompletionTypes, NEW r \in Recorders, NEW t \in Tasks, Load(r, t)
    PROVE  /\ ~Recording(r) /\ GoesTo(r, t)
           /\ mixed' = IF RecordsOf(t) = {} THEN mixed ELSE mixed \cup {t}
           /\ UNCHANGED <<receipt, runs, artifactRefs, signals>>
<1>1. /\ ~Recording(r) /\ receipt[t] \in Seq(Run)
      /\ recorder' = [recorder EXCEPT ![r] = [pc |-> "runs", task |-> t, receipt |-> receipt[t]]]
      /\ mixed' = IF RecordsOf(t) = {} THEN mixed ELSE mixed \cup {t}
      /\ UNCHANGED <<receipt, runs, artifactRefs, signals>>
  BY DEF Load, CompletionTypes
<1>2. recorder \in [Recorders -> {Free} \cup Underway]
  BY DEF CompletionTypes
<1>3. [pc |-> "runs", task |-> t, receipt |-> receipt[t]] \in Underway
  BY <1>1 DEF Underway
<1>4. QED
  BY <1>1, <1>2, <1>3 DEF GoesTo, Others, Recording

\* one that gives up,
LEMMA GiveUpEffect ==
    ASSUME CompletionTypes, NEW r \in Recorders, GiveUp(r)
    PROVE  /\ Recording(r) /\ recorder' = [recorder EXCEPT ![r] = Free] /\ ~Recording(r)' /\ Others(r)
           /\ mixed' = mixed \cup {recorder[r].task}
           /\ UNCHANGED <<receipt, runs, artifactRefs, signals>>
<1>1. recorder \in [Recorders -> {Free} \cup Underway]
  BY DEF CompletionTypes
<1>2. QED
  BY <1>1 DEF GiveUp, Others, Recording, Free

\* and a run that is written.
LEMMA WriteEffect ==
    ASSUME CompletionTypes, NEW t \in Tasks, NEW status \in Statuses, WriteRun(t, status)
    PROVE  /\ UNCHANGED <<runs, artifactRefs, signals, recorder, mixed>>
           /\ receipt' \in [Tasks -> Seq(Run)]
           /\ \A u \in Tasks \ Rewritten : \A n \in DOMAIN receipt[u] :
                 n \in DOMAIN receipt'[u] /\ receipt'[u][n] = receipt[u][n]
<1> DEFINE run == [status |-> status,
                   outputs |-> IF status \in {"succeeded", "partial"} THEN 1 ELSE 0]
           next == IF t \in Rewritten THEN <<run>> ELSE Append(receipt[t], run)
<1>1. run \in Run
  BY DEF Run
<1> HIDE DEF run
<1>2. receipt \in [Tasks -> Seq(Run)] /\ receipt[t] \in Seq(Run)
  BY DEF CompletionTypes
<1>3. <<run>> \in Seq(Run) /\ Append(receipt[t], run) \in Seq(Run)
  BY <1>1, <1>2
<1>4. /\ receipt' = [receipt EXCEPT ![t] = IF t \in Rewritten THEN <<run>> ELSE Append(@, run)]
      /\ UNCHANGED <<runs, artifactRefs, signals, recorder, mixed>>
  BY DEF WriteRun, run
<1>5. next \in Seq(Run)
  BY <1>3
<1>6. receipt' = [receipt EXCEPT ![t] = next]
  BY <1>4
<1>7. t \notin Rewritten => \A n \in DOMAIN receipt[t] : n \in DOMAIN next /\ next[n] = receipt[t][n]
  BY <1>1, <1>2
<1> HIDE DEF next
<1>8. receipt' \in [Tasks -> Seq(Run)] /\ receipt'[t] = next
  BY <1>2, <1>5, <1>6
<1>9. \A u \in Tasks : u # t => receipt'[u] = receipt[u]
  BY <1>2, <1>6
<1>10. QED
  BY <1>4, <1>7, <1>8, <1>9

\* A finite number of rows is written at a time.
LEMMA FewRows ==
    ASSUME NEW n \in Nat, NEW f, NEW S, S = {f[k] : k \in 1 .. n}
    PROVE  IsFiniteSet(S)
<1> DEFINE g == [k \in 1 .. n |-> f[k]]
<1>1. g \in Surjection(1 .. n, S)
  BY DEF Surjection
<1>2. IsFiniteSet(1 .. n)
  BY FS_Interval
<1>3. QED
  BY <1>1, <1>2, FS_Surjection

\* The signals that are there can be numbered on.
LEMMA SignalsAreFinite ==
    ASSUME CompletionTypes, NEW r \in Recorders, PersistSignals(r)
    PROVE  /\ IsFiniteSet(signals')
           /\ \A id : Created(id) \in Nat
           /\ \E b \in Nat : \A s \in signals' : s.created <= b
<1> DEFINE R == ReadReceipt(r)
           t == recorder[r].task
           f == [n \in 1 .. Len(R) |-> SignalRow(t, n, R[n], Created(RunOf(t, n)))]
           S == {f[n] : n \in 1 .. Len(R)}
<1>1. /\ \A s \in signals' : s \in signals \/ \E n \in DOMAIN R :
            s = SignalRow(t, n, R[n], Created(RunOf(t, n)))
      /\ Recording(r)
  BY SignalsEffect
<1>2. DOMAIN R = 1 .. Len(R) /\ Len(R) \in Nat
  BY <1>1, UnderwayType
<1>3. \A n \in DOMAIN R : SignalRow(t, n, R[n], Created(RunOf(t, n))) \in S
  BY <1>2
<1>4. IsFiniteSet(S)
  <2> HIDE DEF R, f
  <2>1. QED
    BY <1>2, FewRows
<1> HIDE DEF S
<1>5. signals' \subseteq signals \cup S
  BY <1>1, <1>3
<1>6. IsFiniteSet(signals) /\ Cardinality(signals) \in Nat
  BY FS_CardinalityType DEF CompletionTypes
<1>7. IsFiniteSet(signals')
  <2>1. IsFiniteSet(signals \cup S)
    BY <1>4, <1>6, FS_Union
  <2>2. QED
    BY <1>5, <2>1, FS_Subset
<1>8. PICK b \in Nat : \A s \in signals : s.created <= b
  BY DEF CompletionTypes
<1>9. \A s \in signals : s.created \in Nat
  BY DEF CompletionTypes
<1>10. ASSUME NEW id PROVE Created(id) \in Nat /\ Created(id) <= b + Cardinality(signals)
  <2>1. CASE \E s \in signals : s.run = id
    <3>1. (CHOOSE s \in signals : s.run = id) \in signals
      BY <2>1
    <3>2. QED
      BY <1>6, <1>8, <1>9, <2>1, <3>1 DEF Created
  <2>2. CASE ~\E s \in signals : s.run = id
    BY <1>6, <2>2 DEF Created
  <2>3. QED
    BY <2>1, <2>2
<1>11. \A s \in signals' : s.created <= b + Cardinality(signals)
  <2>1. ASSUME NEW s \in signals' PROVE s.created <= b + Cardinality(signals)
    <3>1. CASE s \in signals
      BY <1>6, <1>8, <1>9, <3>1
    <3>2. CASE s \notin signals
      <4>1. PICK n \in DOMAIN R : s = SignalRow(t, n, R[n], Created(RunOf(t, n)))
        BY <1>1, <3>2
      <4>2. s.created = Created(RunOf(t, n))
        BY <4>1 DEF SignalRow
      <4>3. QED
        BY <1>10, <4>2
    <3>3. QED
      BY <3>1, <3>2
  <2>2. QED
    BY <2>1
<1>12. b + Cardinality(signals) \in Nat
  BY <1>6
<1>13. QED
  BY <1>7, <1>10, <1>11, <1>12

\* Every step keeps the types.
LEMMA CompletionTypeStep ==
    ASSUME CompletionTypes, CompletionNext
    PROVE  CompletionTypes'
<1>1. ASSUME NEW t \in Tasks, NEW status \in Statuses, WriteRun(t, status) PROVE CompletionTypes'
  BY <1>1, WriteEffect DEF CompletionTypes
<1>2. ASSUME NEW r \in Recorders, RecorderStep(r) PROVE CompletionTypes'
  <2>1. ASSUME NEW t \in Tasks, Load(r, t) PROVE CompletionTypes'
    BY <2>1, LoadEffect DEF CompletionTypes, GoesTo
  <2>2. CASE GiveUp(r)
    <3>1. recorder[r].task \in Tasks /\ recorder' \in [Recorders -> {Free} \cup Underway]
      BY <2>2, GiveUpEffect, UnderwayType DEF CompletionTypes
    <3>2. QED
      BY <2>2, <3>1, GiveUpEffect DEF CompletionTypes
  <2>3. CASE PersistRuns(r)
    <3>1. \A n \in DOMAIN ReadReceipt(r) : ManifestRow(recorder[r].task, n, ReadReceipt(r)[n])
              \in [run : RunIds, status : {"succeeded", "partial", "failed", "blocked"}]
      <4>1. ASSUME NEW n \in DOMAIN ReadReceipt(r)
            PROVE  ManifestRow(recorder[r].task, n, ReadReceipt(r)[n])
                      \in [run : RunIds, status : {"succeeded", "partial", "failed", "blocked"}]
        <5>1. RunOf(recorder[r].task, n) \in RunIds /\ ReadReceipt(r)[n].status \in Statuses
          BY <2>3, RunsEffect, UnderwayType
        <5>2. QED
          BY <5>1, StatusTypes DEF ManifestRow
      <4>2. QED
        BY <4>1
    <3>2. runs' \subseteq [run : RunIds, status : {"succeeded", "partial", "failed", "blocked"}]
      BY <2>3, <3>1, RunsEffect DEF CompletionTypes
    <3>3. QED
      BY <2>3, <3>2, RunsEffect DEF CompletionTypes, GoesOn
  <2>4. CASE PersistArtifacts(r)
    <3>1. ASSUME NEW n \in DOMAIN ReadReceipt(r), NEW k \in 0 .. ReadReceipt(r)[n].outputs
          PROVE  ArtifactRow(recorder[r].task, n, ReadReceipt(r)[n], k)
                    \in [run : RunIds, number : Nat, lifecycle : {"active", "failed"}]
      <4>1. /\ RunOf(recorder[r].task, n) \in RunIds /\ ReadReceipt(r)[n].status \in Statuses
            /\ ReadReceipt(r)[n] \in Run
        BY <2>4, ArtifactsEffect, UnderwayType
      <4>2. k \in Nat
        BY <4>1 DEF Run
      <4>3. QED
        BY <4>1, <4>2, StatusTypes DEF ArtifactRow
    <3>2. artifactRefs' \subseteq [run : RunIds, number : Nat, lifecycle : {"active", "failed"}]
      BY <2>4, <3>1, ArtifactsEffect DEF CompletionTypes
    <3>3. QED
      BY <2>4, <3>2, ArtifactsEffect DEF CompletionTypes, GoesOn
  <2>5. CASE PersistSignals(r)
    <3>1. ASSUME NEW n \in DOMAIN ReadReceipt(r), NEW c \in Nat
          PROVE  SignalRow(recorder[r].task, n, ReadReceipt(r)[n], c)
                    \in [run : RunIds, status : {"ready", "partial", "failed", "blocked"},
                         refs : SUBSET Nat, created : Nat]
      <4>1. /\ RunOf(recorder[r].task, n) \in RunIds /\ ReadReceipt(r)[n].status \in Statuses
            /\ ReadReceipt(r)[n] \in Run
        BY <2>5, SignalsEffect, UnderwayType
      <4>2. 0 .. ReadReceipt(r)[n].outputs \in SUBSET Nat
        BY <4>1 DEF Run
      <4>3. QED
        BY <4>1, <4>2, StatusTypes DEF SignalRow
    <3>2. signals' \subseteq [run : RunIds, status : {"ready", "partial", "failed", "blocked"},
                              refs : SUBSET Nat, created : Nat]
      BY <2>5, <3>1, SignalsEffect, SignalsAreFinite DEF CompletionTypes
    <3>3. recorder' \in [Recorders -> {Free} \cup Underway]
      BY <2>5, SignalsEffect DEF CompletionTypes
    <3>4. QED
      BY <2>5, <3>2, <3>3, SignalsEffect, SignalsAreFinite DEF CompletionTypes
  <2>6. QED
    BY <1>2, <2>1, <2>2, <2>3, <2>4, <2>5 DEF RecorderStep
<1>3. QED
  BY <1>1, <1>2 DEF CompletionNext

\* A step leaves the recorders but one as they are; none of theirs is changed.
LEMMA OnlyOneMoves ==
    ASSUME CompletionTypes, NEW r \in Recorders, RecorderStep(r)
    PROVE  Others(r) /\ receipt' = receipt
  BY LoadEffect, GiveUpEffect, RunsEffect, ArtifactsEffect, SignalsEffect
     DEF RecorderStep, GoesTo, GoesOn

\* Two recorders of the same task are known as mixed.
LEMMA TwoStep ==
    ASSUME CompletionTypes, TwoAreMixed, CompletionNext
    PROVE  TwoAreMixed'
<1>1. ASSUME NEW t \in Tasks, NEW status \in Statuses, WriteRun(t, status) PROVE TwoAreMixed'
  BY <1>1, WriteEffect DEF TwoAreMixed, Recording
<1>2. ASSUME NEW r \in Recorders, RecorderStep(r) PROVE TwoAreMixed'
  <2>1. CASE PersistRuns(r) \/ PersistArtifacts(r)
    BY <2>1, RunsEffect, ArtifactsEffect DEF TwoAreMixed, GoesOn, Others, Recording
  <2>2. CASE PersistSignals(r) \/ GiveUp(r)
    BY <2>2, SignalsEffect, GiveUpEffect DEF TwoAreMixed, Others, Recording
  <2>3. ASSUME NEW t \in Tasks, Load(r, t) PROVE TwoAreMixed'
    <3>1. ASSUME NEW q \in Recorders, q # r, Recording(q), recorder[q].task = t PROVE t \in mixed'
      BY <2>3, <3>1, LoadEffect DEF RecordsOf
    <3>2. mixed \subseteq mixed' /\ Others(r) /\ recorder'[r].task = t
      BY <2>3, LoadEffect DEF GoesTo
    <3>3. QED
      BY <3>1, <3>2 DEF TwoAreMixed, Others, Recording
  <2>4. QED
    BY <1>2, <2>1, <2>2, <2>3 DEF RecorderStep
<1>3. QED
  BY <1>1, <1>2 DEF CompletionNext

\* Who else records the task of a recorder, when nobody should.
LEMMA AloneWithIt ==
    ASSUME TwoAreMixed, NEW q \in Recorders, NEW r \in Recorders, q # r, Recording(q), Recording(r),
           recorder[q].task \notin mixed
    PROVE  recorder[q].task # recorder[r].task
  BY DEF TwoAreMixed

\* The rows of another task are not touched.
LEMMA NotMine ==
    ASSUME CompletionTypes, NEW r \in Recorders, Recording(r), NEW id, id[1] # recorder[r].task
    PROVE  ~Mine(r, id)
  BY UnderwayType DEF Mine

\* A run that has its row keeps it.
LEMMA RunsStay ==
    ASSUME CompletionTypes, NEW r \in Recorders, PersistRuns(r), NEW id, HasRun(id)
    PROVE  HasRun(id)'
<1>1. PICK m \in runs : m.run = id
  BY DEF HasRun
<1>2. CASE Mine(r, id)
  BY <1>2, RunsEffect DEF Mine, HasRun
<1>3. CASE ~Mine(r, id)
  BY <1>1, <1>3, RunsEffect DEF HasRun
<1>4. QED
  BY <1>2, <1>3

\* What a recorder has written is there.
LEMMA ThereStep ==
    ASSUME CompletionTypes, RowsAreThere, CompletionNext
    PROVE  RowsAreThere'
<1>1. ASSUME NEW t \in Tasks, NEW status \in Statuses, WriteRun(t, status) PROVE RowsAreThere'
  BY <1>1, WriteEffect DEF RowsAreThere, Recording, ReadReceipt, HasRun, HasArtifact
<1>2. ASSUME NEW r \in Recorders, RecorderStep(r) PROVE RowsAreThere'
  <2> DEFINE There(q) ==
                 \A n \in DOMAIN ReadReceipt(q) : \A id : id = RunOf(recorder[q].task, n) =>
                     /\ recorder[q].pc \in {"artifacts", "signals"} => HasRun(id)
                     /\ recorder[q].pc = "signals" =>
                           \A k \in 0 .. ReadReceipt(q)[n].outputs : HasArtifact(id, k)
  <2>1. \A q \in Recorders : Recording(q) => There(q)
    BY DEF RowsAreThere
  <2>2. SUFFICES ASSUME NEW q \in Recorders, Recording(q)' PROVE There(q)'
    BY DEF RowsAreThere
  <2>3. (\A id : HasRun(id) => HasRun(id)') /\ (\A id, k : HasArtifact(id, k) => HasArtifact(id, k)')
    <3>1. CASE PersistRuns(r)
      BY <3>1, RunsStay, RunsEffect DEF HasArtifact
    <3>2. CASE PersistArtifacts(r)
      <4>1. runs' = runs
        BY <3>2, ArtifactsEffect
      <4>2. \A id, k : HasArtifact(id, k) => HasArtifact(id, k)'
        BY <3>2, ArtifactsEffect
      <4>3. QED
        BY <4>1, <4>2 DEF HasRun
    <3>3. CASE ~PersistRuns(r) /\ ~PersistArtifacts(r)
      <4>1. runs' = runs /\ artifactRefs' = artifactRefs
        BY <1>2, <3>3, LoadEffect, GiveUpEffect, SignalsEffect DEF RecorderStep
      <4>2. QED
        BY <4>1 DEF HasRun, HasArtifact
    <3>4. QED
      BY <3>1, <3>2, <3>3
  <2>4. CASE q # r
    <3>1. recorder'[q] = recorder[q] /\ Recording(q)
      BY <1>2, <2>2, <2>4, OnlyOneMoves DEF Others, Recording
    <3>2. ReadReceipt(q)' = ReadReceipt(q) /\ There(q)
      BY <2>1, <3>1 DEF ReadReceipt
    <3>3. QED
      BY <2>3, <3>1, <3>2
  <2>5. CASE q = r
    <3>1. CASE PersistRuns(r)
      <4>1. /\ recorder'[r].pc = "artifacts" /\ recorder'[r].task = recorder[r].task
            /\ ReadReceipt(r)' = ReadReceipt(r)
        BY <3>1, RunsEffect DEF GoesOn, ReadReceipt
      <4>2. \A n \in DOMAIN ReadReceipt(r) : \A id : id = RunOf(recorder[r].task, n) => HasRun(id)'
        BY <3>1, RunsEffect DEF HasRun
      <4>3. QED
        BY <2>5, <4>1, <4>2
    <3>2. CASE PersistArtifacts(r)
      <4>1. /\ recorder'[r].pc = "signals" /\ recorder'[r].task = recorder[r].task
            /\ ReadReceipt(r)' = ReadReceipt(r)
            /\ Recording(r) /\ recorder[r].pc = "artifacts"
        BY <3>2, ArtifactsEffect DEF GoesOn, ReadReceipt
      <4>2. \A n \in DOMAIN ReadReceipt(r) : \A id : id = RunOf(recorder[r].task, n) => HasRun(id)'
        BY <2>1, <2>3, <4>1
      <4>3. \A n \in DOMAIN ReadReceipt(r) : \A k \in 0 .. ReadReceipt(r)[n].outputs : \A id :
               id = RunOf(recorder[r].task, n) => HasArtifact(id, k)'
        BY <3>2, ArtifactsEffect
      <4>4. QED
        BY <2>5, <4>1, <4>2, <4>3
    <3>3. CASE ~PersistRuns(r) /\ ~PersistArtifacts(r)
      <4>1. PICK t \in Tasks : Load(r, t)
        BY <1>2, <2>2, <2>5, <3>3, GiveUpEffect, SignalsEffect DEF RecorderStep
      <4>2. recorder'[r].pc = "runs"
        BY <4>1, LoadEffect DEF GoesTo
      <4>3. QED
        BY <2>5, <4>2
    <3>4. QED
      BY <3>1, <3>2, <3>3
  <2>6. QED
    BY <2>4, <2>5
<1>3. QED
  BY <1>1, <1>2 DEF CompletionNext

\* A signal has its run and its artifacts.
LEMMA SignalStep ==
    ASSUME CompletionTypes, RowsAreThere, SignalsHaveArtifacts, CompletionNext
    PROVE  SignalsHaveArtifacts'
<1> DEFINE HasBoth(s) == HasRun(s.run) /\ \A k \in s.refs : HasArtifact(s.run, k)
<1>1. \A s \in signals : HasBoth(s)
  BY DEF SignalsHaveArtifacts, HasRun, HasArtifact
<1>2. (\A s \in signals' : HasBoth(s)') => SignalsHaveArtifacts'
  BY DEF SignalsHaveArtifacts, HasRun, HasArtifact
<1>3. ASSUME NEW t \in Tasks, NEW status \in Statuses, WriteRun(t, status) PROVE SignalsHaveArtifacts'
  BY <1>3, WriteEffect DEF SignalsHaveArtifacts
<1>4. ASSUME NEW r \in Recorders, RecorderStep(r) PROVE SignalsHaveArtifacts'
  <2>1. CASE PersistRuns(r)
    <3>1. signals' = signals /\ \A id, k : HasArtifact(id, k) => HasArtifact(id, k)'
      BY <2>1, RunsEffect DEF HasArtifact
    <3>2. \A id : HasRun(id) => HasRun(id)'
      BY <2>1, RunsStay
    <3>3. QED
      BY <1>1, <1>2, <3>1, <3>2
  <2>2. CASE PersistArtifacts(r)
    <3>1. signals' = signals /\ runs' = runs /\ \A id, k : HasArtifact(id, k) => HasArtifact(id, k)'
      BY <2>2, ArtifactsEffect
    <3>2. \A id : HasRun(id) => HasRun(id)'
      BY <3>1 DEF HasRun
    <3>3. QED
      BY <1>1, <1>2, <3>1, <3>2
  <2>3. CASE PersistSignals(r)
    <3>1. /\ runs' = runs /\ artifactRefs' = artifactRefs
          /\ \A s \in signals' : s \in signals \/ \E n \in DOMAIN ReadReceipt(r) :
                s = SignalRow(recorder[r].task, n, ReadReceipt(r)[n], Created(RunOf(recorder[r].task, n)))
      BY <2>3, SignalsEffect
    <3>2. ASSUME NEW n \in DOMAIN ReadReceipt(r), NEW c
          PROVE  HasBoth(SignalRow(recorder[r].task, n, ReadReceipt(r)[n], c))
      <4>1. Recording(r) /\ recorder[r].pc = "signals"
        BY <2>3, SignalsEffect
      <4>2. HasRun(RunOf(recorder[r].task, n))
            /\ \A k \in 0 .. ReadReceipt(r)[n].outputs : HasArtifact(RunOf(recorder[r].task, n), k)
        BY <4>1 DEF RowsAreThere
      <4>3. QED
        BY <4>2 DEF SignalRow
    <3>3. \A s \in signals' : HasBoth(s)
      BY <1>1, <3>1, <3>2
    <3>4. QED
      BY <1>2, <3>1, <3>3 DEF HasRun, HasArtifact
  <2>4. CASE ~PersistRuns(r) /\ ~PersistArtifacts(r) /\ ~PersistSignals(r)
    <3>1. UNCHANGED <<runs, artifactRefs, signals>>
      BY <1>4, <2>4, LoadEffect, GiveUpEffect DEF RecorderStep
    <3>2. QED
      BY <3>1 DEF SignalsHaveArtifacts
  <2>5. QED
    BY <2>1, <2>2, <2>3, <2>4
<1>5. QED
  BY <1>3, <1>4 DEF CompletionNext

\* A receipt is as it was read, unless it is rewritten.
LEMMA KeptStep ==
    ASSUME CompletionTypes, ReceiptsAreKept, CompletionNext
    PROVE  ReceiptsAreKept'
<1> DEFINE Kept(q) ==
               Recording(q) /\ recorder[q].task \notin Rewritten =>
                   \A n \in DOMAIN ReadReceipt(q) :
                       /\ n \in DOMAIN receipt[recorder[q].task]
                       /\ ReadReceipt(q)[n] = receipt[recorder[q].task][n]
           Told(s) == s.run[1] \notin Rewritten => Says(s.run, s.status)
           Known(m) == m.run[1] \notin Rewritten => m.run[2] \in DOMAIN receipt[m.run[1]]
<1>1. /\ \A q \in Recorders : Kept(q)
      /\ \A s \in signals : Told(s)
      /\ \A m \in runs : Known(m)
  BY DEF ReceiptsAreKept
<1>2. SUFFICES /\ \A q \in Recorders : Kept(q)'
               /\ \A s \in signals' : Told(s)'
               /\ \A m \in runs' : Known(m)'
  BY DEF ReceiptsAreKept
<1>3. /\ \A s \in signals : s.run[1] \in Tasks
      /\ \A m \in runs : m.run[1] \in Tasks
  BY DEF CompletionTypes, RunIds
<1>4. ASSUME NEW t \in Tasks, NEW status \in Statuses, WriteRun(t, status)
      PROVE  /\ \A q \in Recorders : Kept(q)'
             /\ \A s \in signals' : Told(s)'
             /\ \A m \in runs' : Known(m)'
  <2>1. /\ UNCHANGED <<runs, artifactRefs, signals, recorder, mixed>>
        /\ \A u \in Tasks \ Rewritten : \A n \in DOMAIN receipt[u] :
              n \in DOMAIN receipt'[u] /\ receipt'[u][n] = receipt[u][n]
    BY <1>4, WriteEffect
  <2>2. \A q \in Recorders : Recording(q) => recorder[q].task \in Tasks
    BY UnderwayType
  <2>3. \A q \in Recorders : Kept(q)'
    BY <1>1, <2>1, <2>2 DEF Recording, ReadReceipt
  <2>4. \A s \in signals' : Told(s)'
    BY <1>1, <1>3, <2>1 DEF Says
  <2>5. \A m \in runs' : Known(m)'
    BY <1>1, <1>3, <2>1
  <2>6. QED
    BY <2>3, <2>4, <2>5
<1>5. ASSUME NEW r \in Recorders, RecorderStep(r)
      PROVE  /\ \A q \in Recorders : Kept(q)'
             /\ \A s \in signals' : Told(s)'
             /\ \A m \in runs' : Known(m)'
  <2>1. receipt' = receipt /\ \A q \in Recorders : q # r => recorder'[q] = recorder[q]
    BY <1>5, OnlyOneMoves DEF Others
  <2>2. ASSUME NEW q \in Recorders PROVE Kept(q)'
    <3>1. CASE q # r
      BY <1>1, <2>1, <3>1 DEF Recording, ReadReceipt
    <3>2. CASE q = r
      <4>1. CASE PersistRuns(r) \/ PersistArtifacts(r)
        <5>1. /\ Recording(r) /\ recorder'[r].task = recorder[r].task
              /\ ReadReceipt(r)' = ReadReceipt(r)
          BY <4>1, RunsEffect, ArtifactsEffect DEF GoesOn, ReadReceipt
        <5>2. QED
          BY <1>1, <2>1, <3>2, <5>1
      <4>2. CASE PersistSignals(r) \/ GiveUp(r)
        BY <3>2, <4>2, SignalsEffect, GiveUpEffect
      <4>3. ASSUME NEW t \in Tasks, Load(r, t) PROVE Kept(q)'
        <5>1. recorder'[r].task = t /\ ReadReceipt(r)' = receipt[t]
          BY <4>3, LoadEffect DEF GoesTo, ReadReceipt
        <5>2. QED
          BY <2>1, <3>2, <5>1
      <4>4. QED
        BY <1>5, <4>1, <4>2, <4>3 DEF RecorderStep
    <3>3. QED
      BY <3>1, <3>2
  <2>3. CASE PersistRuns(r)
    <3>1. signals' = signals
      BY <2>3, RunsEffect
    <3>2. \A s \in signals' : Told(s)'
      BY <1>1, <2>1, <3>1 DEF Says
    <3>3. ASSUME NEW m \in runs' PROVE Known(m)'
      <4>1. CASE m \in runs
        BY <1>1, <2>1, <4>1
      <4>2. CASE m \notin runs
        <5>1. PICK n \in DOMAIN ReadReceipt(r) : m = ManifestRow(recorder[r].task, n, ReadReceipt(r)[n])
          BY <2>3, <4>2, RunsEffect
        <5>2. m.run[1] = recorder[r].task /\ m.run[2] = n /\ Recording(r)
          BY <2>3, <5>1, RunsEffect, UnderwayType
        <5>3. QED
          BY <1>1, <2>1, <5>2
      <4>3. QED
        BY <4>1, <4>2
    <3>4. QED
      BY <2>2, <3>2, <3>3
  <2>4. CASE PersistSignals(r)
    <3>1. runs' = runs /\ Recording(r)
      BY <2>4, SignalsEffect
    <3>2. ASSUME NEW s \in signals' PROVE Told(s)'
      <4>1. CASE s \in signals
        BY <1>1, <2>1, <4>1 DEF Says
      <4>2. CASE s \notin signals
        <5>1. PICK n \in DOMAIN ReadReceipt(r) :
                 s = SignalRow(recorder[r].task, n, ReadReceipt(r)[n], Created(RunOf(recorder[r].task, n)))
          BY <2>4, <4>2, SignalsEffect
        <5>2. s.run = RunOf(recorder[r].task, n) /\ s.status = ReadyStatus(ReadReceipt(r)[n].status)
          BY <5>1 DEF SignalRow
        <5>3. s.run[1] = recorder[r].task /\ s.run[2] = n
          BY <3>1, <5>2, UnderwayType
        <5>4. QED
          BY <1>1, <2>1, <3>1, <5>2, <5>3 DEF Says
      <4>3. QED
        BY <4>1, <4>2
    <3>3. QED
      BY <1>1, <2>1, <2>2, <3>1, <3>2
  <2>5. CASE ~PersistRuns(r) /\ ~PersistSignals(r)
    <3>1. UNCHANGED <<runs, signals>>
      BY <1>5, <2>5, LoadEffect, GiveUpEffect, ArtifactsEffect DEF RecorderStep
    <3>2. QED
      BY <1>1, <2>1, <2>2, <3>1 DEF Says
  <2>6. QED
    BY <2>3, <2>4, <2>5
<1>6. QED
  BY <1>4, <1>5 DEF CompletionNext

\* What is written is as it was read.
LEMMA ReadStep ==
    ASSUME CompletionTypes, TwoAreMixed, WrittenAsRead, CompletionNext
    PROVE  WrittenAsRead'
<1> DEFINE RunsAsRead(q) ==
               \A n \in DOMAIN ReadReceipt(q) : \A m \in runs :
                   m.run = RunOf(recorder[q].task, n)
                       => m = ManifestRow(recorder[q].task, n, ReadReceipt(q)[n])
           ArtifactsAsRead(q) ==
               \A n \in DOMAIN ReadReceipt(q) : \A a \in artifactRefs :
                   a.run = RunOf(recorder[q].task, n) /\ a.number \in 0 .. ReadReceipt(q)[n].outputs
                       => a.lifecycle = Lifecycle(ReadReceipt(q)[n].status)
           AsRead(q) ==
               /\ recorder[q].pc \in {"artifacts", "signals"} => RunsAsRead(q)
               /\ recorder[q].pc = "signals" => ArtifactsAsRead(q)
<1>1. \A q \in Recorders : Recording(q) /\ recorder[q].task \notin mixed => AsRead(q)
  BY DEF WrittenAsRead
<1>2. (\A q \in Recorders : Recording(q)' /\ recorder'[q].task \notin mixed' => AsRead(q)') => WrittenAsRead'
  BY DEF WrittenAsRead
<1>3. ASSUME NEW t \in Tasks, NEW status \in Statuses, WriteRun(t, status) PROVE WrittenAsRead'
  BY <1>3, WriteEffect DEF WrittenAsRead, Recording, ReadReceipt
<1>4. ASSUME NEW r \in Recorders, RecorderStep(r), NEW q \in Recorders, Recording(q)',
             recorder'[q].task \notin mixed'
      PROVE  AsRead(q)'
  <2>1. mixed \subseteq mixed'
    BY <1>4, LoadEffect, GiveUpEffect, RunsEffect, ArtifactsEffect, SignalsEffect DEF RecorderStep
  <2>2. CASE q # r
    <3>1. recorder'[q] = recorder[q] /\ Recording(q) /\ ReadReceipt(q)' = ReadReceipt(q)
      BY <1>4, <2>2, OnlyOneMoves DEF Others, Recording, ReadReceipt
    <3>2. AsRead(q) /\ recorder[q].task \notin mixed
      BY <1>1, <1>4, <2>1, <3>1
    <3>3. Recording(r) => recorder[q].task # recorder[r].task
      BY <2>2, <3>1, <3>2, AloneWithIt
    <3>4. CASE PersistRuns(r)
      <4>1. Recording(r) /\ artifactRefs' = artifactRefs
        BY <3>4, RunsEffect
      <4>2. ASSUME NEW n \in DOMAIN ReadReceipt(q), NEW m \in runs', m.run = RunOf(recorder[q].task, n)
            PROVE  m \in runs
        <5>1. m.run[1] # recorder[r].task
          BY <3>1, <3>3, <4>1, <4>2, UnderwayType
        <5>2. \A k \in DOMAIN ReadReceipt(r) : m.run # RunOf(recorder[r].task, k)
          BY <4>1, <5>1, UnderwayType
        <5>3. QED
          BY <3>4, <5>2, RunsEffect
      <4>3. QED
        BY <3>1, <3>2, <4>1, <4>2
    <3>5. CASE PersistArtifacts(r)
      <4>1. Recording(r) /\ runs' = runs
        BY <3>5, ArtifactsEffect
      <4>2. ASSUME NEW n \in DOMAIN ReadReceipt(q), NEW a \in artifactRefs',
                   a.run = RunOf(recorder[q].task, n)
            PROVE  a \in artifactRefs
        <5>1. a.run[1] # recorder[r].task
          BY <3>1, <3>3, <4>1, <4>2, UnderwayType
        <5>2. \A k \in DOMAIN ReadReceipt(r) : a.run # RunOf(recorder[r].task, k)
          BY <4>1, <5>1, UnderwayType
        <5>3. \A k, j : ArtifactRow(recorder[r].task, k, ReadReceipt(r)[k], j).run
                                = RunOf(recorder[r].task, k)
          BY DEF ArtifactRow
        <5>4. ASSUME a \notin artifactRefs PROVE FALSE
          <6>1. PICK k \in DOMAIN ReadReceipt(r) : \E j \in 0 .. ReadReceipt(r)[k].outputs :
                   a = ArtifactRow(recorder[r].task, k, ReadReceipt(r)[k], j)
            BY <3>5, <4>2, <5>4, ArtifactsEffect
          <6>2. QED
            BY <5>2, <5>3, <6>1
        <5>5. QED
          BY <5>4
      <4>3. QED
        BY <3>1, <3>2, <4>1, <4>2
    <3>6. CASE ~PersistRuns(r) /\ ~PersistArtifacts(r)
      <4>1. runs' = runs /\ artifactRefs' = artifactRefs
        BY <1>4, <3>6, LoadEffect, GiveUpEffect, SignalsEffect DEF RecorderStep
      <4>2. QED
        BY <3>1, <3>2, <4>1
    <3>7. QED
      BY <3>4, <3>5, <3>6
  <2>3. CASE q = r
    <3>1. CASE PersistRuns(r)
      <4>1. /\ Recording(r) /\ recorder'[r].pc = "artifacts" /\ recorder'[r].task = recorder[r].task
            /\ ReadReceipt(r)' = ReadReceipt(r)
        BY <3>1, RunsEffect DEF GoesOn, ReadReceipt
      <4>2. ASSUME NEW n \in DOMAIN ReadReceipt(r), NEW m \in runs', m.run = RunOf(recorder[r].task, n)
            PROVE  m = ManifestRow(recorder[r].task, n, ReadReceipt(r)[n])
        <5>1. Mine(r, m.run)
          BY <4>2 DEF Mine
        <5>2. PICK k \in DOMAIN ReadReceipt(r) : m = ManifestRow(recorder[r].task, k, ReadReceipt(r)[k])
          BY <3>1, <5>1, RunsEffect
        <5>3. m.run[2] = k /\ m.run[2] = n
          BY <3>1, <4>1, <4>2, <5>2, RunsEffect, UnderwayType
        <5>4. QED
          BY <5>2, <5>3
      <4>3. QED
        BY <2>3, <4>1, <4>2
    <3>2. CASE PersistArtifacts(r)
      <4>1. /\ Recording(r) /\ recorder'[r].task = recorder[r].task /\ recorder[r].pc = "artifacts"
            /\ ReadReceipt(r)' = ReadReceipt(r) /\ runs' = runs
        BY <3>2, ArtifactsEffect DEF GoesOn, ReadReceipt
      <4>2. RunsAsRead(r)
        BY <1>1, <1>4, <2>1, <2>3, <4>1
      <4>3. ASSUME NEW n \in DOMAIN ReadReceipt(r), NEW a \in artifactRefs',
                   a.run = RunOf(recorder[r].task, n), a.number \in 0 .. ReadReceipt(r)[n].outputs
            PROVE  a.lifecycle = Lifecycle(ReadReceipt(r)[n].status)
        <5>1. PICK k \in DOMAIN ReadReceipt(r), j \in Nat :
                 a = ArtifactRow(recorder[r].task, k, ReadReceipt(r)[k], j)
          <6>1. \A k \in DOMAIN ReadReceipt(r) : 0 .. ReadReceipt(r)[k].outputs \subseteq Nat
            BY <4>1, UnderwayType DEF Run
          <6>2. QED
            BY <3>2, <4>3, <6>1, ArtifactsEffect
        <5>2. a.run = RunOf(recorder[r].task, k) /\ a.lifecycle = Lifecycle(ReadReceipt(r)[k].status)
          BY <5>1 DEF ArtifactRow
        <5>3. k = n
          BY <4>3, <5>2 DEF RunOf
        <5>4. QED
          BY <5>2, <5>3
      <4>4. QED
        BY <2>3, <4>1, <4>2, <4>3
    <3>3. CASE ~PersistRuns(r) /\ ~PersistArtifacts(r)
      <4>1. PICK t \in Tasks : Load(r, t)
        BY <1>4, <2>3, <3>3, GiveUpEffect, SignalsEffect DEF RecorderStep
      <4>2. recorder'[r].pc = "runs"
        BY <4>1, LoadEffect DEF GoesTo
      <4>3. QED
        BY <2>3, <4>2
    <3>4. QED
      BY <3>1, <3>2, <3>3
  <2>4. QED
    BY <2>2, <2>3
<1>5. QED
  BY <1>2, <1>3, <1>4 DEF CompletionNext

\* The tasks that nobody records agree with their receipts.
LEMMA OthersAgreeStep ==
    ASSUME CompletionTypes, WrittenAsRead, OthersAgree, CompletionNext
    PROVE  OthersAgree'
<1>1. ASSUME NEW t \in Tasks, NEW status \in Statuses, WriteRun(t, status) PROVE OthersAgree'
  BY <1>1, WriteEffect DEF OthersAgree, Agrees, Renews, Recording, ReadReceipt
<1>2. ASSUME NEW r \in Recorders, RecorderStep(r), NEW m \in runs', m.run[1] \notin mixed'
      PROVE  Agrees(m)' \/ \E q \in Recorders : Renews(q, m)'
  <2>1. m.run[1] \notin mixed
    BY <1>2, LoadEffect, GiveUpEffect, RunsEffect, ArtifactsEffect, SignalsEffect DEF RecorderStep
  <2>2. m \in runs => Agrees(m) \/ \E q \in Recorders : Renews(q, m)
    BY <2>1 DEF OthersAgree
  \* A run that another recorder renews is still renewed.
  <2>3. \A q \in Recorders : q # r /\ Renews(q, m) => Renews(q, m)'
    BY <1>2, OnlyOneMoves DEF Others, Renews, Recording, ReadReceipt
  <2>4. CASE PersistRuns(r)
    <3>1. /\ recorder'[r].pc = "artifacts" /\ recorder'[r].task = recorder[r].task /\ Recording(r)'
          /\ ReadReceipt(r)' = ReadReceipt(r) /\ Recording(r) /\ recorder[r].pc = "runs"
          /\ signals' = signals /\ artifactRefs' = artifactRefs
      BY <2>4, RunsEffect DEF GoesOn, ReadReceipt
    <3>2. CASE m \in runs
      BY <2>2, <2>3, <3>1, <3>2 DEF Agrees, Renews
    <3>3. CASE m \notin runs
      <4>1. PICK n \in DOMAIN ReadReceipt(r) : m = ManifestRow(recorder[r].task, n, ReadReceipt(r)[n])
        BY <2>4, <3>3, RunsEffect
      <4>2. m.run[1] = recorder[r].task /\ m.run[2] = n
        BY <2>4, <3>1, <4>1, RunsEffect, UnderwayType
      <4>3. QED
        BY <3>1, <4>2 DEF Renews
    <3>4. QED
      BY <3>2, <3>3
  <2>5. CASE PersistArtifacts(r)
    <3>1. /\ recorder'[r].pc = "signals" /\ recorder'[r].task = recorder[r].task /\ Recording(r)'
          /\ ReadReceipt(r)' = ReadReceipt(r) /\ Recording(r)
          /\ signals' = signals /\ runs' = runs
      BY <2>5, ArtifactsEffect DEF GoesOn, ReadReceipt
    <3>2. CASE Mine(r, m.run)
      <4>1. m.run[1] = recorder[r].task /\ m.run[2] \in DOMAIN ReadReceipt(r)
        BY <3>1, <3>2, UnderwayType DEF Mine
      <4>2. QED
        BY <3>1, <4>1 DEF Renews
    <3>3. CASE ~Mine(r, m.run)
      <4>1. \A a \in artifactRefs' : a.run = m.run => a \in artifactRefs
        BY <2>5, <3>3, ArtifactsEffect DEF Mine, ArtifactRow
      <4>2. Agrees(m) => Agrees(m)'
        BY <3>1, <4>1 DEF Agrees
      <4>3. \A q \in Recorders : Renews(q, m) => Renews(q, m)'
        BY <2>3, <3>1 DEF Renews
      <4>4. QED
        BY <2>2, <3>1, <4>2, <4>3
    <3>4. QED
      BY <3>2, <3>3
  <2>6. CASE PersistSignals(r)
    <3>1. Recording(r) /\ recorder[r].pc = "signals" /\ runs' = runs /\ artifactRefs' = artifactRefs
      BY <2>6, SignalsEffect
    <3>2. CASE Mine(r, m.run)
      <4>1. PICK n \in DOMAIN ReadReceipt(r) : m.run = RunOf(recorder[r].task, n)
        BY <3>2 DEF Mine
      <4>2. m.run[1] = recorder[r].task /\ ReadReceipt(r)[n].status \in Statuses
        BY <3>1, <4>1, UnderwayType
      <4>3. /\ m = ManifestRow(recorder[r].task, n, ReadReceipt(r)[n])
            /\ \A a \in artifactRefs : a.run = m.run /\ a.number \in 0 .. ReadReceipt(r)[n].outputs
                  => a.lifecycle = Lifecycle(ReadReceipt(r)[n].status)
        BY <2>1, <3>1, <4>1, <4>2 DEF WrittenAsRead
      <4>4. PICK s \in signals' :
               s = SignalRow(recorder[r].task, n, ReadReceipt(r)[n], Created(RunOf(recorder[r].task, n)))
        BY <2>6, SignalsEffect
      <4>5. /\ s.run = m.run /\ s.status = ReadyStatus(ReadReceipt(r)[n].status)
            /\ s.refs = 0 .. ReadReceipt(r)[n].outputs
        BY <4>1, <4>4 DEF SignalRow
      <4>6. m.status = "succeeded" <=> ReadReceipt(r)[n].status = "succeeded"
        BY <4>2, <4>3, StatusTypes DEF ManifestRow, Statuses
      <4>7. m.status = "succeeded" <=> s.status = "ready"
        BY <4>2, <4>5, <4>6, StatusTypes
      <4>8. ASSUME NEW a \in artifactRefs', a.run = m.run, a.number \in s.refs
            PROVE  a.lifecycle = "active" <=> s.status \in {"ready", "partial"}
        BY <3>1, <4>2, <4>3, <4>5, <4>8, StatusTypes
      <4>9. QED
        BY <4>5, <4>7, <4>8 DEF Agrees
    <3>3. CASE ~Mine(r, m.run)
      <4>1. \A s \in signals : s.run = m.run => s \in signals'
        BY <2>6, <3>3, SignalsEffect
      <4>2. Agrees(m) => Agrees(m)'
        BY <3>1, <4>1 DEF Agrees
      <4>3. ~Renews(r, m)
        <5>1. ASSUME m.run[1] = recorder[r].task, m.run[2] \in DOMAIN ReadReceipt(r) PROVE FALSE
          <6>1. m.run \in RunIds
            BY <1>2, <3>1 DEF CompletionTypes
          <6>2. m.run = RunOf(recorder[r].task, m.run[2])
            BY <5>1, <6>1 DEF RunIds, RunOf
          <6>3. QED
            BY <3>3, <5>1, <6>2 DEF Mine
        <5>2. QED
          BY <5>1 DEF Renews
      <4>4. QED
        BY <1>2, <2>2, <2>3, <3>1, <4>2, <4>3
    <3>4. QED
      BY <3>2, <3>3
  <2>7. CASE GiveUp(r)
    <3>1. UNCHANGED <<runs, artifactRefs, signals>> /\ recorder[r].task \in mixed'
      BY <2>7, GiveUpEffect
    <3>2. ~Renews(r, m)
      BY <1>2, <3>1 DEF Renews
    <3>3. Agrees(m) => Agrees(m)'
      BY <3>1 DEF Agrees
    <3>4. QED
      BY <1>2, <2>2, <2>3, <3>1, <3>2, <3>3
  <2>8. ASSUME NEW t \in Tasks, Load(r, t) PROVE Agrees(m)' \/ \E q \in Recorders : Renews(q, m)'
    <3>1. UNCHANGED <<runs, artifactRefs, signals>> /\ ~Recording(r)
      BY <2>8, LoadEffect
    <3>2. ~Renews(r, m)
      BY <3>1 DEF Renews
    <3>3. Agrees(m) => Agrees(m)'
      BY <3>1 DEF Agrees
    <3>4. QED
      BY <1>2, <2>2, <2>3, <3>1, <3>2, <3>3
  <2>9. QED
    BY <1>2, <2>4, <2>5, <2>6, <2>7, <2>8 DEF RecorderStep
<1>3. QED
  BY <1>1, <1>2 DEF CompletionNext, OthersAgree

\* The invariant of the records holds at the start,
LEMMA CompletionInitInvariant == CompletionInit => CompletionInv
<1> SUFFICES ASSUME CompletionInit PROVE CompletionInv
  OBVIOUS
<1>1. /\ receipt = [t \in Tasks |-> <<>>] /\ runs = {} /\ artifactRefs = {} /\ signals = {}
      /\ recorder = [r \in Recorders |-> Free] /\ mixed = {}
  BY DEF CompletionInit
<1>2. \A r \in Recorders : ~Recording(r)
  BY <1>1 DEF Recording, Free
<1>3. CompletionTypes
  <2>1. IsFiniteSet(signals) /\ <<>> \in Seq(Run) /\ 0 \in Nat
    BY <1>1, FS_EmptySet
  <2>2. QED
    BY <1>1, <2>1 DEF CompletionTypes
<1>4. QED
  BY <1>1, <1>2, <1>3 DEF CompletionInv, SignalsHaveArtifacts, RowsAreThere, ReceiptsAreKept,
                          TwoAreMixed, OthersAgree, WrittenAsRead

\* and is inductive.
LEMMA CompletionStepInvariant == CompletionInv /\ [CompletionNext]_completionVars => CompletionInv'
<1> SUFFICES ASSUME CompletionInv, [CompletionNext]_completionVars PROVE CompletionInv'
  OBVIOUS
<1>1. CASE CompletionNext
  <2>1. CompletionTypes' /\ SignalsHaveArtifacts' /\ RowsAreThere' /\ ReceiptsAreKept'
    BY <1>1, CompletionTypeStep, SignalStep, ThereStep, KeptStep DEF CompletionInv
  <2>2. TwoAreMixed' /\ OthersAgree' /\ WrittenAsRead'
    BY <1>1, TwoStep, OthersAgreeStep, ReadStep DEF CompletionInv
  <2>3. QED
    BY <2>1, <2>2 DEF CompletionInv
<1>2. CASE UNCHANGED completionVars
  BY <1>2 DEF completionVars, CompletionInv, CompletionTypes, SignalsHaveArtifacts, RowsAreThere,
              ReceiptsAreKept, TwoAreMixed, OthersAgree, WrittenAsRead, Recording, ReadReceipt,
              HasRun, HasArtifact, Says, Agrees, Renews
<1>3. QED
  BY <1>1, <1>2

\* The inductive invariant of the completion rows, for any tasks, recorders and number
\* of runs (persist_completion_rows).
THEOREM CompletionInvariant == CompletionSpec => []CompletionInv
  BY CompletionInitInvariant, CompletionStepInvariant, PTL DEF CompletionSpec

-----------------------------------------------------------------------------
(* The view: among finitely many rows there is one that the order puts first. *)

\* A set whose values are bounded has a greatest.
LEMMA Greatest ==
    ASSUME NEW S, NEW f, \A x \in S : f[x] \in Nat, NEW b \in Nat, \A x \in S : f[x] <= b, S # {}
    PROVE  \E x \in S : \A y \in S : f[y] <= f[x]
<1> DEFINE T == {b - f[x] : x \in S}
<1>1. T \in SUBSET Nat /\ T # {} /\ \A y \in S : b - f[y] \in T
  OBVIOUS
<1>2. PICK m \in T : \A k \in T : m <= k
  <2> HIDE DEF T
  <2>1. QED
    BY <1>1, LeastNumber
<1>3. PICK x \in S : m = b - f[x]
  BY <1>2
<1>4. ASSUME NEW y \in S PROVE f[y] <= f[x]
  <2>1. b - f[x] <= b - f[y]
    BY <1>1, <1>2, <1>3
  <2>2. f[x] \in Nat /\ f[y] \in Nat
    OBVIOUS
  <2>3. QED
    BY <2>1, <2>2
<1>5. QED
  BY <1>4

\* The ranks of a signal.
LEMMA RankType ==
    ASSUME NEW status
    PROVE  /\ Rank(status) \in 0 .. 2 /\ 2 - Rank(status) \in Nat
           /\ Rank(status) = 0 <=> status = "ready"
  BY DEF Rank

\* What the signals and runs of a task are whose receipt is only appended to.
LEMMA OfTask ==
    ASSUME CompletionTypes, ReceiptsAreKept, NEW t \in Tasks \ Rewritten
    PROVE  /\ Len(receipt[t]) \in Nat /\ DOMAIN receipt[t] = 1 .. Len(receipt[t])
           /\ \A n \in DOMAIN receipt[t] : receipt[t][n].status \in Statuses
           /\ \A s \in SignalsOf(t) :
                 /\ s \in signals /\ s.created \in Nat
                 /\ s.run[2] \in Nat /\ s.run[2] <= Len(receipt[t])
                 /\ Says(s.run, s.status) /\ s.run[1] = t
           /\ \A m \in RunsOf(t) :
                 /\ m \in runs /\ m.run[2] \in Nat /\ m.run[2] <= Len(receipt[t])
                 /\ m.status # "ready"
<1>1. receipt[t] \in Seq(Run)
  BY DEF CompletionTypes
<1>2. /\ Len(receipt[t]) \in Nat /\ DOMAIN receipt[t] = 1 .. Len(receipt[t])
      /\ \A n \in DOMAIN receipt[t] : receipt[t][n].status \in Statuses
  <2>1. /\ Len(receipt[t]) \in Nat /\ DOMAIN receipt[t] = 1 .. Len(receipt[t])
        /\ \A n \in DOMAIN receipt[t] : receipt[t][n] \in Run
    BY <1>1
  <2>2. QED
    BY <2>1 DEF Run
<1>3. ASSUME NEW s \in SignalsOf(t)
      PROVE  /\ s \in signals /\ s.created \in Nat
             /\ s.run[2] \in Nat /\ s.run[2] <= Len(receipt[t])
             /\ Says(s.run, s.status) /\ s.run[1] = t
  <2>1. s \in signals /\ s.run[1] = t
    BY DEF SignalsOf, RunsOf
  <2>2. Says(s.run, s.status)
    BY <2>1 DEF ReceiptsAreKept
  <2>3. s.run[2] \in 1 .. Len(receipt[t])
    BY <1>2, <2>1, <2>2 DEF Says
  <2>4. s.created \in Nat
    BY <2>1 DEF CompletionTypes
  <2>5. QED
    BY <1>2, <2>1, <2>2, <2>3, <2>4
<1>4. ASSUME NEW m \in RunsOf(t)
      PROVE  /\ m \in runs /\ m.run[2] \in Nat /\ m.run[2] <= Len(receipt[t])
             /\ m.status # "ready"
  <2>1. m \in runs /\ m.run[1] = t
    BY DEF RunsOf
  <2>2. m.run[2] \in 1 .. Len(receipt[t])
    BY <1>2, <2>1 DEF ReceiptsAreKept
  <2>3. m.status # "ready"
    BY <2>1 DEF CompletionTypes
  <2>4. QED
    BY <1>2, <2>1, <2>2, <2>3
<1>5. QED
  BY <1>2, <1>3, <1>4

\* The best signal of a task precedes its others.
LEMMA BestSignalIsFirst ==
    ASSUME CompletionTypes, ReceiptsAreKept, NEW t \in Tasks \ Rewritten, SignalsOf(t) # {}
    PROVE  /\ BestSignal(t) \in SignalsOf(t)
           /\ \A other \in SignalsOf(t) : Precedes(BestSignal(t), other)
<1> DEFINE S == SignalsOf(t)
           rank == [s \in S |-> 2 - Rank(s.status)]
           age == [s \in S |-> s.created]
           place == [s \in S |-> s.run[2]]
<1>1. /\ Len(receipt[t]) \in Nat
      /\ \A s \in S : /\ s \in signals /\ s.created \in Nat
                      /\ s.run[2] \in Nat /\ s.run[2] <= Len(receipt[t])
  BY OfTask
<1>2. PICK b \in Nat : \A s \in S : s.created <= b
  BY <1>1 DEF CompletionTypes
<1> HIDE DEF S
<1>3. /\ \A s \in S : rank[s] = 2 - Rank(s.status) /\ age[s] = s.created /\ place[s] = s.run[2]
      /\ \A s \in S : Rank(s.status) \in 0 .. 2 /\ rank[s] \in Nat /\ rank[s] <= 2
      /\ S # {}
  BY RankType DEF S
<1> HIDE DEF rank, age, place
<1>4. PICK x \in S : \A y \in S : rank[y] <= rank[x]
  BY <1>3, Greatest
<1> DEFINE A == {s \in S : Rank(s.status) = Rank(x.status)}
<1>5. PICK y \in A : \A z \in A : age[z] <= age[y]
  <2>1. A # {} /\ \A z \in A : age[z] \in Nat /\ age[z] <= b
    BY <1>1, <1>2, <1>3
  <2> HIDE DEF A
  <2>2. QED
    BY <2>1, Greatest
<1> DEFINE B == {s \in A : s.created = y.created}
<1>6. PICK z \in B : \A s \in B : place[s] <= place[z]
  <2>1. B # {} /\ \A s \in B : place[s] \in Nat /\ place[s] <= Len(receipt[t])
    BY <1>1, <1>3, <1>5
  <2> HIDE DEF B
  <2>2. QED
    BY <1>1, <2>1, Greatest
<1>7. ASSUME NEW s \in S PROVE Precedes(z, s)
  <2>1. z \in S /\ Rank(z.status) = Rank(x.status) /\ z.created = y.created
    BY <1>6
  <2>2. Rank(z.status) <= Rank(s.status)
    BY <1>3, <1>4, <2>1
  <2>3. Rank(s.status) = Rank(z.status) => s.created <= z.created
    BY <1>3, <1>5, <2>1
  <2>4. Rank(s.status) = Rank(z.status) /\ s.created = z.created => s.run[2] <= z.run[2]
    BY <1>3, <1>6, <2>1
  <2>5. /\ Rank(z.status) \in Nat /\ Rank(s.status) \in Nat /\ z.created \in Nat
        /\ s.created \in Nat /\ z.run[2] \in Nat /\ s.run[2] \in Nat
    BY <1>1, <1>3, <2>1
  <2>6. QED
    BY <2>2, <2>3, <2>4, <2>5 DEF Precedes
<1>8. z \in S
  BY <1>6
<1>9. QED
  BY <1>7, <1>8 DEF BestSignal, S

\* The best run of a task is one of its runs.
LEMMA BestRunIsThere ==
    ASSUME CompletionTypes, ReceiptsAreKept, NEW t \in Tasks \ Rewritten, RunsOf(t) # {}
    PROVE  BestRun(t) \in RunsOf(t)
<1> DEFINE Good == {m \in RunsOf(t) : m.status = "succeeded"}
           S == IF Good # {} THEN Good ELSE RunsOf(t)
           place == [m \in RunsOf(t) |-> m.run[2]]
<1>1. /\ Len(receipt[t]) \in Nat
      /\ \A m \in RunsOf(t) : m.run[2] \in Nat /\ m.run[2] <= Len(receipt[t])
  BY OfTask
<1>2. /\ S # {} /\ S \subseteq RunsOf(t)
      /\ \A m \in RunsOf(t) : place[m] = m.run[2]
      /\ \A m \in S : place[m] \in Nat /\ place[m] <= Len(receipt[t])
  BY <1>1
<1>3. PICK x \in S : \A y \in S : place[y] <= place[x]
  <2> HIDE DEF S, place
  <2>1. QED
    BY <1>1, <1>2, Greatest
<1>4. ASSUME NEW other \in RunsOf(t)
      PROVE  \/ x.status = "succeeded" /\ other.status # "succeeded"
             \/ (x.status = "succeeded" <=> other.status = "succeeded") /\ x.run[2] >= other.run[2]
  <2>1. CASE Good # {}
    <3>1. x.status = "succeeded" /\ (other.status = "succeeded" => other \in S)
      BY <1>3, <2>1
    <3>2. other \in S => x.run[2] >= other.run[2]
      BY <1>1, <1>2, <1>3
    <3>3. QED
      BY <3>1, <3>2
  <2>2. CASE Good = {}
    <3>1. x.status # "succeeded" /\ other.status # "succeeded" /\ other \in S
      BY <1>2, <1>3, <2>2
    <3>2. x.run[2] >= other.run[2]
      BY <1>1, <1>2, <1>3, <3>1
    <3>3. QED
      BY <3>1, <3>2
  <2>3. QED
    BY <2>1, <2>2
<1>5. x \in RunsOf(t)
  BY <1>2, <1>3
<1>6. QED
  BY <1>4, <1>5 DEF BestRun

\* The tables name only what they have, and tell the same of a run that one recorder
\* has recorded to the end; and the view shows as ready what a receipt has succeeded with.
LEMMA InvariantConsistent == CompletionInv => CompletionIsConsistent
<1> SUFFICES ASSUME CompletionInv PROVE CompletionIsConsistent
  OBVIOUS
<1>1. CompletionTypes /\ SignalsHaveArtifacts /\ ReceiptsAreKept /\ OthersAgree
  BY DEF CompletionInv
<1>2. RowsOfARunAgree
  <2>1. ASSUME NEW t \in Tasks \ mixed, RecordsOf(t) = {}, NEW m \in RunsOf(t) PROVE Agrees(m)
    <3>1. m \in runs /\ m.run[1] = t
      BY DEF RunsOf
    <3>2. \A r \in Recorders : ~Renews(r, m)
      BY <2>1, <3>1 DEF Renews, RecordsOf
    <3>3. QED
      BY <1>1, <3>1, <3>2 DEF OthersAgree
  <2>2. QED
    BY <2>1 DEF RowsOfARunAgree, Agrees
<1>3. ReadyIsEarned
  <2>1. ASSUME NEW t \in Tasks \ Rewritten, SignalsOf(t) # {}, TaskStatus(t) = "ready"
        PROVE  \E n \in DOMAIN receipt[t] : receipt[t][n].status = "succeeded"
    <3>1. BestSignal(t) \in SignalsOf(t) /\ BestSignal(t).status = "ready"
      BY <1>1, <2>1, BestSignalIsFirst DEF TaskStatus
    <3>2. Says(BestSignal(t).run, "ready") /\ BestSignal(t).run[1] = t
      BY <1>1, <3>1, OfTask
    <3>3. BestSignal(t).run[2] \in DOMAIN receipt[t]
          /\ ReadyStatus(receipt[t][BestSignal(t).run[2]].status) = "ready"
      BY <3>2 DEF Says
    <3>4. receipt[t][BestSignal(t).run[2]].status \in Statuses
      BY <1>1, <3>3, OfTask
    <3>5. QED
      BY <3>3, <3>4, StatusTypes
  <2>2. ASSUME NEW t \in Tasks \ Rewritten, SignalsOf(t) = {} PROVE TaskStatus(t) # "ready"
    <3>1. CASE RunsOf(t) # {}
      <4>1. BestRun(t).status # "ready"
        BY <1>1, <3>1, BestRunIsThere, OfTask
      <4>2. QED
        BY <2>2, <3>1, <4>1 DEF TaskStatus
    <3>2. CASE RunsOf(t) = {}
      BY <2>2, <3>2 DEF TaskStatus
    <3>3. QED
      BY <3>1, <3>2
  <2>3. ASSUME NEW t \in Tasks \ Rewritten, NEW s \in SignalsOf(t), s.status = "ready"
        PROVE  TaskStatus(t) = "ready"
    <3>1. Precedes(BestSignal(t), s)
      BY <1>1, BestSignalIsFirst
    <3>2. Rank(s.status) = 0
      BY <2>3, RankType
    <3>3. Rank(BestSignal(t).status) = 0
      BY <3>1, <3>2, RankType DEF Precedes
    <3>4. BestSignal(t).status = "ready"
      BY <3>3, RankType
    <3>5. QED
      BY <2>3, <3>4 DEF TaskStatus
  <2>4. QED
    BY <2>1, <2>2, <2>3 DEF ReadyIsEarned
<1>4. QED
  BY <1>1, <1>2, <1>3 DEF CompletionIsConsistent


\* The row, the file and the binding of a request say the same, and so do the signals,
\* the artifacts and the runs of a receipt, for any batches, commands, tasks, processes
\* and recorders (request_handoff.py, persist_completion_rows).
THEOREM RecordsAlwaysAgree == HandoffSpec /\ CompletionSpec => []RecordsAgree
<1>1. HandoffInv /\ CompletionInv => RecordsAgree
  BY InvariantPlaces, InvariantConsistent DEF RecordsAgree
<1>2. QED
  BY <1>1, HandoffInvariant, CompletionInvariant, PTL

-----------------------------------------------------------------------------
(* WorkflowPlan: the stages of a plan and their order.                        *)
\* Every stage has a place of its own.
LEMMA StagePlaces ==
    ASSUME NEW s \in Layers \X DOMAIN Kinds
    PROVE  /\ Place(s) \in 8..42 /\ s[1] \in 1..5 /\ s = <<s[1], s[2]>>
           /\ \A t \in Layers \X DOMAIN Kinds : Place(s) = Place(t) => s = t
<1>1. \A k \in DOMAIN Kinds : Kinds[k] \in 1..7
  BY DEF Kinds
<1>2. \A j, k \in DOMAIN Kinds : Kinds[j] = Kinds[k] => j = k
  BY DEF Kinds
<1>3. s[1] \in 1..5 /\ s[2] \in DOMAIN Kinds /\ s = <<s[1], s[2]>>
  BY DEF Layers
<1>4. Place(s) \in 8..42
  BY <1>1, <1>3 DEF Place
<1>5. ASSUME NEW t \in Layers \X DOMAIN Kinds, Place(s) = Place(t)
      PROVE  s = t
  <2>1. t[1] \in 1..5 /\ t[2] \in DOMAIN Kinds /\ t = <<t[1], t[2]>>
    BY DEF Layers
  <2>2. PICK x \in 1..7, y \in 1..7 : x = Kinds[s[2]] /\ y = Kinds[t[2]]
    BY <1>1, <1>3, <2>1
  <2>3. 7 * s[1] + x = 7 * t[1] + y
    BY <1>5, <2>2 DEF Place
  <2>4. s[1] = t[1] /\ x = y
    BY <1>3, <2>1, <2>3
  <2> QED BY <1>2, <1>3, <2>1, <2>2, <2>4
<1> QED BY <1>3, <1>4, <1>5

\* The order of a plan holds each of its stages once, by their places.
LEMMA OrderIsByPlace ==
    ASSUME NEW c
    PROVE  /\ DOMAIN Order(c) = 1..Cardinality(StagesFor(c))
           /\ Cardinality(StagesFor(c)) \in Nat
           /\ \A i \in DOMAIN Order(c) : Order(c)[i] \in StagesFor(c)
           /\ \A s \in StagesFor(c) : \E i \in DOMAIN Order(c) : Order(c)[i] = s
           /\ \A i, j \in DOMAIN Order(c) : i < j => Place(Order(c)[i]) < Place(Order(c)[j])
<1> DEFINE S == StagesFor(c)
           N == Cardinality(S)
           Before(s) == {t \in S : Place(t) < Place(s)}
           rank == [s \in S |-> Cardinality(Before(s))]
<1>1. \A s \in S : s \in Layers \X DOMAIN Kinds
  BY DEF StagesFor
<1>2. \A s \in S : Place(s) \in 8..42
  BY <1>1, StagePlaces
<1>3. IsFiniteSet(S)
  <2> DEFINE place == [s \in S |-> Place(s)]
  <2>1. \A s, t \in S : Place(s) = Place(t) => s = t
    BY <1>1, StagePlaces
  <2>2. place \in [S -> 8..42]
    BY <1>2
  <2>3. place \in Injection(S, 8..42)
    BY <2>1, <2>2 DEF Injection, IsInjective
  <2>4. IsFiniteSet(8..42)
    <3>1. 8 \in Int /\ 42 \in Int
      OBVIOUS
    <3> QED BY <3>1, FS_Interval, Zenon
  <2> QED BY <2>3, <2>4, FS_Injection
<1>4. N \in Nat
  BY <1>3, FS_CardinalityType
<1>5. \A s \in S : rank[s] \in 0..(N - 1)
  <2> TAKE s \in S
  <2>1. Before(s) \in SUBSET S /\ s \notin Before(s)
    BY <1>2
  <2>2. IsFiniteSet(Before(s)) /\ Cardinality(Before(s)) <= N /\ (N = Cardinality(Before(s)) => S = Before(s))
    BY <1>3, <2>1, FS_Subset
  <2>3. Cardinality(Before(s)) \in Nat
    BY <2>2, FS_CardinalityType
  <2>4. Cardinality(Before(s)) # N
    BY <2>1, <2>2
  <2>5. rank[s] = Cardinality(Before(s))
    OBVIOUS
  <2> QED BY <1>4, <2>2, <2>3, <2>4, <2>5
<1>6. ASSUME NEW s \in S, NEW t \in S, Place(s) < Place(t)
      PROVE  rank[s] < rank[t]
  <2>1. Before(s) \in SUBSET Before(t) /\ s \in Before(t) /\ s \notin Before(s)
    BY <1>2, <1>6
  <2>2. IsFiniteSet(Before(t))
    <3>1. Before(t) \in SUBSET S
      OBVIOUS
    <3> QED BY <1>3, <3>1, FS_Subset
  <2>3. Cardinality(Before(s)) <= Cardinality(Before(t)) /\ Cardinality(Before(s)) # Cardinality(Before(t))
    BY <2>1, <2>2, FS_Subset
  <2>4. rank[s] = Cardinality(Before(s)) /\ rank[t] = Cardinality(Before(t))
    OBVIOUS
  <2>5. rank[s] \in 0..(N - 1) /\ rank[t] \in 0..(N - 1)
    BY <1>5
  <2> HIDE DEF rank
  <2> QED BY <1>4, <2>3, <2>4, <2>5
<1>7. \A s, t \in S : Place(s) = Place(t) => s = t
  BY <1>1, StagePlaces
<1>8. \A s, t \in S : rank[s] = rank[t] => s = t
  <2> TAKE s, t \in S
  <2>1. rank[s] \in Int /\ rank[t] \in Int /\ Place(s) \in Int /\ Place(t) \in Int
    BY <1>4, <1>5, <1>2
  <2>2. Place(s) < Place(t) => rank[s] < rank[t]
    BY <1>6
  <2>3. Place(t) < Place(s) => rank[t] < rank[s]
    BY <1>6
  <2> HIDE DEF rank
  <2> QED BY <1>7, <2>1, <2>2, <2>3
<1>9. \A n \in 0..(N - 1) : \E s \in S : rank[s] = n
  <2>1. rank \in Injection(S, 0..(N - 1))
    BY <1>5, <1>8 DEF Injection, IsInjective
  <2>2. IsFiniteSet(0..(N - 1)) /\ Cardinality(0..(N - 1)) = N
    BY <1>4, FS_Interval
  <2>3. rank \in Surjection(S, 0..(N - 1))
    BY <2>1, <2>2, FS_Injection
  <2> HIDE DEF rank
  <2> QED BY <2>3 DEF Surjection
<1>10. Order(c) = [n \in 1..N |-> CHOOSE s \in S : rank[s] = n - 1]
  <2>1. \A n \in 1..N : (CHOOSE s \in S : rank[s] = n - 1) = (CHOOSE s \in S : Cardinality(Before(s)) = n - 1)
    OBVIOUS
  <2> QED BY <2>1 DEF Order
<1>11. \A n \in 1..N : Order(c)[n] \in S /\ rank[Order(c)[n]] = n - 1
  <2> TAKE n \in 1..N
  <2>1. \E s \in S : rank[s] = n - 1
    <3> HIDE DEF rank
    <3>1. n - 1 \in 0..(N - 1)
      BY <1>4
    <3> QED BY <1>9, <3>1
  <2>2. Order(c)[n] = CHOOSE s \in S : rank[s] = n - 1
    BY <1>10
  <2> HIDE DEF rank
  <2> QED BY <2>1, <2>2
<1>12. DOMAIN Order(c) = 1..N
  BY <1>10
<1>13. \A s \in S : \E i \in 1..N : Order(c)[i] = s
  <2> TAKE s \in S
  <2>1. PICK i \in 1..N : i - 1 = rank[s]
    <3>1. rank[s] \in 0..(N - 1)
      BY <1>5
    <3> HIDE DEF rank
    <3>2. rank[s] + 1 \in 1..N /\ (rank[s] + 1) - 1 = rank[s]
      BY <1>4, <3>1
    <3> QED BY <3>2
  <2> HIDE DEF rank
  <2>2. Order(c)[i] = s
    BY <1>8, <1>11, <2>1
  <2> QED BY <2>2
<1>14. ASSUME NEW i \in 1..N, NEW j \in 1..N, i < j
       PROVE  Place(Order(c)[i]) < Place(Order(c)[j])
  <2> DEFINE s == Order(c)[i]
             t == Order(c)[j]
  <2>1. s \in S /\ t \in S /\ rank[s] = i - 1 /\ rank[t] = j - 1
    BY <1>11
  <2>2. Place(s) \in Int /\ Place(t) \in Int
    BY <1>2, <2>1
  <2>3. Place(t) < Place(s) => rank[t] < rank[s]
    BY <1>6, <2>1
  <2>4. Place(s) = Place(t) => s = t
    BY <1>7, <2>1
  <2> HIDE DEF rank
  <2> QED BY <1>4, <1>14, <2>1, <2>2, <2>3, <2>4
<1> HIDE DEF rank
<1> QED BY <1>4, <1>11, <1>12, <1>13, <1>14

-----------------------------------------------------------------------------
(* WorkflowPlan: what the stages of a plan build on.                          *)
LEMMA StageShape ==
    ASSUME NEW c, NEW s \in StagesFor(c)
    PROVE  /\ s[1] \in 1..5 /\ s[2] \in DOMAIN Kinds /\ s = <<s[1], s[2]>> /\ Has(c, s)
           /\ Place(s) \in 8..42
BY StagePlaces DEF StagesFor, Layers

\* An upstream blocker is one set of stages of an earlier layer, or nothing meets it.
LEMMA UpstreamStages ==
    ASSUME NEW c, NEW l \in 1..5, NEW b \in Upstream(c, l)
    PROVE  \E set \in SUBSET {u \in StagesFor(c) : u[1] < l} : b \subseteq {set}
<1>1. PICK k \in DependsOn[l] : b = IF c.foundation THEN LayerComplete(c, k) ELSE Generated(c, k)
  BY DEF Upstream
<1>2. k \in 1..5 /\ k < l
  <2>1. l = 1 \/ l = 2 \/ l = 3 \/ l = 4 \/ l = 5
    OBVIOUS
  <2> QED BY <1>1, <2>1 DEF DependsOn
<1>3. CASE b = LayerComplete(c, k)
  <2> DEFINE set == {s \in StagesFor(c) : s[1] = k}
  <2>1. b \subseteq {set}
    BY <1>3 DEF LayerComplete, Unmet
  <2>2. set \in SUBSET {u \in StagesFor(c) : u[1] < l}
    BY <1>2
  <2> QED BY <2>1, <2>2
<1>4. CASE b = Generated(c, k)
  <2> DEFINE set == {<<k, split>> : split \in Splits}
  <2>1. CASE \A s \in set : Has(c, s)
    <3>1. b = {set}
      BY <1>4, <2>1 DEF Generated
    <3>2. \A u \in set : u \in StagesFor(c) /\ u[1] < l
      BY <1>2, <2>1 DEF StagesFor, Layers, Kinds, Splits
    <3>3. set \in SUBSET {u \in StagesFor(c) : u[1] < l}
      BY <3>2
    <3> HIDE DEF set
    <3> QED BY <3>1, <3>3
  <2>2. CASE ~\A s \in set : Has(c, s)
    <3>1. b = {}
      BY <1>4, <2>2 DEF Generated, Unmet
    <3> QED BY <3>1
  <2> QED BY <2>1, <2>2
<1> QED BY <1>1, <1>3, <1>4

\* The one stage that the completion of a stage asks for.
LEMMA CompleteStages ==
    ASSUME NEW c, NEW s \in Layers \X DOMAIN Kinds
    PROVE  \E set \in SUBSET {u \in StagesFor(c) : u = s} : StageComplete(c, s) \subseteq {set}
<1>1. CASE Has(c, s)
  <2>1. StageComplete(c, s) = {{s}} /\ s \in StagesFor(c)
    BY <1>1 DEF StageComplete, StagesFor
  <2> QED BY <2>1
<1>2. CASE ~Has(c, s)
  <2>1. StageComplete(c, s) = {}
    BY <1>2 DEF StageComplete, Unmet
  <2> QED BY <2>1
<1> QED BY <1>1, <1>2

\* The stages that come before s and belong to no later layer.
Before(c, s) == {u \in StagesFor(c) : Place(u) < Place(s) /\ u[1] <= s[1]}

\* A blocker is one set of stages before the stage, or the feature or input of a
\* layer whose feature stage comes before it.
LEMMA BlockerStages ==
    ASSUME NEW c, NEW arrived, NEW s \in StagesFor(c), NEW b \in Blockers(c, arrived, s)
    PROVE  \/ \E set \in SUBSET Before(c, s) : b \subseteq {set}
           \/ \E l \in 1..5 :
                 /\ b = FeatureOrInput(c, l)
                 /\ l < s[1] \/ (l = s[1] /\ s[2] = "train")
<1> DEFINE l == s[1]
           Simple == \E set \in SUBSET Before(c, s) : b \subseteq {set}
<1>1. l \in 1..5 /\ s[2] \in DOMAIN Kinds /\ s = <<l, s[2]>> /\ Has(c, s) /\ Place(s) = 7 * l + Kinds[s[2]]
  BY StageShape DEF Place
<1>2. \A k \in DOMAIN Kinds : Kinds[k] \in 1..7
  BY DEF Kinds
<1>3. \A u \in StagesFor(c) : u[1] < l => u \in Before(c, s)
  <2> TAKE u \in StagesFor(c)
  <2>1. u[1] \in 1..5 /\ u[2] \in DOMAIN Kinds
    BY StageShape
  <2>2. PICK x \in 1..7, y \in 1..7 : x = Kinds[u[2]] /\ y = Kinds[s[2]]
    BY <1>1, <1>2, <2>1
  <2>3. Place(u) = 7 * u[1] + x /\ Place(s) = 7 * l + y
    BY <1>1, <2>2 DEF Place
  <2>4. u[1] < l => Place(u) < Place(s) /\ u[1] <= s[1]
    BY <1>1, <2>1, <2>3
  <2> QED BY <2>4 DEF Before
<1>4. CASE b = {}
  <2>1. b \subseteq {{}} /\ {} \in SUBSET Before(c, s)
    BY <1>4
  <2> QED BY <2>1
<1>5. ASSUME b \in Upstream(c, l)
      PROVE  Simple
  <2>1. PICK set \in SUBSET {u \in StagesFor(c) : u[1] < l} : b \subseteq {set}
    BY <1>1, <1>5, UpstreamStages
  <2>2. set \in SUBSET Before(c, s)
    BY <1>3, <2>1
  <2> QED BY <2>1, <2>2
<1>6. ASSUME NEW k \in DOMAIN Kinds, Kinds[k] < Kinds[s[2]], b = StageComplete(c, <<l, k>>)
      PROVE  Simple
  <2>1. <<l, k>> \in Layers \X DOMAIN Kinds
    BY <1>1 DEF Layers
  <2>2. PICK set \in SUBSET {u \in StagesFor(c) : u = <<l, k>>} : b \subseteq {set}
    BY <1>6, <2>1, CompleteStages
  <2>3. \A u \in set : u \in Before(c, s)
    <3> TAKE u \in set
    <3>1. u \in StagesFor(c) /\ u[1] = l /\ Place(u) = 7 * l + Kinds[k]
      BY <2>2 DEF Place
    <3>2. PICK x \in 1..7, y \in 1..7 : x = Kinds[k] /\ y = Kinds[s[2]]
      BY <1>1, <1>2
    <3>3. Place(u) < Place(s) /\ u[1] <= s[1]
      BY <1>1, <1>6, <3>1, <3>2
    <3> QED BY <3>1, <3>3 DEF Before
  <2> QED BY <2>2, <2>3
<1>7. b \in Target(c, s) => b = {}
  BY DEF Target, Unmet
<1>8. \A input : b \in Waiting(arrived, input) => b = {}
  BY DEF Waiting, Unmet
<1>9. CASE b \notin Target(c, s)
  <2>1. CASE s[2] = "data"
    <3>1. b \in DataBlockers(c, arrived, l)
      BY <1>9, <2>1 DEF Blockers
    <3>2. l # 5 /\ HasInput(c, l)
      BY <1>1, <2>1 DEF Has, Splits
    <3>3. l = 1 \/ l = 2 \/ l = 3
      BY <1>1, <3>2 DEF HasInput, InputLayers, FoundationLayers
    <3>4. b \in Upstream(c, l) \/ b = {} \/ (l = 3 /\ b = FeatureOrInput(c, 1))
      BY <1>8, <3>1, <3>3 DEF DataBlockers
    <3>5. CASE l = 3 /\ b = FeatureOrInput(c, 1)
      BY <3>5
    <3> QED BY <1>4, <1>5, <3>4, <3>5
  <2>2. CASE s[2] = "option_chain"
    <3>1. b \in Upstream(c, l)
      BY <1>9, <2>2 DEF Blockers
    <3> QED BY <1>5, <3>1
  <2>3. CASE s[2] = "feature"
    <3>1. \/ b \in Upstream(c, l) \/ b = StageComplete(c, <<l, "option_chain">>)
          \/ b = StageComplete(c, <<l, "data">>)
      BY <1>9, <2>3 DEF Blockers
    <3>2. /\ "option_chain" \in DOMAIN Kinds /\ Kinds["option_chain"] < Kinds[s[2]]
          /\ "data" \in DOMAIN Kinds /\ Kinds["data"] < Kinds[s[2]]
      BY <2>3 DEF Kinds
    <3> QED BY <1>5, <1>6, <3>1, <3>2
  <2>4. CASE s[2] = "train"
    <3>1. b \in TrainBlockers(c, l)
      BY <1>9, <2>4 DEF Blockers
    <3>2. b \in Upstream(c, l) \/ b = FeatureOrInput(c, l)
      BY <3>1 DEF TrainBlockers
    <3>3. CASE b = FeatureOrInput(c, l)
      BY <1>1, <2>4, <3>3
    <3> QED BY <1>5, <3>2, <3>3
  <2>5. CASE s[2] = "validation"
    <3>1. b = StageComplete(c, <<l, "train">>)
      BY <1>9, <2>5 DEF Blockers
    <3>2. "train" \in DOMAIN Kinds /\ Kinds["train"] < Kinds[s[2]]
      BY <2>5 DEF Kinds
    <3> QED BY <1>6, <3>1, <3>2
  <2>6. CASE s[2] = "test"
    <3>1. b = StageComplete(c, <<l, "validation">>)
      BY <1>9, <2>6 DEF Blockers
    <3>2. "validation" \in DOMAIN Kinds /\ Kinds["validation"] < Kinds[s[2]]
      BY <2>6 DEF Kinds
    <3> QED BY <1>6, <3>1, <3>2
  <2>7. CASE s[2] = "checkpoint"
    <3>1. b = StageComplete(c, <<l, "test">>)
      BY <1>9, <2>7 DEF Blockers
    <3>2. "test" \in DOMAIN Kinds /\ Kinds["test"] < Kinds[s[2]]
      BY <2>7 DEF Kinds
    <3> QED BY <1>6, <3>1, <3>2
  <2>8. s[2] \in {"option_chain", "data", "feature", "train", "validation", "test", "checkpoint"}
    BY <1>1 DEF Kinds
  <2> QED BY <2>1, <2>2, <2>3, <2>4, <2>5, <2>6, <2>7, <2>8
<1> QED BY <1>4, <1>7, <1>9

\* The feature or input of a layer is asked of stages of that layer.
LEMMA PreparedStages ==
    ASSUME NEW c, NEW l \in 1..5, NEW set \in FeatureOrInput(c, l)
    PROVE  \E u \in StagesFor(c) :
              set = {u} /\ (u = <<l, "feature">> \/ u = <<l, "data">>)
<1>1. PICK u \in {<<l, "feature">>, <<l, "data">>} : Has(c, u) /\ set = {u}
  BY DEF FeatureOrInput
<1>2. u \in StagesFor(c)
  BY <1>1 DEF StagesFor, Layers, Kinds
<1> QED BY <1>1, <1>2

\* What a stage builds on comes before it and belongs to no later layer.
LEMMA BuildsOn ==
    ASSUME NEW c, NEW arrived, NEW s \in StagesFor(c), NEW b \in Blockers(c, arrived, s),
           NEW set \in b, NEW u \in set
    PROVE  u \in Before(c, s)
<1>1. CASE \E x \in SUBSET Before(c, s) : b \subseteq {x}
  BY <1>1
<1>2. ASSUME NEW l \in 1..5, b = FeatureOrInput(c, l), l < s[1] \/ (l = s[1] /\ s[2] = "train")
      PROVE  u \in Before(c, s)
  <2>1. u \in StagesFor(c) /\ (u = <<l, "feature">> \/ u = <<l, "data">>)
    BY <1>2, PreparedStages
  <2>2. s[1] \in 1..5 /\ s[2] \in DOMAIN Kinds /\ \A k \in DOMAIN Kinds : Kinds[k] \in 1..7
    BY StageShape DEF Kinds
  <2>3. u[1] = l /\ u[2] \in DOMAIN Kinds /\ (s[2] = "train" => Kinds[u[2]] < Kinds[s[2]])
    BY <2>1 DEF Kinds
  <2>4. PICK x \in 1..7, y \in 1..7 : x = Kinds[u[2]] /\ y = Kinds[s[2]]
    BY <2>2, <2>3
  <2>5. 7 * l + x < 7 * s[1] + y
    BY <1>2, <2>2, <2>3, <2>4
  <2>6. Place(u) < Place(s) /\ u[1] <= s[1]
    BY <1>2, <2>2, <2>3, <2>4, <2>5 DEF Place
  <2> QED BY <2>1, <2>6 DEF Before
<1> QED BY <1>1, <1>2, BlockerStages

\* Where a layer has both a data and a feature stage, the feature waits for the data
\* and for nothing that the data did not wait for, and it comes next.
LEMMA FeatureFollowsData ==
    ASSUME NEW c, NEW arrived, NEW l \in 1..5,
           <<l, "feature">> \in StagesFor(c), <<l, "data">> \in StagesFor(c)
    PROVE  /\ Blockers(c, arrived, <<l, "feature">>)
                 \subseteq Blockers(c, arrived, <<l, "data">>) \cup {{{<<l, "data">>}}}
           /\ {{<<l, "data">>}} \in Blockers(c, arrived, <<l, "feature">>)
<1>1. Has(c, <<l, "data">>)
  BY StageShape
<1>2. l # 5
  BY <1>1 DEF Has, Splits
<1>3. StageComplete(c, <<l, IF l = 5 THEN "option_chain" ELSE "data">>) = {{<<l, "data">>}}
  BY <1>1, <1>2 DEF StageComplete
<1>4. Blockers(c, arrived, <<l, "feature">>) = Target(c, <<l, "feature">>) \cup Upstream(c, l) \cup {{{<<l, "data">>}}}
  BY <1>3 DEF Blockers
<1>5. Target(c, <<l, "feature">>) = Target(c, <<l, "data">>)
  BY DEF Target
<1>6. Target(c, <<l, "data">>) \cup Upstream(c, l) \subseteq Blockers(c, arrived, <<l, "data">>)
  BY DEF Blockers, DataBlockers
<1> QED BY <1>4, <1>5, <1>6

\* Inputs that arrive only lift blockers.
LEMMA ArrivalLifts ==
    ASSUME NEW c, NEW before, NEW after, before \subseteq after, NEW s \in StagesFor(c)
    PROVE  Blockers(c, after, s) \subseteq Blockers(c, before, s)
<1>1. s[2] \in {"option_chain", "data", "feature", "train", "validation", "test", "checkpoint"}
  BY StageShape DEF Kinds
<1>2. \A input : Waiting(after, input) \subseteq Waiting(before, input)
  BY DEF Waiting
<1>3. CASE s[2] = "data"
  <2>1. s[1] = 1 \/ s[1] = 2 \/ s[1] = 3
    BY <1>3, StageShape DEF Has, Splits, HasInput, InputLayers, FoundationLayers
  <2>2. DataBlockers(c, after, s[1]) \subseteq DataBlockers(c, before, s[1])
    BY <1>2, <2>1 DEF DataBlockers
  <2> QED BY <1>3, <2>2 DEF Blockers
<1>4. CASE s[2] # "data"
  BY <1>1, <1>4 DEF Blockers
<1> QED BY <1>3, <1>4

-----------------------------------------------------------------------------
(* WorkflowPlan: checkpoints in which what is done stands on what is settled. *)
LEMMA PlanShape ==
    ASSUME NEW c, NEW arrived
    PROVE  /\ StagesOf(PlanFor(c, arrived)) = StagesFor(c)
           /\ PlanFor(c, arrived).order = Order(c)
           /\ \A s \in StagesFor(c) :
                 /\ PlanFor(c, arrived).blockers[s] = Blockers(c, arrived, s)
                 /\ PlanFor(c, arrived).layer[s] = s[1]
BY OrderIsByPlace DEF StagesOf, PlanFor

\* A checkpoint of a plan in which no stage is held, what is done has its blockers
\* met, and all that it builds on has ended.
Grounded(p, k) ==
    /\ k \in Checkpoints(p)
    /\ \A s \in StagesOf(p) : k.hold[s] = FALSE /\ k.status[s] # "not_applicable"
    /\ \A s \in StagesOf(p) : Done(k, s) => Unblocked(p, k, s)
    /\ \A s \in StagesOf(p) : Done(k, s) =>
          \A u \in UNION UNION p.blockers[s] : k.status[u] \in Terminal

\* Every open stage is ready or blocked as its blockers say.
Refreshed(p, k) ==
    \A s \in StagesOf(p) :
        k.status[s] \notin Terminal =>
            k.status[s] = IF Unblocked(p, k, s) THEN "ready" ELSE "blocked"

\* What a stage builds on comes before it: the blockers it has met stay met when
\* nothing that was done before it is undone.
LEMMA StaysUnblocked ==
    ASSUME NEW c, NEW arrived, NEW s \in StagesFor(c), NEW k, NEW r,
           \A u \in Before(c, s) : Done(k, u) => Done(r, u),
           Unblocked(PlanFor(c, arrived), k, s)
    PROVE  Unblocked(PlanFor(c, arrived), r, s)
<1>1. PlanFor(c, arrived).blockers[s] = Blockers(c, arrived, s)
  BY PlanShape
<1>2. ASSUME NEW b \in Blockers(c, arrived, s)
      PROVE  BlockerMet(r, b)
  <2>1. PICK set \in b : \A u \in set : Done(k, u)
    BY <1>1 DEF Unblocked, BlockerMet
  <2>2. \A u \in set : u \in Before(c, s)
    BY BuildsOn
  <2> QED BY <2>1, <2>2 DEF BlockerMet
<1> QED BY <1>1, <1>2 DEF Unblocked

\* Nothing becomes done, and what stays done keeps what ended before it.
Upholds(c, k, r) ==
    \A s \in StagesFor(c) :
        /\ r.hold[s] = FALSE /\ r.status[s] # "not_applicable"
        /\ Done(r, s) => Done(k, s)
        /\ Done(r, s) => \A u \in Before(c, s) :
              k.status[u] \in Terminal => r.status[u] = k.status[u]

\* Such a step leaves a checkpoint grounded.
LEMMA StaysGrounded ==
    ASSUME NEW c, NEW arrived, NEW k, NEW r,
           Grounded(PlanFor(c, arrived), k), r \in Checkpoints(PlanFor(c, arrived)),
           Upholds(c, k, r)
    PROVE  Grounded(PlanFor(c, arrived), r)
<1> DEFINE p == PlanFor(c, arrived)
<1>1. StagesOf(p) = StagesFor(c)
  BY PlanShape
<1>2. ASSUME NEW s \in StagesFor(c), Done(r, s)
      PROVE  /\ Unblocked(p, r, s)
             /\ \A u \in UNION UNION p.blockers[s] : r.status[u] \in Terminal
  <2>1. Done(k, s) /\ \A u \in Before(c, s) : k.status[u] \in Terminal => r.status[u] = k.status[u]
    BY <1>2 DEF Upholds
  <2>2. Unblocked(p, k, s) /\ \A u \in UNION UNION p.blockers[s] : k.status[u] \in Terminal
    BY <1>1, <2>1 DEF Grounded
  <2>3. \A u \in Before(c, s) : Done(k, u) => Done(r, u)
    BY <2>1 DEF Done, Terminal
  <2>4. Unblocked(p, r, s)
    BY <2>2, <2>3, StaysUnblocked
  <2>5. \A u \in UNION UNION p.blockers[s] : u \in Before(c, s)
    BY PlanShape, BuildsOn
  <2> QED BY <2>1, <2>2, <2>4, <2>5
<1> HIDE DEF p
<1> QED BY <1>1, <1>2 DEF Grounded, Upholds, p

\* refresh_workflow_state only looks at what has ended.
LEMMA RefreshGrounds ==
    ASSUME NEW c, NEW arrived, NEW k, Grounded(PlanFor(c, arrived), k)
    PROVE  /\ Grounded(PlanFor(c, arrived), Refresh(PlanFor(c, arrived), k))
           /\ Refreshed(PlanFor(c, arrived), Refresh(PlanFor(c, arrived), k))
           /\ \A s \in StagesFor(c) :
                 LET after == Refresh(PlanFor(c, arrived), k).status[s]
                 IN  /\ after \in Terminal <=> k.status[s] \in Terminal
                     /\ after \in Terminal => after = k.status[s]
<1> DEFINE p == PlanFor(c, arrived)
           r == Refresh(p, k)
<1>1. StagesOf(p) = StagesFor(c) /\ k \in Checkpoints(p)
      /\ \A s \in StagesFor(c) : k.hold[s] = FALSE /\ k.status[s] # "not_applicable"
  BY PlanShape DEF Grounded
<1>2. k.status \in [StagesFor(c) -> Status] /\ k.hold \in [StagesFor(c) -> BOOLEAN]
      /\ k = [status |-> k.status, hold |-> k.hold]
  BY <1>1 DEF Checkpoints
<1>3. /\ r.hold = k.hold
      /\ r.status = [s \in StagesFor(c) |->
                        IF k.status[s] \in Terminal \/ (k.status[s] = "blocked" /\ k.hold[s])
                        THEN k.status[s] ELSE IF Unblocked(p, k, s) THEN "ready" ELSE "blocked"]
      /\ r = [status |-> r.status, hold |-> r.hold]
  <2> HIDE DEF p
  <2> QED BY <1>2 DEF Refresh
<1>4. \A s \in StagesFor(c) :
         /\ k.status[s] \in Terminal => r.status[s] = k.status[s]
         /\ k.status[s] \notin Terminal =>
               r.status[s] = IF Unblocked(p, k, s) THEN "ready" ELSE "blocked"
  <2> HIDE DEF p, r
  <2> QED BY <1>1, <1>3
<1>5. \A s \in StagesFor(c) : /\ r.status[s] \in Terminal <=> k.status[s] \in Terminal
                              /\ r.status[s] \in Terminal => r.status[s] = k.status[s]
  <2> HIDE DEF p, r
  <2> QED BY <1>4 DEF Terminal
<1>6. \A s \in StagesFor(c) : Done(r, s) <=> Done(k, s)
  <2> HIDE DEF p, r
  <2> QED BY <1>4, <1>5 DEF Done, Terminal
<1>7. r \in Checkpoints(p)
  <2>1. \A s \in StagesFor(c) : r.status[s] \in Status
    <3> HIDE DEF p, r
    <3> QED BY <1>2, <1>4 DEF Status
  <2>2. r.status \in [StagesFor(c) -> Status]
    <3>1. DOMAIN r.status = StagesFor(c) /\ r.status = [s \in StagesFor(c) |-> r.status[s]]
      <4> HIDE DEF p
      <4> QED BY <1>3
    <3> HIDE DEF r
    <3> QED BY <2>1, <3>1
  <2> HIDE DEF p, r
  <2> QED BY <1>1, <1>2, <1>3, <2>2 DEF Checkpoints
<1>8. \A s \in StagesFor(c) : r.hold[s] = FALSE /\ r.status[s] # "not_applicable"
  <2> HIDE DEF p, r
  <2> QED BY <1>1, <1>3, <1>4 DEF Terminal
<1>9. Grounded(p, r)
  <2>1. Upholds(c, k, r)
    <3> HIDE DEF p, r
    <3> QED BY <1>4, <1>6, <1>8 DEF Before, Upholds
  <2>2. r \in Checkpoints(PlanFor(c, arrived))
    BY <1>7
  <2> HIDE DEF r
  <2>3. Grounded(PlanFor(c, arrived), r)
    BY <2>1, <2>2, StaysGrounded
  <2> QED BY <2>3
<1>10. \A s \in StagesFor(c) : Unblocked(p, r, s) <=> Unblocked(p, k, s)
  <2> TAKE s \in StagesFor(c)
  <2>1. \A u \in Before(c, s) : (Done(r, u) => Done(k, u)) /\ (Done(k, u) => Done(r, u))
    <3> HIDE DEF p, r
    <3> QED BY <1>6 DEF Before
  <2> HIDE DEF r
  <2> QED BY <2>1, StaysUnblocked
<1>11. Refreshed(p, r)
  <2> HIDE DEF p, r
  <2> QED BY <1>1, <1>4, <1>5, <1>10 DEF Refreshed
<1> HIDE DEF p, r
<1> QED BY <1>5, <1>9, <1>11 DEF p, r

\* The stage a tick runs builds on nothing that is still open: the feature stage of
\* a layer that has its data is ready, and comes first.
LEMMA FirstReadyIsSettled ==
    ASSUME NEW c, NEW arrived, NEW k, NEW s \in StagesFor(c),
           Grounded(PlanFor(c, arrived), k), Refreshed(PlanFor(c, arrived), k),
           k.status[s] = "ready",
           \A t \in StagesFor(c) : Place(t) < Place(s) => k.status[t] # "ready",
           NEW b \in Blockers(c, arrived, s), NEW set \in b, NEW u \in set
    PROVE  k.status[u] \in Terminal
<1> DEFINE p == PlanFor(c, arrived)
<1>1. /\ StagesOf(p) = StagesFor(c)
      /\ \A t \in StagesFor(c) : p.blockers[t] = Blockers(c, arrived, t)
  BY PlanShape
<1>2. \A t \in StagesFor(c) : Done(k, t) => Unblocked(p, k, t)
  BY <1>1 DEF Grounded
<1>3. Unblocked(p, k, s)
  BY <1>1 DEF Refreshed, Terminal
<1>4. PICK x \in b : \A v \in x : Done(k, v)
  BY <1>1, <1>3 DEF Unblocked, BlockerMet
<1>5. \A v : Done(k, v) => k.status[v] \in Terminal
  BY DEF Done, Terminal
<1>6. CASE \E y \in SUBSET Before(c, s) : b \subseteq {y}
  <2>1. x = set
    BY <1>6
  <2> QED BY <1>4, <1>5, <2>1
<1>7. ASSUME NEW l \in 1..5, b = FeatureOrInput(c, l)
      PROVE  k.status[u] \in Terminal
  <2> DEFINE f == <<l, "feature">>
             d == <<l, "data">>
  <2>1. u \in StagesFor(c) /\ (u = f \/ u = d)
    BY <1>7, PreparedStages
  <2>2. PICK v \in StagesFor(c) : x = {v} /\ (v = f \/ v = d)
    BY <1>7, PreparedStages
  <2>3. Done(k, v)
    BY <1>4, <2>2
  <2>4. CASE u = v
    BY <1>5, <2>3, <2>4
  <2>5. CASE v = f /\ u = d
    <3>1. {{d}} \in Blockers(c, arrived, f)
      BY <2>1, <2>2, <2>5, FeatureFollowsData
    <3>2. BlockerMet(k, {{d}})
      BY <1>1, <1>2, <2>2, <2>3, <2>5, <3>1 DEF Unblocked
    <3>3. Done(k, d)
      BY <3>2 DEF BlockerMet
    <3> QED BY <1>5, <2>5, <3>3
  <2>6. CASE v = d /\ u = f
    <3>1. Blockers(c, arrived, f) \subseteq Blockers(c, arrived, d) \cup {{{d}}}
      BY <2>1, <2>2, <2>6, FeatureFollowsData
    <3>2. \A z \in Blockers(c, arrived, d) : BlockerMet(k, z)
      BY <1>1, <1>2, <2>2, <2>3, <2>6 DEF Unblocked
    <3>3. BlockerMet(k, {{d}})
      BY <2>3, <2>6 DEF BlockerMet
    <3>4. Unblocked(p, k, f)
      BY <1>1, <2>1, <2>6, <3>1, <3>2, <3>3 DEF Unblocked
    <3>5. u \in Before(c, s)
      BY BuildsOn
    <3>6. k.status[f] # "ready"
      BY <2>1, <2>6, <3>5 DEF Before
    <3>7. k.status[f] \notin Terminal => k.status[f] = "ready"
      BY <1>1, <2>1, <2>6, <3>4 DEF Refreshed
    <3> QED BY <2>6, <3>6, <3>7
  <2> QED BY <2>1, <2>2, <2>4, <2>5, <2>6
<1> QED BY <1>6, <1>7, BlockerStages

-----------------------------------------------------------------------------
(* WorkflowPlan: every operation leaves a checkpoint grounded.                *)
\* The stage a tick would run is the first that is ready.
LEMMA NextReadyIsFirst ==
    ASSUME NEW c, NEW arrived, NEW k,
           NEW s \in {NextReady(PlanFor(c, arrived), k, NoStage)} \ {NoStage}
    PROVE  /\ s \in StagesFor(c) /\ k.status[s] = "ready"
           /\ \A t \in StagesFor(c) : Place(t) < Place(s) => k.status[t] # "ready"
<1> DEFINE order == Order(c)
           first(i) == /\ k.status[order[i]] = "ready"
                       /\ \A j \in 1..(i - 1) : k.status[order[j]] # "ready"
<1>1. PlanFor(c, arrived).order = order
  BY PlanShape
<1>2. s = IF \E i \in DOMAIN order : first(i)
          THEN order[CHOOSE i \in DOMAIN order : first(i)] ELSE NoStage
  <2> HIDE DEF order
  <2> QED BY <1>1 DEF NextReady
<1>3. s # NoStage
  OBVIOUS
<1>4. PICK i \in DOMAIN order : first(i) /\ s = order[i]
  <2> HIDE DEF order
  <2>1. \E i \in DOMAIN order : first(i)
    BY <1>2, <1>3
  <2> QED BY <1>2, <2>1
<1>5. /\ DOMAIN order = 1..Cardinality(StagesFor(c)) /\ Cardinality(StagesFor(c)) \in Nat
      /\ \A j \in DOMAIN order : order[j] \in StagesFor(c)
      /\ \A t \in StagesFor(c) : \E j \in DOMAIN order : order[j] = t
      /\ \A x, y \in DOMAIN order : x < y => Place(order[x]) < Place(order[y])
  BY OrderIsByPlace
<1> HIDE DEF order
<1>6. ASSUME NEW t \in StagesFor(c), Place(t) < Place(s)
      PROVE  k.status[t] # "ready"
  <2>1. PICK j \in DOMAIN order : order[j] = t
    BY <1>5
  <2>2. Place(t) \in Int /\ Place(s) \in Int
    <3>1. Place(t) \in 8..42 /\ s \in StagesFor(c)
      BY <1>4, <1>5, StageShape
    <3>2. Place(s) \in 8..42
      BY <3>1, StageShape
    <3> QED BY <3>1, <3>2
  <2>3. i \in Nat /\ j \in Nat /\ j > 0
    BY <1>5
  <2>4. i < j => Place(s) < Place(t)
    BY <1>4, <1>5, <2>1
  <2>5. i # j
    BY <1>4, <1>6, <2>1, <2>2
  <2>6. j \in 1..(i - 1)
    BY <1>6, <2>2, <2>3, <2>4, <2>5
  <2> QED BY <1>4, <2>1, <2>6
<1> QED BY <1>4, <1>5, <1>6

LEMMA GroundedShape ==
    ASSUME NEW c, NEW arrived, NEW k, Grounded(PlanFor(c, arrived), k)
    PROVE  /\ k.status \in [StagesFor(c) -> Status] /\ k.hold \in [StagesFor(c) -> BOOLEAN]
           /\ k = [status |-> k.status, hold |-> k.hold]
           /\ \A s \in StagesFor(c) : k.hold[s] = FALSE /\ k.status[s] # "not_applicable"
BY PlanShape DEF Grounded, Checkpoints

\* A checkpoint of the plan, from its two rows.
LEMMA MadeCheckpoint ==
    ASSUME NEW c, NEW arrived, NEW status \in [StagesFor(c) -> Status],
           NEW hold \in [StagesFor(c) -> BOOLEAN]
    PROVE  [status |-> status, hold |-> hold] \in Checkpoints(PlanFor(c, arrived))
BY PlanShape DEF Checkpoints

\* The first ready stage succeeds.
LEMMA SuccessGrounds ==
    ASSUME NEW c, NEW arrived, NEW k, NEW s \in StagesFor(c),
           Grounded(PlanFor(c, arrived), k), Refreshed(PlanFor(c, arrived), k),
           k.status[s] = "ready",
           \A t \in StagesFor(c) : Place(t) < Place(s) => k.status[t] # "ready"
    PROVE  Grounded(PlanFor(c, arrived), Succeeded(k, s))
<1> DEFINE p == PlanFor(c, arrived)
<1>1. PICK r : r = Succeeded(k, s)
  OBVIOUS
<1>2. /\ k.status \in [StagesFor(c) -> Status] /\ k.hold \in [StagesFor(c) -> BOOLEAN]
      /\ k = [status |-> k.status, hold |-> k.hold]
      /\ \A t \in StagesFor(c) : k.hold[t] = FALSE /\ k.status[t] # "not_applicable"
  BY GroundedShape
<1>3. r = [status |-> [k.status EXCEPT ![s] = "succeeded"], hold |-> [k.hold EXCEPT ![s] = FALSE]]
  BY <1>1, <1>2 DEF Succeeded
<1>4. r \in Checkpoints(p)
  <2>1. [k.status EXCEPT ![s] = "succeeded"] \in [StagesFor(c) -> Status]
    BY <1>2 DEF Status
  <2>2. [k.hold EXCEPT ![s] = FALSE] \in [StagesFor(c) -> BOOLEAN]
    BY <1>2
  <2> QED BY <1>3, <2>1, <2>2, MadeCheckpoint
<1>5. /\ \A t \in StagesFor(c) : r.hold[t] = FALSE
      /\ \A t \in StagesFor(c) : r.status[t] = IF t = s THEN "succeeded" ELSE k.status[t]
  BY <1>2, <1>3
<1>6. \A t \in StagesFor(c) : (Done(k, t) => Done(r, t)) /\ (k.status[t] \in Terminal => r.status[t] \in Terminal)
  BY <1>5 DEF Done, Terminal
<1>7. StagesOf(p) = StagesFor(c) /\ \A t \in StagesFor(c) : p.blockers[t] = Blockers(c, arrived, t)
  BY PlanShape
<1>8. ASSUME NEW t \in StagesFor(c), Done(r, t)
      PROVE  /\ Unblocked(p, r, t)
             /\ \A u \in UNION UNION p.blockers[t] : r.status[u] \in Terminal
  <2>1. \A u \in UNION UNION p.blockers[t] : u \in StagesFor(c)
    BY <1>7, BuildsOn DEF Before
  <2>2. Unblocked(p, k, t) /\ \A u \in UNION UNION p.blockers[t] : k.status[u] \in Terminal
    <3>1. CASE t = s
      <4>1. Unblocked(p, k, s)
        BY <1>7 DEF Refreshed, Terminal
      <4>2. \A u \in UNION UNION p.blockers[s] : k.status[u] \in Terminal
        BY <1>7, FirstReadyIsSettled
      <4> QED BY <3>1, <4>1, <4>2
    <3>2. CASE t # s
      <4>1. Done(k, t)
        BY <1>5, <1>8, <3>2 DEF Done
      <4> QED BY <1>7, <4>1 DEF Grounded
    <3> QED BY <3>1, <3>2
  <2>3. \A u \in Before(c, t) : Done(k, u) => Done(r, u)
    BY <1>6 DEF Before
  <2>4. Unblocked(p, r, t)
    BY <2>2, <2>3, StaysUnblocked
  <2> QED BY <1>6, <2>1, <2>2, <2>4
<1>9. \A t \in StagesFor(c) : r.status[t] # "not_applicable"
  BY <1>2, <1>5
<1> HIDE DEF p
<1>10. Grounded(p, r)
  BY <1>4, <1>5, <1>7, <1>8, <1>9 DEF Grounded
<1> QED BY <1>1, <1>10 DEF p

\* An open stage fails.
LEMMA FailureGrounds ==
    ASSUME NEW c, NEW arrived, NEW k, NEW s \in StagesFor(c),
           Grounded(PlanFor(c, arrived), k), k.status[s] \notin Terminal
    PROVE  Grounded(PlanFor(c, arrived), Failed(k, s))
<1>1. PICK r : r = Failed(k, s)
  OBVIOUS
<1>2. /\ k.status \in [StagesFor(c) -> Status] /\ k.hold \in [StagesFor(c) -> BOOLEAN]
      /\ k = [status |-> k.status, hold |-> k.hold]
      /\ \A t \in StagesFor(c) : k.hold[t] = FALSE /\ k.status[t] # "not_applicable"
  BY GroundedShape
<1>3. r = [status |-> [k.status EXCEPT ![s] = "failed"], hold |-> [k.hold EXCEPT ![s] = FALSE]]
  BY <1>1, <1>2 DEF Failed
<1>4. r \in Checkpoints(PlanFor(c, arrived))
  <2>1. [k.status EXCEPT ![s] = "failed"] \in [StagesFor(c) -> Status]
    BY <1>2 DEF Status
  <2>2. [k.hold EXCEPT ![s] = FALSE] \in [StagesFor(c) -> BOOLEAN]
    BY <1>2
  <2> QED BY <1>3, <2>1, <2>2, MadeCheckpoint
<1>5. /\ \A t \in StagesFor(c) : r.hold[t] = FALSE
      /\ \A t \in StagesFor(c) : r.status[t] = IF t = s THEN "failed" ELSE k.status[t]
  BY <1>2, <1>3
<1>6. Upholds(c, k, r)
  BY <1>2, <1>5 DEF Upholds, Before, Done, Terminal
<1>7. Grounded(PlanFor(c, arrived), r)
  BY <1>4, <1>6, StaysGrounded
<1> QED BY <1>1, <1>7

\* A reset clears the cut and all that comes after it.
LEMMA ResetGrounds ==
    ASSUME NEW c, NEW arrived, NEW k, Grounded(PlanFor(c, arrived), k),
           NEW cut \in DOMAIN Order(c)
    PROVE  Grounded(PlanFor(c, arrived), ResetFrom(PlanFor(c, arrived), k, cut))
<1> DEFINE order == Order(c)
           hit == {order[i] : i \in cut..Len(order)}
           clear(s) == s \in hit /\ k.status[s] # "not_applicable"
           cleared == [status |-> [s \in DOMAIN k.status |->
                                      IF clear(s) THEN "pending" ELSE k.status[s]],
                       hold   |-> [s \in DOMAIN k.hold |-> ~clear(s) /\ k.hold[s]]]
<1>1. PlanFor(c, arrived).order = order
  BY PlanShape
<1>2. ResetFrom(PlanFor(c, arrived), k, cut) = Refresh(PlanFor(c, arrived), cleared)
  <2> HIDE DEF order
  <2> QED BY <1>1 DEF ResetFrom
<1>3. PICK r : r = cleared
  OBVIOUS
<1>4. /\ k.status \in [StagesFor(c) -> Status] /\ k.hold \in [StagesFor(c) -> BOOLEAN]
      /\ k = [status |-> k.status, hold |-> k.hold]
      /\ \A t \in StagesFor(c) : k.hold[t] = FALSE /\ k.status[t] # "not_applicable"
  BY GroundedShape
<1>5. /\ r.status = [s \in StagesFor(c) |-> IF clear(s) THEN "pending" ELSE k.status[s]]
      /\ r.hold = [s \in StagesFor(c) |-> ~clear(s) /\ k.hold[s]]
      /\ r = [status |-> r.status, hold |-> r.hold]
  <2> HIDE DEF hit
  <2> QED BY <1>3, <1>4
<1>6. r \in Checkpoints(PlanFor(c, arrived))
  <2> HIDE DEF hit
  <2>1. r.status \in [StagesFor(c) -> Status]
    BY <1>4, <1>5 DEF Status
  <2>2. r.hold \in [StagesFor(c) -> BOOLEAN]
    BY <1>5
  <2>3. [status |-> r.status, hold |-> r.hold] \in Checkpoints(PlanFor(c, arrived))
    BY <2>1, <2>2, MadeCheckpoint
  <2> QED BY <1>5, <2>3
<1>7. /\ \A s \in StagesFor(c) : r.hold[s] = FALSE
      /\ \A s \in StagesFor(c) : r.status[s] = IF s \in hit THEN "pending" ELSE k.status[s]
  <2> HIDE DEF hit
  <2> QED BY <1>4, <1>5
<1>8. /\ cut \in DOMAIN order
      /\ DOMAIN order = 1..Cardinality(StagesFor(c)) /\ Cardinality(StagesFor(c)) \in Nat
      /\ \A j \in DOMAIN order : order[j] \in StagesFor(c)
      /\ \A t \in StagesFor(c) : \E j \in DOMAIN order : order[j] = t
      /\ \A x, y \in DOMAIN order : x < y => Place(order[x]) < Place(order[y])
  BY OrderIsByPlace
<1>9. Len(order) = Cardinality(StagesFor(c))
  <2>1. order \in Seq(StagesFor(c))
    <3>1. order = [n \in 1..Cardinality(StagesFor(c)) |-> order[n]]
      BY <1>8 DEF Order
    <3> HIDE DEF order
    <3> QED BY <1>8, <3>1
  <2> HIDE DEF order
  <2> QED BY <1>8, <2>1
<1>10. ASSUME NEW s \in StagesFor(c), s \notin hit, NEW u \in Before(c, s)
       PROVE  u \notin hit
  <2> HIDE DEF order
  <2>1. SUFFICES ASSUME u \in hit
                 PROVE  FALSE
    OBVIOUS
  <2>2. PICK j \in cut..Len(order) : u = order[j]
    BY <2>1
  <2>3. PICK i \in DOMAIN order : s = order[i]
    BY <1>8
  <2>4. cut \in Nat /\ i \in Nat /\ j \in Nat /\ i <= Len(order) /\ j \in DOMAIN order
    BY <1>8, <1>9, <2>2, <2>3
  <2>5. i < cut
    BY <1>8, <1>9, <1>10, <2>3, <2>4
  <2>6. Place(s) < Place(u)
    BY <1>8, <2>2, <2>3, <2>4, <2>5
  <2>7. u \in StagesFor(c) /\ Place(u) < Place(s)
    BY DEF Before
  <2>8. PICK x \in 8..42, y \in 8..42 : x = Place(u) /\ y = Place(s)
    <3>1. Place(u) \in 8..42
      BY <2>7, StageShape
    <3>2. Place(s) \in 8..42
      BY StageShape
    <3> QED BY <3>1, <3>2, Zenon
  <2> QED BY <2>6, <2>7, <2>8
<1>11. Upholds(c, k, r)
  <2> SUFFICES ASSUME NEW s \in StagesFor(c)
               PROVE  /\ r.hold[s] = FALSE /\ r.status[s] # "not_applicable"
                      /\ Done(r, s) => Done(k, s)
                      /\ Done(r, s) => \A u \in Before(c, s) :
                            k.status[u] \in Terminal => r.status[u] = k.status[u]
    BY DEF Upholds
  <2> HIDE DEF hit
  <2>1. r.hold[s] = FALSE /\ r.status[s] # "not_applicable"
    BY <1>4, <1>7
  <2>2. Done(r, s) => s \notin hit
    BY <1>7 DEF Done
  <2>3. s \notin hit => r.status[s] = k.status[s]
    BY <1>7
  <2>4. s \notin hit => \A u \in Before(c, s) : r.status[u] = k.status[u]
    BY <1>7, <1>10 DEF Before
  <2> QED BY <2>1, <2>2, <2>3, <2>4 DEF Done
<1> HIDE DEF cleared
<1>12. Grounded(PlanFor(c, arrived), r)
  BY <1>6, <1>11, StaysGrounded
<1>13. Grounded(PlanFor(c, arrived), Refresh(PlanFor(c, arrived), r))
  BY <1>12, RefreshGrounds
<1> QED BY <1>2, <1>3, <1>13

\* An invalidation fails a layer and all later ones.
LEMMA InvalidationGrounds ==
    ASSUME NEW c, NEW arrived, NEW k, Grounded(PlanFor(c, arrived), k), NEW floor \in 1..5
    PROVE  Grounded(PlanFor(c, arrived), Invalidated(PlanFor(c, arrived), k, floor))
<1> DEFINE p == PlanFor(c, arrived)
           hit(s) == p.layer[s] >= floor
                     /\ k.status[s] \in {"succeeded", "ready", "blocked", "pending"}
<1>1. PICK r : r = Invalidated(p, k, floor)
  OBVIOUS
<1>2. /\ k.status \in [StagesFor(c) -> Status] /\ k.hold \in [StagesFor(c) -> BOOLEAN]
      /\ k = [status |-> k.status, hold |-> k.hold]
      /\ \A t \in StagesFor(c) : k.hold[t] = FALSE /\ k.status[t] # "not_applicable"
  BY GroundedShape
<1>3. \A s \in StagesFor(c) : p.layer[s] = s[1] /\ s[1] \in 1..5
  BY PlanShape, StageShape
<1> HIDE DEF p
<1>4. /\ r.status = [s \in StagesFor(c) |-> IF hit(s) THEN "failed" ELSE k.status[s]]
      /\ r.hold = [s \in StagesFor(c) |-> ~hit(s) /\ k.hold[s]]
      /\ r = [status |-> r.status, hold |-> r.hold]
  BY <1>1, <1>2 DEF Invalidated
<1>5. r \in Checkpoints(PlanFor(c, arrived))
  <2>1. r.status \in [StagesFor(c) -> Status]
    BY <1>2, <1>4 DEF Status
  <2>2. r.hold \in [StagesFor(c) -> BOOLEAN]
    BY <1>4
  <2>3. [status |-> r.status, hold |-> r.hold] \in Checkpoints(PlanFor(c, arrived))
    BY <2>1, <2>2, MadeCheckpoint
  <2> QED BY <1>4, <2>3
<1>6. /\ \A s \in StagesFor(c) : r.hold[s] = FALSE
      /\ \A s \in StagesFor(c) : s[1] < floor => r.status[s] = k.status[s]
      /\ \A s \in StagesFor(c) : s[1] >= floor => r.status[s] = "failed"
      /\ \A s \in StagesFor(c) : r.status[s] # "not_applicable"
  BY <1>2, <1>3, <1>4 DEF Status
<1>7. Upholds(c, k, r)
  <2> SUFFICES ASSUME NEW s \in StagesFor(c)
               PROVE  /\ r.hold[s] = FALSE /\ r.status[s] # "not_applicable"
                      /\ Done(r, s) => Done(k, s)
                      /\ Done(r, s) => \A u \in Before(c, s) :
                            k.status[u] \in Terminal => r.status[u] = k.status[u]
    BY DEF Upholds
  <2>1. Done(r, s) => s[1] < floor
    BY <1>3, <1>6 DEF Done
  <2>2. s[1] < floor => \A u \in Before(c, s) : r.status[u] = k.status[u]
    BY <1>3, <1>6 DEF Before
  <2> QED BY <1>6, <2>1, <2>2 DEF Done
<1>8. Grounded(PlanFor(c, arrived), r)
  BY <1>5, <1>7, StaysGrounded
<1> QED BY <1>1, <1>8 DEF p

\* Inputs that arrive change no stage and lift blockers.
LEMMA ArrivalGrounds ==
    ASSUME NEW c, NEW arrived, NEW more, arrived \subseteq more, NEW k,
           Grounded(PlanFor(c, arrived), k)
    PROVE  Grounded(PlanFor(c, more), k)
<1>1. /\ StagesOf(PlanFor(c, arrived)) = StagesFor(c) /\ StagesOf(PlanFor(c, more)) = StagesFor(c)
      /\ \A s \in StagesFor(c) : PlanFor(c, arrived).blockers[s] = Blockers(c, arrived, s)
      /\ \A s \in StagesFor(c) : PlanFor(c, more).blockers[s] = Blockers(c, more, s)
  BY PlanShape
<1>2. \A s \in StagesFor(c) : Blockers(c, more, s) \subseteq Blockers(c, arrived, s)
  BY ArrivalLifts
<1>3. Checkpoints(PlanFor(c, arrived)) = Checkpoints(PlanFor(c, more))
  BY <1>1 DEF Checkpoints
<1> QED BY <1>1, <1>2, <1>3 DEF Grounded, Unblocked

\* Nothing is done at first.
LEMMA InitialGrounds ==
    ASSUME NEW c, NEW arrived
    PROVE  Grounded(PlanFor(c, arrived), Initial(PlanFor(c, arrived)))
<1> DEFINE p == PlanFor(c, arrived)
           fresh == [status |-> [s \in StagesFor(c) |-> "pending"], hold |-> [s \in StagesFor(c) |-> FALSE]]
<1>1. StagesOf(p) = StagesFor(c)
  BY PlanShape
<1>2. Grounded(p, fresh)
  <2>1. fresh \in Checkpoints(p)
    <3>1. [s \in StagesFor(c) |-> "pending"] \in [StagesFor(c) -> Status]
      BY DEF Status
    <3>2. [s \in StagesFor(c) |-> FALSE] \in [StagesFor(c) -> BOOLEAN]
      OBVIOUS
    <3> QED BY <3>1, <3>2, MadeCheckpoint
  <2>2. \A s \in StagesFor(c) : fresh.status[s] = "pending" /\ fresh.hold[s] = FALSE
    OBVIOUS
  <2>3. \A s \in StagesFor(c) : ~Done(fresh, s)
    BY <2>2 DEF Done
  <2> HIDE DEF p, fresh
  <2> QED BY <1>1, <2>1, <2>2, <2>3 DEF Grounded
<1>3. Initial(p) = Refresh(p, fresh)
  <2> HIDE DEF p
  <2> QED BY <1>1 DEF Initial
<1> HIDE DEF fresh
<1> QED BY <1>2, <1>3, RefreshGrounds

-----------------------------------------------------------------------------
(* WorkflowPlan: the invariant.                                               *)
\* Nothing is ever stale, because all that a done stage builds on has ended, and a
\* stage only runs while it is open.
PlanInv ==
    /\ scope \in Scopes /\ inputs \subseteq Inputs /\ plan = PlanFor(scope, inputs)
    /\ Grounded(plan, ck) /\ stale = {}
    /\ budget \in [fail : Nat, revise : Nat]

LEMMA PlanInvInit == Init => PlanInv
<1> SUFFICES ASSUME Init
             PROVE  PlanInv
  OBVIOUS
<1>1. Grounded(plan, ck)
  BY InitialGrounds DEF Init
<1>2. budget \in [fail : Nat, revise : Nat]
  BY ScopesAssumption DEF Init
<1> QED BY <1>1, <1>2 DEF Init, PlanInv

LEMMA PlanInvStep == PlanInv /\ [Next]_vars => PlanInv'
<1> SUFFICES ASSUME PlanInv, [Next]_vars
             PROVE  PlanInv'
  OBVIOUS
<1> USE DEF PlanInv
<1>1. CASE Arrive
  <2>1. inputs \subseteq inputs' /\ inputs' \subseteq Inputs
    BY <1>1 DEF Arrive
  <2>2. plan' = PlanFor(scope, inputs') /\ UNCHANGED <<scope, ck, stale, budget>>
    BY <1>1 DEF Arrive
  <2>3. Grounded(PlanFor(scope, inputs'), ck)
    BY <2>1, ArrivalGrounds
  <2> QED BY <2>1, <2>2, <2>3
<1>2. /\ Grounded(plan, Loaded) /\ Refreshed(plan, Loaded)
      /\ \A s \in StagesFor(scope) :
            /\ Loaded.status[s] \in Terminal <=> ck.status[s] \in Terminal
            /\ Loaded.status[s] \in Terminal => Loaded.status[s] = ck.status[s]
  BY RefreshGrounds DEF Loaded
<1>3. ASSUME NEW s \in Runnable
      PROVE  /\ s \in StagesFor(scope) /\ Loaded.status[s] = "ready"
             /\ \A t \in StagesFor(scope) : Place(t) < Place(s) => Loaded.status[t] # "ready"
  <2>1. s \in {NextReady(PlanFor(scope, inputs), Loaded, NoStage)} \ {NoStage}
    BY DEF Runnable
  <2> QED BY <2>1, NextReadyIsFirst
<1>4. CASE Execute
  <2>1. PICK s \in Runnable :
           /\ ck' = Refresh(plan, Succeeded(Loaded, s))
           /\ stale' = (stale \ {s}) \cup {t \in Stage : s \in Uses(t) /\ Done(ck, t)}
    BY <1>4 DEF Execute
  <2>2. UNCHANGED <<scope, inputs, plan, budget>>
    BY <1>4 DEF Execute
  <2>3. Grounded(PlanFor(scope, inputs), Succeeded(Loaded, s))
    BY <1>2, <1>3, SuccessGrounds
  <2>4. Grounded(plan, ck')
    BY <2>1, <2>3, RefreshGrounds
  <2>5. ck.status[s] \notin Terminal
    BY <1>2, <1>3 DEF Terminal
  <2>6. \A t \in Stage : Done(ck, t) => \A u \in Uses(t) : ck.status[u] \in Terminal
    BY DEF Grounded, Stage, Uses
  <2>7. stale' = {}
    BY <2>1, <2>5, <2>6
  <2> QED BY <2>2, <2>4, <2>7
<1>5. CASE Fail
  <2>1. PICK s \in Runnable : ck' = Failed(Loaded, s)
    BY <1>5 DEF Fail
  <2>2. UNCHANGED <<scope, inputs, plan, stale>> /\ budget' = [budget EXCEPT !.fail = @ - 1]
        /\ budget.fail > 0
    BY <1>5 DEF Fail
  <2>3. Grounded(PlanFor(scope, inputs), Failed(Loaded, s))
    BY <1>2, <1>3, FailureGrounds DEF Terminal
  <2>4. budget' \in [fail : Nat, revise : Nat]
    BY <2>2
  <2> QED BY <2>1, <2>2, <2>3, <2>4
<1>6. CASE Reset
  <2>1. PICK cut \in Cutpoints : ck' = ResetFrom(plan, Loaded, cut)
    BY <1>6 DEF Reset
  <2>2. UNCHANGED <<scope, inputs, plan, stale>> /\ budget' = [budget EXCEPT !.revise = @ - 1]
        /\ budget.revise > 0
    BY <1>6 DEF Reset
  <2>3. cut \in DOMAIN Order(scope)
    BY PlanShape DEF Cutpoints
  <2>4. Grounded(PlanFor(scope, inputs), ResetFrom(PlanFor(scope, inputs), Loaded, cut))
    BY <1>2, <2>3, ResetGrounds
  <2>5. budget' \in [fail : Nat, revise : Nat]
    BY <2>2
  <2> QED BY <2>1, <2>2, <2>4, <2>5
<1>7. CASE Invalidate
  <2>1. PICK floor \in 1..5 : ck' = Invalidated(plan, ck, floor)
    BY <1>7 DEF Invalidate, Layers
  <2>2. UNCHANGED <<scope, inputs, plan, stale>> /\ budget' = [budget EXCEPT !.revise = @ - 1]
        /\ budget.revise > 0
    BY <1>7 DEF Invalidate
  <2>3. Grounded(PlanFor(scope, inputs), Invalidated(PlanFor(scope, inputs), ck, floor))
    BY InvalidationGrounds
  <2>4. budget' \in [fail : Nat, revise : Nat]
    BY <2>2
  <2> QED BY <2>1, <2>2, <2>3, <2>4
<1>8. CASE UNCHANGED vars
  BY <1>8 DEF vars
<1> QED BY <1>1, <1>4, <1>5, <1>6, <1>7, <1>8 DEF Next

\* In a scope that generates, every layer has all three splits, each waits for the
\* one before it, and the first of a layer for every split of the layers it depends on.
LEMMA SplitsWait ==
    ASSUME NEW c, NEW arrived, NEW s \in StagesFor(c), s[2] \in Splits, NEW l \in 1..5
    PROVE  /\ \A split \in Splits : <<l, split>> \in StagesFor(c)
           /\ {{<<l, "train">>}} \in Blockers(c, arrived, <<l, "validation">>)
           /\ {{<<l, "validation">>}} \in Blockers(c, arrived, <<l, "test">>)
           /\ \A k \in DependsOn[l] :
                 {{<<k, split>> : split \in Splits}} \in Blockers(c, arrived, <<l, "train">>)
<1>1. ~c.foundation /\ c.fold
  BY StageShape DEF Has, Splits
<1>2. \A k \in 1..5 : \A split \in Splits : <<k, split>> \in StagesFor(c) /\ Has(c, <<k, split>>)
  BY <1>1 DEF StagesFor, Has, Layers, Kinds, Splits
<1>3. {{<<l, "train">>}} \in Blockers(c, arrived, <<l, "validation">>)
  <2>1. StageComplete(c, <<l, "train">>) = {{<<l, "train">>}}
    BY <1>2 DEF StageComplete, Splits
  <2> QED BY <2>1 DEF Blockers
<1>4. {{<<l, "validation">>}} \in Blockers(c, arrived, <<l, "test">>)
  <2>1. StageComplete(c, <<l, "validation">>) = {{<<l, "validation">>}}
    BY <1>2 DEF StageComplete, Splits
  <2> QED BY <2>1 DEF Blockers
<1>5. ASSUME NEW k \in DependsOn[l]
      PROVE  {{<<k, split>> : split \in Splits}} \in Blockers(c, arrived, <<l, "train">>)
  <2>1. k \in 1..5
    <3>1. l = 1 \/ l = 2 \/ l = 3 \/ l = 4 \/ l = 5
      OBVIOUS
    <3> QED BY <3>1 DEF DependsOn
  <2>2. Generated(c, k) = {{<<k, split>> : split \in Splits}}
    BY <1>2, <2>1 DEF Generated
  <2>3. Generated(c, k) \in Upstream(c, l)
    BY <1>1 DEF Upstream
  <2>4. Upstream(c, l) \subseteq Blockers(c, arrived, <<l, "train">>)
    BY DEF Blockers, TrainBlockers
  <2> QED BY <2>2, <2>3, <2>4
<1> QED BY <1>2, <1>3, <1>4, <1>5

\* So a grounded checkpoint has the splits of a fold in order.
LEMMA GroundedIsChronological ==
    ASSUME NEW c, NEW arrived, NEW k, Grounded(PlanFor(c, arrived), k),
           NEW s \in StagesFor(c), s[2] \in Splits, Done(k, s),
           NEW t \in StagesFor(c), t[2] \in Splits
    PROVE  \/ Done(k, t)
           \/ t[1] > s[1]
           \/ t[1] = s[1] /\ <<s[2], t[2]>> \in
                 {<<"train", "validation">>, <<"train", "test">>, <<"validation", "test">>,
                  <<"train", "train">>}
<1>1. \A l \in 1..5 : \A split \in Splits : <<l, split>> \in StagesFor(c)
  BY SplitsWait
<1>2. ASSUME NEW u \in StagesFor(c), Done(k, u), NEW b \in Blockers(c, arrived, u)
      PROVE  BlockerMet(k, b)
  BY <1>2, PlanShape DEF Grounded, Unblocked
<1>3. \A l \in 1..5 : Done(k, <<l, "validation">>) => Done(k, <<l, "train">>)
  <2> TAKE l \in 1..5
  <2>1. {{<<l, "train">>}} \in Blockers(c, arrived, <<l, "validation">>)
        /\ <<l, "validation">> \in StagesFor(c)
    BY <1>1, SplitsWait DEF Splits
  <2>2. Done(k, <<l, "validation">>) => BlockerMet(k, {{<<l, "train">>}})
    BY <1>2, <2>1
  <2> QED BY <2>2 DEF BlockerMet
<1>4. \A l \in 1..5 : Done(k, <<l, "test">>) => Done(k, <<l, "validation">>)
  <2> TAKE l \in 1..5
  <2>1. {{<<l, "validation">>}} \in Blockers(c, arrived, <<l, "test">>)
        /\ <<l, "test">> \in StagesFor(c)
    BY <1>1, SplitsWait DEF Splits
  <2>2. Done(k, <<l, "test">>) => BlockerMet(k, {{<<l, "validation">>}})
    BY <1>2, <2>1
  <2> QED BY <2>2 DEF BlockerMet
<1> DEFINE Ended(l) == \A split \in Splits : Done(k, <<l, split>>)
<1>5. ASSUME NEW l \in 1..5, Done(k, <<l, "train">>), NEW d \in DependsOn[l]
      PROVE  Ended(d)
  <2>1. <<l, "train">> \in StagesFor(c)
        /\ {{<<d, split>> : split \in Splits}} \in Blockers(c, arrived, <<l, "train">>)
    BY <1>1, SplitsWait DEF Splits
  <2>2. BlockerMet(k, {{<<d, split>> : split \in Splits}})
    BY <1>2, <1>5, <2>1
  <2>3. \A u \in {<<d, split>> : split \in Splits} : Done(k, u)
    BY <2>2 DEF BlockerMet
  <2> QED BY <2>3
<1>6. \A d \in 1..5 : Ended(d) => Done(k, <<d, "train">>)
  BY DEF Splits
<1> HIDE DEF Ended
<1>7. Done(k, <<2, "train">>) => Ended(1)
  <2>1. 1 \in DependsOn[2]
    BY DEF DependsOn
  <2> QED BY <1>5, <2>1
<1>8. Done(k, <<3, "train">>) => Ended(1) /\ Ended(2)
  <2>1. 1 \in DependsOn[3] /\ 2 \in DependsOn[3]
    BY DEF DependsOn
  <2> QED BY <1>5, <2>1
<1>9. Done(k, <<4, "train">>) => Ended(1) /\ Ended(2) /\ Ended(3)
  <2>1. 1 \in DependsOn[4] /\ 2 \in DependsOn[4] /\ 3 \in DependsOn[4]
    BY DEF DependsOn
  <2> QED BY <1>5, <2>1
<1>10. Done(k, <<5, "train">>) => Ended(4)
  <2>1. 4 \in DependsOn[5]
    BY DEF DependsOn
  <2> QED BY <1>5, <2>1
<1>11. \A l, d \in 1..5 : d < l /\ Done(k, <<l, "train">>) => Ended(d)
  <2> TAKE l, d \in 1..5
  <2>1. d < l => \/ l = 2 /\ d = 1
                 \/ l = 3 /\ d \in {1, 2}
                 \/ l = 4 /\ d \in {1, 2, 3}
                 \/ l = 5 /\ d \in {1, 2, 3, 4}
    OBVIOUS
  <2>2. Done(k, <<5, "train">>) => Done(k, <<4, "train">>)
    BY <1>6, <1>10
  <2> QED BY <1>7, <1>8, <1>9, <1>10, <2>1, <2>2
<1>12. s = <<s[1], s[2]>> /\ s[1] \in 1..5 /\ t = <<t[1], t[2]>> /\ t[1] \in 1..5
  BY StageShape
<1>13. s[2] \in {"train", "validation", "test"} /\ t[2] \in {"train", "validation", "test"}
  BY DEF Splits
<1>14. Done(k, <<s[1], "train">>)
  BY <1>3, <1>4, <1>12, <1>13
<1>15. CASE t[1] < s[1]
  <2>1. Ended(t[1])
    BY <1>11, <1>12, <1>14, <1>15
  <2> QED BY <1>12, <2>1 DEF Ended
<1>16. CASE t[1] = s[1]
  <2>1. t = <<s[1], t[2]>>
    BY <1>12, <1>16
  <2>2. CASE s[2] = "train"
    BY <1>13, <1>16, <2>2
  <2>3. CASE s[2] = "validation"
    <3>1. t[2] = "train" => Done(k, t)
      BY <1>14, <2>1
    <3>2. t[2] = "validation" => t = s
      BY <1>12, <2>1, <2>3
    <3> QED BY <1>13, <1>16, <2>3, <3>1, <3>2
  <2>4. CASE s[2] = "test"
    <3>1. Done(k, <<s[1], "test">>) /\ Done(k, <<s[1], "validation">>)
      BY <1>4, <1>12, <2>4
    <3> QED BY <1>13, <1>14, <2>1, <3>1
  <2> QED BY <1>13, <2>2, <2>3, <2>4
<1> QED BY <1>12, <1>15, <1>16

LEMMA PlanInvIsCurrent == PlanInv => DoneIsCurrent
<1> SUFFICES ASSUME PlanInv
             PROVE  DoneIsCurrent
  OBVIOUS
<1>1. Stage = StagesFor(scope)
  BY PlanShape DEF Stage, PlanInv
<1>2. Grounded(PlanFor(scope, inputs), ck)
  BY DEF PlanInv
<1>3. FoldIsChronological
  BY <1>1, <1>2, GroundedIsChronological DEF FoldIsChronological
<1>4. NothingDoneIsStale
  BY DEF NothingDoneIsStale, PlanInv
<1> QED BY <1>3, <1>4 DEF DoneIsCurrent

\* For every set of scopes, and any number of failures, resets and invalidations:
\* what is done stands in the order of the fold and on what was computed last.
THEOREM DoneStaysCurrent == Spec => []DoneIsCurrent
<1> QED BY PlanInvInit, PlanInvStep, PlanInvIsCurrent, PTL DEF Spec

\* The plans that the code builds are what WorkflowCheckpoint assumes of its plan: their
\* blockers look only at stages of the same or an earlier layer, and the foundation that
\* the seeding of a fold marks succeeded, the data and feature stage of the first layer,
\* builds on nothing but itself once task keys are prepared.
THEOREM RealPlansAreLayered ==
    \A c \in AllScopes : \A arrived \in SUBSET Inputs :
        /\ IsPlan(PlanFor(c, arrived)) /\ IsLayered(PlanFor(c, arrived))
        /\ "task_keys" \in arrived =>
              StandsAlone(PlanFor(c, arrived),
                          StagesFor(c) \cap {<<1, "data">>, <<1, "feature">>})
<1> TAKE c \in AllScopes
<1> TAKE arrived \in SUBSET Inputs
<1> DEFINE p == PlanFor(c, arrived)
           S == StagesFor(c)
           set == S \cap {<<1, "data">>, <<1, "feature">>}
<1>1. StagesOf(p) = S /\ p.order = Order(c)
      /\ \A s \in S : p.blockers[s] = Blockers(c, arrived, s) /\ p.layer[s] = s[1]
  BY PlanShape
<1>2. p = [order |-> Order(c), layer |-> [s \in S |-> s[1]],
           blockers |-> [s \in S |-> Blockers(c, arrived, s)]]
  BY DEF PlanFor
<1>3. Order(c) \in Seq(S)
  <2>1. Order(c) = [n \in 1..Cardinality(S) |-> Order(c)[n]]
    BY DEF Order
  <2> QED BY <2>1, OrderIsByPlace
<1>4. [s \in S |-> s[1]] \in [S -> Nat]
  BY StageShape
<1>5. ASSUME NEW s \in S
      PROVE  Blockers(c, arrived, s) \in SUBSET SUBSET SUBSET S
  <2>1. \A b \in Blockers(c, arrived, s) : \A x \in b : \A u \in x : u \in S
    BY BuildsOn DEF Before
  <2> QED BY <2>1
<1>6. IsPlan(p)
  <2>1. [s \in S |-> Blockers(c, arrived, s)] \in [S -> SUBSET SUBSET SUBSET S]
    BY <1>5
  <2> HIDE DEF p, S
  <2> QED BY <1>1, <1>2, <1>3, <1>4, <2>1 DEF IsPlan
<1>7. IsLayered(p)
  <2>1. \A s \in S : \A b \in Blockers(c, arrived, s) : \A x \in b : \A u \in x :
           u \in S /\ u[1] <= s[1]
    BY BuildsOn DEF Before
  <2> HIDE DEF p
  <2> QED BY <1>1, <2>1 DEF IsLayered
<1>8. ASSUME "task_keys" \in arrived, NEW s \in set, NEW b \in Blockers(c, arrived, s)
      PROVE  \E x \in b : x \subseteq set
  <2>1. Upstream(c, 1) = {} /\ Target(c, s) = {} /\ Waiting(arrived, "task_keys") = {}
    BY <1>8 DEF Upstream, DependsOn, Target, Waiting
  <2>2. s # <<1, "data">>
    <3>1. s = <<1, "data">> => Blockers(c, arrived, s) = {}
      BY <2>1 DEF Blockers, DataBlockers
    <3> QED BY <3>1
  <2>3. s = <<1, "feature">>
    BY <2>2
  <2>4. b = StageComplete(c, <<1, "data">>)
    BY <2>1, <2>3 DEF Blockers
  <2>5. Has(c, <<1, "feature">>)
    BY <2>3 DEF StagesFor
  <2>6. Has(c, <<1, "data">>)
    BY <2>5 DEF Has, Splits
  <2>7. b = {{<<1, "data">>}} /\ <<1, "data">> \in S
    BY <2>4, <2>6 DEF StageComplete, StagesFor, Layers, Kinds
  <2> QED BY <2>7
<1>9. "task_keys" \in arrived => StandsAlone(p, set)
  <2>1. \A s \in set : p.blockers[s] = Blockers(c, arrived, s)
    BY <1>1
  <2> HIDE DEF p, set
  <2> QED BY <1>8, <2>1 DEF StandsAlone
<1> QED BY <1>6, <1>7, <1>9
=============================================================================
