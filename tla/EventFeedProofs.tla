-------------------------- MODULE EventFeedProofs ---------------------------
(* EventFeeds for any feeds, months, targets, dispatchers and commands: what  *)
(* races cost, and that nothing that was selected and bought is lost.  Then   *)
(* EventEvidence for any releases, families and lists of families: what a     *)
(* handoff, a routing summary and the release calendar promise.               *)
EXTENDS EventFeeds, EventEvidence, TLAPS, FiniteSetTheorems, WellFoundedInduction

\* A dispatcher past the visit has the request it is at, among those it selected.
AtWork ==
    \A d \in Dispatchers :
        /\ disp[d].todo \subseteq disp[d].selected
        /\ disp[d].pc \in {"calling", "returned"} => disp[d].todo # {}

\* What was bought has its receipt, unless that was compacted away.
Gone(r) == SlotOf(r) \in compacted
ReceiptsTell == \A r \in Requests : bought[r] > 0 => RequestAlreadySucceeded(r) \/ Gone(r)

\* A dispatcher that acknowledges a success has bought its request.
Acknowledged ==
    \A d \in Dispatchers : disp[d].pc = "returned" /\ disp[d].ok => bought[Next_(d)] > 0

\* RacesHaveCause is not inductive: it needs that a request that is running was not
\* bought before, and that two runs of one are known to have raced.
Excused(r) == r \in raced \/ Gone(r)
RunsAreFirst == \A r \in Requests : Running(r) /\ bought[r] > 0 => Excused(r)
Calls(d, r) == disp[d].pc = "calling" /\ Next_(d) = r
TwoRunsRace ==
    \A r \in Requests, d \in Dispatchers : Calls(d, r) =>
        /\ r \in orphans => r \in raced
        /\ \A e \in Dispatchers : e # d /\ Calls(e, r) => r \in raced

\* A dispatch without a limit that is to stop at the first failure has still to visit
\* what it has not bought.
Unlimited(d) == disp[d].pc # "idle" /\ disp[d].limit = NoLimit /\ ~disp[d].goOn
NothingSkipped ==
    \A d \in Dispatchers : Unlimited(d) =>
        \A r \in disp[d].selected : r \in disp[d].todo \/ RequestAlreadySucceeded(r) \/ Gone(r)

\* What the pool was made of is there, unless receipts of it were compacted away.
PoolIsCovered ==
    \A feed \in pool :
        feed \in SqlInputs \cup Artifacts \/ \E m \in Months : <<feed, m>> \in compacted

IInv ==
    /\ TypeOK /\ AtWork /\ ReceiptsTell /\ Acknowledged /\ RunsAreFirst /\ TwoRunsRace
    /\ RacesHaveCause /\ NothingSkipped /\ PoolIsCovered

-----------------------------------------------------------------------------
\* The constants.
LEMMA Constants ==
    /\ Months \subseteq Nat /\ \A m \in Months : m - 1 \in Nat
    /\ Len(FeedOrder) \in Nat /\ DOMAIN FeedOrder = 1 .. Len(FeedOrder)
    /\ \A f \in Feeds : PlaceOf(f) \in Nat
    /\ MaxCalls \in Nat
    /\ Prepared \subseteq [target : Targets, feeds : SUBSET Feeds]
    /\ Commands \subseteq [target : Targets, feeds : SUBSET Feeds, limit : 0 .. 1, goOn : BOOLEAN]
<1>1. /\ IsFiniteSet(Months) /\ Months = 1 .. Cardinality(Months)
      /\ FeedOrder \in Seq(Feeds) /\ MaxCalls \in Nat
      /\ Prepared \subseteq [target : Targets, feeds : SUBSET Feeds]
      /\ Commands \subseteq [target : Targets, feeds : SUBSET Feeds, limit : 0 .. 1, goOn : BOOLEAN]
  BY FeedsAssumption
<1>2. PICK n \in Nat : Months = 1 .. n
  BY <1>1, FS_CardinalityType
<1>3. Len(FeedOrder) \in Nat /\ DOMAIN FeedOrder = 1 .. Len(FeedOrder)
  BY <1>1
<1>4. \A f \in Feeds : PlaceOf(f) \in DOMAIN FeedOrder
  BY DEF PlaceOf, Feeds
<1>5. QED
  BY <1>1, <1>2, <1>3, <1>4

\* Products of natural numbers are natural numbers, whatever the plan's length.
LEMMA PlaceType == \A r \in Requests : Place(r) \in Nat
<1> SUFFICES ASSUME NEW r \in Requests PROVE Place(r) \in Nat
  OBVIOUS
<1>1. r.month - 1 \in Nat /\ PlaceOf(r.feed) \in Nat /\ Len(FeedOrder) \in Nat
  BY Constants DEF Requests
<1>2. \A i, j \in Nat : i * j \in Nat
  OBVIOUS
<1>3. (r.month - 1) * Len(FeedOrder) \in Nat
  BY <1>1, <1>2
<1>4. QED
  BY <1>1, <1>3 DEF Place

\* There is a first one of the requests to visit.
LEMMA FirstIsThere ==
    ASSUME NEW S \in SUBSET Requests, S # {}
    PROVE  FirstIn(S) \in S
<1> DEFINE R == {ss \in Nat \X Nat : ss[1] < ss[2]}
           places == {Place(r) : r \in S}
<1>1. IsWellFoundedOn(R, Nat)
  BY NatLessThanWellFounded DEF OpToRel
<1>2. places \in SUBSET Nat /\ places # {}
  BY PlaceType
<1> HIDE DEF R
<1>3. PICK n \in places : \A p \in places : ~(<<p, n>> \in R)
  BY <1>1, <1>2, WFMin
<1>4. PICK r \in S : n = Place(r)
  BY <1>3
<1>5. ASSUME NEW q \in S PROVE Place(r) <= Place(q)
  <2>1. Place(q) \in Nat /\ Place(r) \in Nat
    BY PlaceType
  <2>2. ~(Place(q) < Place(r))
    BY <1>3, <1>4, <2>1 DEF R
  <2>3. QED
    BY <2>1, <2>2
<1>6. \E x \in S : \A q \in S : Place(x) <= Place(q)
  BY <1>5
<1>7. QED
  BY <1>6 DEF FirstIn

-----------------------------------------------------------------------------
(* What each step does to the dispatchers.                                    *)
Labels == {"idle", "visit", "calling", "returned"}
Disp == [pc : Labels, todo : SUBSET Requests, selected : SUBSET Requests,
         limit : 0 .. 1, pending : Nat, goOn : BOOLEAN, ok : BOOLEAN]
Receipt == [by : SUBSET Targets, rows : BOOLEAN]

\* TypeOK by the names of its sets.
Types ==
    /\ keys \subseteq Requests /\ runtime \subseteq Requests /\ orphans \subseteq Requests
    /\ receipt \in [Slots -> Receipt] /\ saved \subseteq Slots /\ compacted \subseteq Slots
    /\ disp \in [Dispatchers -> Disp] /\ pool \subseteq Feeds
    /\ called \in 0 .. MaxCalls /\ bought \in [Requests -> Nat] /\ raced \subseteq Requests

\* TypeOK in the shape the proofs use.
LEMMA TypeFacts == TypeOK <=> Types
BY DEF TypeOK, Types, Labels, Disp, Receipt

\* The slots of the requests, and a dispatcher at rest.
LEMMA Sets ==
    /\ \A r \in Requests : SlotOf(r) \in Slots /\ r.target \in Targets
    /\ Idle \in Disp /\ Idle.pc = "idle" /\ Idle.todo = {} /\ Idle.selected = {}
    /\ Idle.pending = 0
BY DEF Requests, SlotOf, Slots, Idle, Disp, Labels, NoLimit

Apart(d) == \A e \in Dispatchers : e # d => disp'[e] = disp[e]
SameTask(d) ==
    /\ disp'[d].selected = disp[d].selected /\ disp'[d].limit = disp[d].limit
    /\ disp'[d].goOn = disp[d].goOn

\* A dispatcher that starts has all it selected still to do.
LEMMA StartStep ==
    ASSUME Types, NEW d \in Dispatchers, NEW c \in Commands, Start(d, c)
    PROVE  /\ Apart(d) /\ disp'[d].pc = "visit" /\ disp'[d].todo = disp'[d].selected
           /\ disp' \in [Dispatchers -> Disp]
<1>1. PICK x : x = FilterRequests(c.target, c.feeds)
  OBVIOUS
<1>2. x \in SUBSET Requests
  BY <1>1 DEF FilterRequests
<1>3. PICK l, g : l = c.limit /\ g = c.goOn
  OBVIOUS
<1>4. l \in 0 .. 1 /\ g \in BOOLEAN
  BY <1>3, Constants
<1>5. disp' = [disp EXCEPT ![d] = [Idle EXCEPT !.pc = "visit", !.todo = x, !.limit = l,
                                              !.goOn = g, !.selected = x]]
  BY <1>1, <1>3 DEF Start
<1>6. [Idle EXCEPT !.pc = "visit", !.todo = x, !.limit = l, !.goOn = g, !.selected = x]
        \in Disp
  BY <1>2, <1>4, Sets DEF Disp, Labels
<1>7. disp'[d] = [Idle EXCEPT !.pc = "visit", !.todo = x, !.limit = l, !.goOn = g,
                              !.selected = x]
  BY <1>5 DEF Types
<1>8. disp'[d].pc = "visit" /\ disp'[d].todo = x /\ disp'[d].selected = x
  BY <1>7, Sets DEF Disp
<1>9. QED
  BY <1>5, <1>6, <1>8 DEF Apart, Types

\* A dispatcher that stops, and one that is done with the request it is at.
Stops(d) == disp' = [disp EXCEPT ![d] = Idle]
GoesOn(d) ==
    /\ disp[d].todo # {} /\ disp[d].pc # "idle"
    /\ disp' = [disp EXCEPT ![d] = [disp[d] EXCEPT !.pc = "visit",
                                                   !.todo = disp[d].todo \ {Next_(d)}]]

\* One that stops forgets its task.
LEMMA StopStep ==
    ASSUME Types, NEW d \in Dispatchers, Stops(d)
    PROVE  Apart(d) /\ disp'[d] = Idle /\ disp' \in [Dispatchers -> Disp]
BY Sets DEF Stops, Apart, Types

\* One that goes on leaves a request behind.
LEMMA GoOnStep ==
    ASSUME Types, NEW d \in Dispatchers, GoesOn(d)
    PROVE  /\ Apart(d) /\ SameTask(d) /\ disp[d].pc # "idle"
           /\ disp'[d].pc = "visit" /\ disp'[d].todo = disp[d].todo \ {Next_(d)}
           /\ disp' \in [Dispatchers -> Disp]
<1>1. PICK n : n = Next_(d)
  OBVIOUS
<1>2. disp[d] \in Disp /\ disp[d].todo \ {n} \in SUBSET Requests
  BY DEF Types, Disp
<1>3. [disp[d] EXCEPT !.pc = "visit", !.todo = disp[d].todo \ {n}] \in Disp
  BY <1>2 DEF Disp, Labels
<1>4. disp' = [disp EXCEPT ![d] = [disp[d] EXCEPT !.pc = "visit", !.todo = disp[d].todo \ {n}]]
  BY <1>1 DEF GoesOn
<1>5. disp'[d] = [disp[d] EXCEPT !.pc = "visit", !.todo = disp[d].todo \ {n}]
  BY <1>4 DEF Types
<1>6. disp'[d].pc = "visit" /\ disp'[d].todo = disp[d].todo \ {n} /\ SameTask(d)
  BY <1>2, <1>5 DEF Disp, SameTask
<1>7. QED
  BY <1>1, <1>3, <1>4, <1>6 DEF GoesOn, Apart, Types

\* One that calls keeps its task.
LEMMA CallStep ==
    ASSUME Types, NEW d \in Dispatchers, Call(d)
    PROVE  /\ Apart(d) /\ SameTask(d) /\ disp'[d].todo = disp[d].todo
           /\ disp[d].pc = "visit" /\ disp[d].todo # {} /\ disp'[d].pc = "calling"
           /\ disp' \in [Dispatchers -> Disp]
<1>1. disp[d] \in Disp /\ disp[d].pending + 1 \in Nat
  BY DEF Types, Disp
<1>2. disp' = [disp EXCEPT ![d] = [disp[d] EXCEPT !.pc = "calling",
                                                  !.pending = disp[d].pending + 1]]
  BY <1>1 DEF Call, Types
<1>3. [disp[d] EXCEPT !.pc = "calling", !.pending = disp[d].pending + 1] \in Disp
  BY <1>1 DEF Disp, Labels
<1>4. disp'[d] = [disp[d] EXCEPT !.pc = "calling", !.pending = disp[d].pending + 1]
  BY <1>2 DEF Types
<1>5. /\ SameTask(d) /\ disp'[d].todo = disp[d].todo /\ disp'[d].pc = "calling"
  BY <1>1, <1>4 DEF Disp, SameTask
<1>6. disp' \in [Dispatchers -> Disp]
  BY <1>2, <1>3 DEF Types
<1>7. QED
  BY <1>2, <1>5, <1>6 DEF Call, Visiting, Apart, Types

\* The feed of a dispatcher ends.
LEMMA EndStep ==
    ASSUME Types, NEW d \in Dispatchers, NEW won, won \in BOOLEAN, disp[d].pc = "calling",
           disp' = [disp EXCEPT ![d].pc = "returned", ![d].ok = won]
    PROVE  /\ Apart(d) /\ SameTask(d) /\ disp'[d].todo = disp[d].todo
           /\ disp'[d].pc = "returned" /\ disp'[d].ok = won
           /\ disp' \in [Dispatchers -> Disp]
<1>1. disp[d] \in Disp
  BY DEF Types
<1>2. disp' = [disp EXCEPT ![d] = [disp[d] EXCEPT !.pc = "returned", !.ok = won]]
  BY <1>1 DEF Types
<1>3. [disp[d] EXCEPT !.pc = "returned", !.ok = won] \in Disp
  BY <1>1 DEF Disp, Labels
<1>4. PICK new : new = [disp[d] EXCEPT !.pc = "returned", !.ok = won]
  OBVIOUS
<1>5. disp' = [disp EXCEPT ![d] = new] /\ new \in Disp
  BY <1>2, <1>3, <1>4
<1>6. /\ new.selected = disp[d].selected /\ new.limit = disp[d].limit
      /\ new.todo = disp[d].todo /\ new.pc = "returned"
  BY <1>1, <1>4, Zenon DEF Disp
<1>7. new.goOn = disp[d].goOn /\ new.ok = won
  BY <1>1, <1>4, Zenon DEF Disp
<1>8. Apart(d) /\ disp'[d] = new /\ disp' \in [Dispatchers -> Disp]
  BY <1>5 DEF Apart, Types
<1>9. QED
  BY <1>6, <1>7, <1>8 DEF SameTask

-----------------------------------------------------------------------------
(* What each step does to the receipts and the ledger.                        *)
Keeps(s) == receipt[s].by \subseteq receipt'[s].by /\ (receipt[s].rows => receipt'[s].rows)

\* What is bought leaves a receipt, and takes none away.
LEMMA BuyStep ==
    ASSUME Types, NEW r \in Requests, NEW rows \in BOOLEAN, NEW csv \in BOOLEAN,
           Buy(r, rows, csv)
    PROVE  /\ receipt' \in [Slots -> Receipt] /\ \A s \in Slots : Keeps(s)
           /\ r.target \in receipt'[SlotOf(r)].by
           /\ saved' \subseteq Slots /\ saved \subseteq saved'
           /\ bought' = [bought EXCEPT ![r] = bought[r] + 1] /\ bought' \in [Requests -> Nat]
<1>1. PICK z, t : z = SlotOf(r) /\ t = r.target
  OBVIOUS
<1>2. z \in Slots /\ t \in Targets
  BY <1>1, Sets
<1>3. receipt[z] \in Receipt
  BY <1>2 DEF Types
<1>4. PICK new : new = [by |-> receipt[z].by \cup {t}, rows |-> receipt[z].rows \/ rows]
  OBVIOUS
<1>5. new.by = receipt[z].by \cup {t} /\ (receipt[z].rows => new.rows)
  BY <1>4
<1>6. new \in Receipt
  BY <1>2, <1>3, <1>4 DEF Receipt
<1>7. receipt' = [receipt EXCEPT ![z] = new]
  BY <1>1, <1>2, <1>4 DEF Buy, Types
<1>8. receipt' \in [Slots -> Receipt] /\ \A s \in Slots : Keeps(s)
  BY <1>2, <1>5, <1>6, <1>7 DEF Types, Keeps
<1>9. r.target \in receipt'[SlotOf(r)].by
  BY <1>1, <1>2, <1>5, <1>7 DEF Types
<1>10. saved' \subseteq Slots /\ saved \subseteq saved'
  BY <1>1, <1>2 DEF Buy, Types
<1>11. bought[r] \in Nat /\ bought[r] + 1 \in Nat
  BY DEF Types
<1>12. bought' = [bought EXCEPT ![r] = bought[r] + 1]
  BY <1>11 DEF Buy, Types
<1>13. bought' \in [Requests -> Nat]
  BY <1>11, <1>12 DEF Types
<1>14. QED
  BY <1>8, <1>9, <1>10, <1>12, <1>13

\* A compaction removes the receipt of its own slot only.
LEMMA CompactStep ==
    ASSUME Types, NEW s \in Slots, Compact(s)
    PROVE  /\ receipt' \in [Slots -> Receipt] /\ compacted' = compacted \cup {s}
           /\ \A z \in Slots : z \in compacted' \/ Keeps(z)
<1>1. NoReceipt \in Receipt
  BY DEF NoReceipt, Receipt
<1>2. receipt' = [receipt EXCEPT ![s] = NoReceipt] /\ compacted' = compacted \cup {s}
  BY DEF Compact
<1>3. \A z \in Slots : z # s => receipt'[z] = receipt[z]
  BY <1>2 DEF Types
<1>4. \A z \in Slots : z # s => Keeps(z)
  BY <1>3 DEF Keeps
<1>5. QED
  BY <1>1, <1>2, <1>4 DEF Types

\* The dispatcher a step is of, and the request its feed is for.
LEMMA NextIsThere ==
    ASSUME Types, NEW d \in Dispatchers, disp[d].todo # {}
    PROVE  Next_(d) \in disp[d].todo /\ Next_(d) \in Requests
BY FirstIsThere DEF Types, Disp, Next_

\* A step, by what it does.
Ends(d) == KeyMissing(d) \/ Finish(d) \/ (Return(d) /\ ~disp[d].ok /\ ~disp[d].goOn)
Passes(d) == Skip(d) \/ (Return(d) /\ (disp[d].ok \/ disp[d].goOn))
Calm ==
    /\ UNCHANGED disp /\ UNCHANGED <<receipt, saved, runtime, orphans>> /\ UNCHANGED ledger
    /\ keys' \subseteq Requests
    /\ Materialize \/ pool' = pool

\* What ends a dispatch leaves the evidence alone.
LEMMA EndsStep ==
    ASSUME Types, NEW d \in Dispatchers, Ends(d)
    PROVE  /\ Stops(d) /\ UNCHANGED <<keys, receipt, saved, runtime, orphans, pool>>
           /\ UNCHANGED ledger
<1>1. CASE KeyMissing(d)
  BY <1>1 DEF KeyMissing, Stops
<1>2. CASE Finish(d)
  BY <1>2 DEF Finish, Stops
<1>3. CASE Return(d) /\ ~disp[d].ok /\ ~disp[d].goOn
  <2>1. Stops(d)
    BY <1>3, Zenon DEF Return, Stops
  <2>2. runtime' = runtime
    BY <1>3, Zenon DEF Return
  <2>3. QED
    BY <1>3, <2>1, <2>2 DEF Return
<1>4. QED
  BY <1>1, <1>2, <1>3 DEF Ends

\* What passes a request over leaves the evidence alone.
LEMMA PassesStep ==
    ASSUME Types, AtWork, NEW d \in Dispatchers, Passes(d)
    PROVE  /\ GoesOn(d) /\ UNCHANGED <<keys, receipt, saved, orphans, pool>>
           /\ UNCHANGED ledger /\ runtime' \subseteq Requests
           /\ runtime' # runtime =>
                 Return(d) /\ disp[d].ok /\ runtime' = runtime \ {Next_(d)}
<1>1. CASE Skip(d)
  <2>1. PICK n : n = Next_(d)
    OBVIOUS
  <2>2. disp[d] \in Disp /\ disp[d].pc = "visit" /\ disp[d].todo # {}
    BY <1>1 DEF Skip, Visiting, Types
  <2>3. [disp[d] EXCEPT !.pc = "visit", !.todo = disp[d].todo \ {n}]
          = [disp[d] EXCEPT !.todo = disp[d].todo \ {n}]
    BY <2>2 DEF Disp
  <2>4. disp' = [disp EXCEPT ![d] = [disp[d] EXCEPT !.todo = disp[d].todo \ {n}]]
    BY <1>1, <2>1 DEF Skip, Types
  <2>5. GoesOn(d)
    BY <2>1, <2>2, <2>3, <2>4 DEF GoesOn
  <2>6. QED
    BY <1>1, <2>5 DEF Skip, Types
<1>2. CASE Return(d) /\ (disp[d].ok \/ disp[d].goOn)
  <2>1. disp[d].pc = "returned" /\ disp[d].todo # {}
    BY <1>2 DEF Return, AtWork
  <2>2. disp' = [disp EXCEPT ![d] = [disp[d] EXCEPT !.pc = "visit",
                                                    !.todo = disp[d].todo \ {Next_(d)}]]
    <3>1. disp' = [disp EXCEPT ![d].pc = "visit", ![d].todo = disp[d].todo \ {Next_(d)}]
      BY <1>2, Zenon DEF Return
    <3>2. QED
      BY <3>1 DEF Types
  <2>3. GoesOn(d)
    BY <2>1, <2>2 DEF GoesOn
  <2>4. runtime' = IF disp[d].ok THEN runtime \ {Next_(d)} ELSE runtime
    BY <1>2 DEF Return
  <2>5. runtime' # runtime => disp[d].ok /\ runtime' = runtime \ {Next_(d)}
    BY <2>4, Zenon
  <2>6. QED
    BY <1>2, <2>3, <2>5 DEF Return, Types
<1>3. QED
  BY <1>1, <1>2 DEF Passes

\* The steps, one by one.
LEMMA Moves ==
    ASSUME Types, [Next]_vars
    PROVE  \/ Calm
           \/ \E d \in Dispatchers :
                 \/ \E c \in Commands : Start(d, c)
                 \/ Ends(d) \/ Passes(d) \/ Call(d) \/ FeedFails(d) \/ Kill(d)
                 \/ \E rows, csv \in BOOLEAN : FeedSucceeds(d, rows, csv)
           \/ \E r \in Requests : OrphanFails(r)
           \/ \E r \in Requests, rows, csv \in BOOLEAN : OrphanSucceeds(r, rows, csv)
           \/ \E s \in Slots : Compact(s)
<1>1. CASE UNCHANGED vars
  BY <1>1 DEF vars, ledger, Calm, Types
<1>2. CASE \E p \in Prepared : Prepare(p.target, p.feeds)
  <2>1. PICK p \in Prepared : Prepare(p.target, p.feeds)
    BY <1>2
  <2>2. keys' \subseteq Requests
    BY <2>1 DEF Prepare, FilterRequests, Types
  <2>3. QED
    BY <2>1, <2>2 DEF Prepare, Calm
<1>3. CASE Materialize
  BY <1>3 DEF Materialize, Calm, Types
<1>4. ASSUME NEW d \in Dispatchers, Return(d)
      PROVE  Ends(d) \/ Passes(d)
  BY <1>4 DEF Ends, Passes
<1>5. ASSUME NEW d \in Dispatchers, Dispatch(d)
      PROVE  \/ \E c \in Commands : Start(d, c)
             \/ Ends(d) \/ Passes(d) \/ Call(d) \/ FeedFails(d) \/ Kill(d)
             \/ \E rows, csv \in BOOLEAN : FeedSucceeds(d, rows, csv)
  BY <1>4, <1>5 DEF Dispatch, Ends, Passes
<1>6. QED
  BY <1>1, <1>2, <1>3, <1>5 DEF Next

\* Every step keeps the types.
LEMMA TypeStep ==
    ASSUME Types, AtWork, [Next]_vars
    PROVE  Types'
<1>1. CASE Calm
  <2>1. pool' \subseteq Feeds
    BY <1>1 DEF Calm, Materialize, SqlInputs, Artifacts, Types
  <2>2. QED
    BY <1>1, <2>1 DEF Calm, Types, ledger
<1>2. ASSUME NEW d \in Dispatchers, NEW c \in Commands, Start(d, c) PROVE Types'
  <2>1. disp' \in [Dispatchers -> Disp]
    BY <1>2, StartStep
  <2>2. QED
    BY <1>2, <2>1 DEF Start, ledger, Types
<1>3. ASSUME NEW d \in Dispatchers, Ends(d) PROVE Types'
  <2>1. disp' \in [Dispatchers -> Disp]
    BY <1>3, EndsStep, StopStep
  <2>2. QED
    BY <1>3, <2>1, EndsStep DEF ledger, Types
<1>4. ASSUME NEW d \in Dispatchers, Passes(d) PROVE Types'
  <2>1. disp' \in [Dispatchers -> Disp]
    BY <1>4, PassesStep, GoOnStep
  <2>2. QED
    BY <1>4, <2>1, PassesStep DEF ledger, Types
<1>5. ASSUME NEW d \in Dispatchers, Call(d) PROVE Types'
  <2>1. disp' \in [Dispatchers -> Disp] /\ Next_(d) \in Requests
    BY <1>5, CallStep, NextIsThere
  <2>2. called' \in 0 .. MaxCalls
    BY <1>5, Constants DEF Call, Types
  <2>3. QED
    BY <1>5, <2>1, <2>2 DEF Call, Types
<1>6. ASSUME NEW d \in Dispatchers, FeedFails(d) PROVE Types'
  <2>1. disp[d].pc = "calling" /\ disp' = [disp EXCEPT ![d].pc = "returned", ![d].ok = FALSE]
    BY <1>6 DEF FeedFails
  <2>2. disp' \in [Dispatchers -> Disp]
    BY <2>1, EndStep
  <2>3. QED
    BY <1>6, <2>2 DEF FeedFails, ledger, Types
<1>7. ASSUME NEW d \in Dispatchers, Kill(d) PROVE Types'
  <2>1. disp' \in [Dispatchers -> Disp]
    BY <1>7, StopStep DEF Kill, Stops
  <2>2. orphans' \subseteq Requests
    BY <1>7 DEF Kill, Types
  <2>3. QED
    BY <1>7, <2>1, <2>2 DEF Kill, ledger, Types
<1>8. ASSUME NEW d \in Dispatchers, NEW rows \in BOOLEAN, NEW csv \in BOOLEAN,
             FeedSucceeds(d, rows, csv)
      PROVE  Types'
  <2>1. disp[d].pc = "calling" /\ disp' = [disp EXCEPT ![d].pc = "returned", ![d].ok = TRUE]
    BY <1>8 DEF FeedSucceeds
  <2>2. disp' \in [Dispatchers -> Disp] /\ Next_(d) \in Requests
    BY <2>1, EndStep, NextIsThere DEF AtWork
  <2>3. Buy(Next_(d), rows, csv)
    BY <1>8 DEF FeedSucceeds
  <2>4. /\ receipt' \in [Slots -> Receipt] /\ saved' \subseteq Slots
        /\ bought' \in [Requests -> Nat]
    BY <2>2, <2>3, BuyStep
  <2>5. QED
    BY <1>8, <2>2, <2>3, <2>4 DEF FeedSucceeds, Buy, Types
<1>9. ASSUME NEW r \in Requests, OrphanFails(r) PROVE Types'
  BY <1>9 DEF OrphanFails, ledger, Types
<1>10. ASSUME NEW r \in Requests, NEW rows \in BOOLEAN, NEW csv \in BOOLEAN,
              OrphanSucceeds(r, rows, csv)
       PROVE  Types'
  <2>1. Buy(r, rows, csv)
    BY <1>10 DEF OrphanSucceeds
  <2>2. /\ receipt' \in [Slots -> Receipt] /\ saved' \subseteq Slots
        /\ bought' \in [Requests -> Nat]
    BY <2>1, BuyStep
  <2>3. QED
    BY <1>10, <2>1, <2>2 DEF OrphanSucceeds, Buy, Types
<1>11. ASSUME NEW s \in Slots, Compact(s) PROVE Types'
  <2>1. receipt' \in [Slots -> Receipt] /\ compacted' = compacted \cup {s}
    BY <1>11, CompactStep
  <2>2. QED
    BY <1>11, <2>1 DEF Compact, Types
<1>12. QED
  BY <1>1, <1>2, <1>3, <1>4, <1>5, <1>6, <1>7, <1>8, <1>9, <1>10, <1>11, Moves

-----------------------------------------------------------------------------
(* What a step does to one dispatcher, and to one request.                    *)
Stays(e) == disp'[e] = disp[e]
Begins(e) == disp'[e].pc = "visit" /\ disp'[e].todo = disp'[e].selected
Advances(e) ==
    /\ Passes(e) /\ SameTask(e) /\ disp[e].pc # "idle"
    /\ disp'[e].pc = "visit" /\ disp'[e].todo = disp[e].todo \ {Next_(e)}
Asks(e) ==
    /\ Call(e) /\ SameTask(e) /\ disp'[e].todo = disp[e].todo /\ disp[e].pc = "visit"
    /\ disp[e].todo # {} /\ disp'[e].pc = "calling"
Hears(e) ==
    /\ SameTask(e) /\ disp'[e].todo = disp[e].todo /\ disp[e].pc = "calling"
    /\ disp'[e].pc = "returned"
    /\ disp'[e].ok => bought'[Next_(e)] > 0

StepOf(e) ==
    Stays(e) \/ disp'[e] = Idle \/ Begins(e) \/ Advances(e) \/ Asks(e) \/ Hears(e)

\* Every step is one of the moves of a dispatcher, or leaves it as it is.
LEMMA DispatcherStep ==
    ASSUME Types, AtWork, [Next]_vars, NEW e \in Dispatchers
    PROVE  StepOf(e)
<1>1. CASE Calm
  BY <1>1 DEF Calm, StepOf, Stays
<1>2. ASSUME NEW d \in Dispatchers, NEW c \in Commands, Start(d, c) PROVE StepOf(e)
  BY <1>2, StartStep DEF Apart, StepOf, Stays, Begins
<1>3. ASSUME NEW d \in Dispatchers, Ends(d) PROVE StepOf(e)
  BY <1>3, EndsStep, StopStep DEF Apart, StepOf, Stays
<1>4. ASSUME NEW d \in Dispatchers, Passes(d) PROVE StepOf(e)
  <2>1. GoesOn(d)
    BY <1>4, PassesStep
  <2>2. CASE e = d
    BY <1>4, <2>1, <2>2, GoOnStep DEF Advances, StepOf
  <2>3. CASE e # d
    BY <2>1, <2>3, GoOnStep DEF Apart, Stays, StepOf
  <2>4. QED
    BY <2>2, <2>3
<1>5. ASSUME NEW d \in Dispatchers, Call(d) PROVE StepOf(e)
  BY <1>5, CallStep DEF Apart, Stays, Asks, StepOf
<1>6. ASSUME NEW d \in Dispatchers, FeedFails(d) PROVE StepOf(e)
  <2>1. disp[d].pc = "calling" /\ disp' = [disp EXCEPT ![d].pc = "returned", ![d].ok = FALSE]
    BY <1>6 DEF FeedFails
  <2>2. /\ Apart(d) /\ SameTask(d) /\ disp'[d].todo = disp[d].todo
        /\ disp'[d].pc = "returned" /\ disp'[d].ok = FALSE
    BY <2>1, EndStep
  <2>3. ~disp'[d].ok
    BY <2>2, Zenon
  <2>4. Hears(d)
    BY <2>1, <2>2, <2>3, Zenon DEF Hears
  <2>5. QED
    BY <2>2, <2>4 DEF Apart, Stays, StepOf
<1>7. ASSUME NEW d \in Dispatchers, Kill(d) PROVE StepOf(e)
  BY <1>7, StopStep DEF Kill, Stops, Apart, Stays, StepOf
<1>8. ASSUME NEW d \in Dispatchers, NEW rows \in BOOLEAN, NEW csv \in BOOLEAN,
             FeedSucceeds(d, rows, csv)
      PROVE  StepOf(e)
  <2>1. disp[d].pc = "calling" /\ disp' = [disp EXCEPT ![d].pc = "returned", ![d].ok = TRUE]
    BY <1>8 DEF FeedSucceeds
  <2>2. /\ Apart(d) /\ SameTask(d) /\ disp'[d].todo = disp[d].todo
        /\ disp'[d].pc = "returned"
    BY <2>1, EndStep
  <2>3. Buy(Next_(d), rows, csv) /\ Next_(d) \in Requests
    BY <1>8, <2>1, NextIsThere DEF FeedSucceeds, AtWork
  <2>4. bought' = [bought EXCEPT ![Next_(d)] = bought[Next_(d)] + 1]
    BY <2>3, BuyStep
  <2>5. bought'[Next_(d)] > 0
    <3>1. PICK n \in Requests : n = Next_(d)
      BY <2>3
    <3>2. bought[n] \in Nat /\ bought'[n] = bought[n] + 1
      BY <2>4, <3>1 DEF Types
    <3>3. QED
      BY <3>1, <3>2
  <2>6. Hears(d)
    BY <2>1, <2>2, <2>5, Zenon DEF Hears
  <2>7. QED
    BY <2>2, <2>6 DEF Apart, Stays, StepOf
<1>9. ASSUME NEW r \in Requests, OrphanFails(r) PROVE StepOf(e)
  BY <1>9 DEF OrphanFails, StepOf, Stays
<1>10. ASSUME NEW r \in Requests, NEW rows \in BOOLEAN, NEW csv \in BOOLEAN,
              OrphanSucceeds(r, rows, csv)
       PROVE  StepOf(e)
  BY <1>10 DEF OrphanSucceeds, StepOf, Stays
<1>11. ASSUME NEW s \in Slots, Compact(s) PROVE StepOf(e)
  BY <1>11 DEF Compact, StepOf, Stays
<1>12. QED
  BY <1>1, <1>2, <1>3, <1>4, <1>5, <1>6, <1>7, <1>8, <1>9, <1>10, <1>11, Moves

\* Receipts grow until they are compacted, and the ledger grows.
Grows ==
    /\ compacted \subseteq compacted' /\ raced \subseteq raced' /\ saved \subseteq saved'
    /\ \A s \in Slots : s \in compacted' \/ Keeps(s)

\* What was raced, saved or compacted stays so, and receipts until then.
LEMMA Growth ==
    ASSUME Types, AtWork, [Next]_vars
    PROVE  Grows
<1> receipt' = receipt => \A s \in Slots : Keeps(s)
  BY DEF Keeps
<1>1. CASE Calm
  BY <1>1 DEF Calm, ledger, Grows
<1>2. ASSUME NEW d \in Dispatchers, NEW c \in Commands, Start(d, c) PROVE Grows
  BY <1>2 DEF Start, ledger, Grows
<1>3. ASSUME NEW d \in Dispatchers, Ends(d) PROVE Grows
  BY <1>3, EndsStep DEF ledger, Grows
<1>4. ASSUME NEW d \in Dispatchers, Passes(d) PROVE Grows
  BY <1>4, PassesStep DEF ledger, Grows
<1>5. ASSUME NEW d \in Dispatchers, Call(d) PROVE Grows
  BY <1>5 DEF Call, Grows
<1>6. ASSUME NEW d \in Dispatchers, FeedFails(d) PROVE Grows
  BY <1>6 DEF FeedFails, ledger, Grows
<1>7. ASSUME NEW d \in Dispatchers, Kill(d) PROVE Grows
  BY <1>7 DEF Kill, ledger, Grows
<1>8. ASSUME NEW d \in Dispatchers, NEW rows \in BOOLEAN, NEW csv \in BOOLEAN,
             FeedSucceeds(d, rows, csv)
      PROVE  Grows
  <2>1. Buy(Next_(d), rows, csv) /\ Next_(d) \in Requests
    BY <1>8, NextIsThere DEF FeedSucceeds, AtWork
  <2>2. saved \subseteq saved' /\ \A s \in Slots : Keeps(s)
    BY <2>1, BuyStep
  <2>3. QED
    BY <2>1, <2>2 DEF Buy, Grows
<1>9. ASSUME NEW r \in Requests, OrphanFails(r) PROVE Grows
  BY <1>9 DEF OrphanFails, ledger, Grows
<1>10. ASSUME NEW r \in Requests, NEW rows \in BOOLEAN, NEW csv \in BOOLEAN,
              OrphanSucceeds(r, rows, csv)
       PROVE  Grows
  <2>1. Buy(r, rows, csv)
    BY <1>10 DEF OrphanSucceeds
  <2>2. saved \subseteq saved' /\ \A s \in Slots : Keeps(s)
    BY <2>1, BuyStep
  <2>3. QED
    BY <2>1, <2>2 DEF Buy, Grows
<1>11. ASSUME NEW s \in Slots, Compact(s) PROVE Grows
  BY <1>11, CompactStep DEF Compact, Grows
<1>12. QED
  BY <1>1, <1>2, <1>3, <1>4, <1>5, <1>6, <1>7, <1>8, <1>9, <1>10, <1>11, Moves

\* What is bought or gone, or raced, stays so.
LEMMA Settled ==
    ASSUME Types, Grows, NEW r \in Requests
    PROVE  /\ Gone(r) => Gone(r)'
           /\ Excused(r) => Excused(r)'
           /\ RequestAlreadySucceeded(r) => RequestAlreadySucceeded(r)' \/ Gone(r)'
<1>1. SlotOf(r) \in Slots
  BY Sets
<1>2. QED
  BY <1>1 DEF Grows, Keeps, Gone, Excused, RequestAlreadySucceeded, SlotOf

\* A request is bought by one that runs it: a dispatcher, or an orphan that then is gone.
Bought(r) ==
    /\ bought'[r] = bought[r] + 1 /\ RequestAlreadySucceeded(r)'
    /\ \/ r \in orphans /\ orphans' = orphans \ {r} /\ UNCHANGED disp
       \/ \E d \in Dispatchers :
             Calls(d, r) /\ Apart(d) /\ disp'[d].pc = "returned" /\ orphans' = orphans

\* Only an answer counts a purchase.
LEMMA BoughtStep ==
    ASSUME Types, AtWork, [Next]_vars, NEW r \in Requests
    PROVE  bought'[r] = bought[r] \/ Bought(r)
<1>1. ASSUME NEW d \in Dispatchers, NEW rows \in BOOLEAN, NEW csv \in BOOLEAN,
             FeedSucceeds(d, rows, csv)
      PROVE  bought'[r] = bought[r] \/ Bought(r)
  <2>1. disp[d].pc = "calling" /\ disp' = [disp EXCEPT ![d].pc = "returned", ![d].ok = TRUE]
    BY <1>1 DEF FeedSucceeds
  <2>2. Apart(d) /\ disp'[d].pc = "returned" /\ orphans' = orphans
    BY <1>1, <2>1, EndStep DEF FeedSucceeds
  <2>3. PICK n \in Requests : n = Next_(d) /\ Buy(n, rows, csv)
    BY <1>1, <2>1, NextIsThere DEF FeedSucceeds, AtWork
  <2>4. bought' = [bought EXCEPT ![n] = bought[n] + 1] /\ n.target \in receipt'[SlotOf(n)].by
    BY <2>3, BuyStep
  <2>5. CASE r # n
    BY <2>4, <2>5 DEF Types
  <2>6. CASE r = n
    <3>1. bought'[r] = bought[r] + 1
      BY <2>4, <2>6 DEF Types
    <3>2. RequestAlreadySucceeded(r)'
      BY <2>4, <2>6 DEF RequestAlreadySucceeded, SlotOf
    <3>3. QED
      BY <2>1, <2>2, <2>3, <2>6, <3>1, <3>2 DEF Bought, Calls
  <2>7. QED
    BY <2>5, <2>6
<1>2. ASSUME NEW n \in Requests, NEW rows \in BOOLEAN, NEW csv \in BOOLEAN,
             OrphanSucceeds(n, rows, csv)
      PROVE  bought'[r] = bought[r] \/ Bought(r)
  <2>1. Buy(n, rows, csv) /\ n \in orphans /\ orphans' = orphans \ {n} /\ UNCHANGED disp
    BY <1>2 DEF OrphanSucceeds
  <2>2. bought' = [bought EXCEPT ![n] = bought[n] + 1] /\ n.target \in receipt'[SlotOf(n)].by
    BY <2>1, BuyStep
  <2>3. CASE r # n
    BY <2>2, <2>3 DEF Types
  <2>4. CASE r = n
    <3>1. bought'[r] = bought[r] + 1
      BY <2>2, <2>4 DEF Types
    <3>2. RequestAlreadySucceeded(r)'
      BY <2>2, <2>4 DEF RequestAlreadySucceeded, SlotOf
    <3>3. QED
      BY <2>1, <2>4, <3>1, <3>2 DEF Bought
  <2>5. QED
    BY <2>3, <2>4
<1>3. \/ bought' = bought
      \/ \E d \in Dispatchers, rows, csv \in BOOLEAN : FeedSucceeds(d, rows, csv)
      \/ \E n \in Requests, rows, csv \in BOOLEAN : OrphanSucceeds(n, rows, csv)
  <2>1. Calm => bought' = bought
    BY DEF Calm, ledger
  <2>2. \A d \in Dispatchers : \A c \in Commands : Start(d, c) => bought' = bought
    BY DEF Start, ledger
  <2>3. \A d \in Dispatchers : Ends(d) \/ Passes(d) => bought' = bought
    BY EndsStep, PassesStep DEF ledger
  <2>4. \A d \in Dispatchers : Call(d) \/ FeedFails(d) \/ Kill(d) => bought' = bought
    BY DEF Call, FeedFails, Kill, ledger
  <2>5. /\ \A n \in Requests : OrphanFails(n) => bought' = bought
        /\ \A s \in Slots : Compact(s) => bought' = bought
    BY DEF OrphanFails, Compact, ledger
  <2>6. QED
    BY <2>1, <2>2, <2>3, <2>4, <2>5, Moves
<1>4. QED
  BY <1>1, <1>2, <1>3

\* A request is called by a dispatcher that asks for it, or was before.
LEMMA CallsStep ==
    ASSUME NEW d \in Dispatchers, StepOf(d), NEW r \in Requests, Calls(d, r)'
    PROVE  Calls(d, r) \/ (Asks(d) /\ Next_(d) = r)
<1>1. disp'[d].pc = "calling" /\ FirstIn(disp'[d].todo) = r
  BY DEF Calls, Next_
<1>2. CASE disp'[d].todo = disp[d].todo
  <2>1. Next_(d) = r
    BY <1>1, <1>2 DEF Next_
  <2>2. Stays(d) \/ Asks(d)
    BY <1>1, Sets DEF StepOf, Begins, Advances, Hears
  <2>3. QED
    BY <1>1, <2>1, <2>2 DEF Stays, Calls
<1>3. CASE disp'[d].todo # disp[d].todo
  BY <1>1, <1>3, Sets DEF StepOf, Begins, Advances, Hears, Stays, Asks
<1>4. QED
  BY <1>2, <1>3

\* The dispatcher that asks finds no receipt, and a request that runs already is raced.
LEMMA AskStep ==
    ASSUME Types, NEW d \in Dispatchers, NEW r \in Requests, Asks(d), Next_(d) = r
    PROVE  /\ ~RequestAlreadySucceeded(r) /\ r \in runtime' /\ (Running(r) => r \in raced')
           /\ Apart(d) /\ orphans' = orphans /\ bought' = bought
BY CallStep DEF Asks, Call

\* A feed outlives the dispatcher that called it.
LEMMA OrphansStep ==
    ASSUME Types, AtWork, [Next]_vars, NEW r \in Requests, r \in orphans'
    PROVE  r \in orphans
           \/ \E e \in Dispatchers : Calls(e, r) /\ disp'[e] = Idle /\ Apart(e)
<1>1. ASSUME NEW e \in Dispatchers, Kill(e), r \notin orphans
      PROVE  Calls(e, r) /\ disp'[e] = Idle /\ Apart(e)
  <2>1. Stops(e) /\ Calls(e, r)
    BY <1>1 DEF Kill, Stops, Calls
  <2>2. QED
    BY <2>1, StopStep
<1>2. orphans' \subseteq orphans \/ \E e \in Dispatchers : Kill(e)
  <2>1. Calm => orphans' = orphans
    BY DEF Calm
  <2>2. \A d \in Dispatchers : \A c \in Commands : Start(d, c) => orphans' = orphans
    BY DEF Start
  <2>3. \A d \in Dispatchers : Ends(d) \/ Passes(d) => orphans' = orphans
    BY EndsStep, PassesStep
  <2>4. /\ \A d \in Dispatchers : Call(d) \/ FeedFails(d) => orphans' = orphans
        /\ \A d \in Dispatchers, rows, csv \in BOOLEAN :
              FeedSucceeds(d, rows, csv) => orphans' = orphans
    BY DEF Call, FeedFails, FeedSucceeds
  <2>5. /\ \A n \in Requests : OrphanFails(n) => orphans' \subseteq orphans
        /\ \A n \in Requests, rows, csv \in BOOLEAN :
              OrphanSucceeds(n, rows, csv) => orphans' \subseteq orphans
        /\ \A s \in Slots : Compact(s) => orphans' = orphans
    BY DEF OrphanFails, OrphanSucceeds, Compact
  <2>6. QED
    BY <2>1, <2>2, <2>3, <2>4, <2>5, Moves
<1>3. QED
  BY <1>1, <1>2

\* A request that runs is one that ran before, or one that is asked for.
LEMMA RunsStep ==
    ASSUME Types, AtWork, [Next]_vars, NEW r \in Requests, Running(r)'
    PROVE  Running(r) \/ \E e \in Dispatchers : Asks(e) /\ Next_(e) = r
<1>1. r \in orphans' \/ \E d \in Dispatchers : Calls(d, r)'
  BY DEF Running, Calls
<1>2. Running(r) <=> r \in orphans \/ \E d \in Dispatchers : Calls(d, r)
  BY DEF Running, Calls
<1>3. QED
  BY <1>1, <1>2, OrphansStep, DispatcherStep, CallsStep

\* A runtime key is removed by a dispatcher that acknowledges a success.
LEMMA RuntimeStep ==
    ASSUME Types, AtWork, [Next]_vars, NEW r \in runtime, r \notin runtime'
    PROVE  \E e \in Dispatchers : disp[e].pc = "returned" /\ disp[e].ok /\ Next_(e) = r
                                  /\ Apart(e) /\ disp'[e].pc = "visit"
<1>1. runtime \subseteq runtime' \/ \E e \in Dispatchers : Passes(e)
  <2>1. Calm => runtime' = runtime
    BY DEF Calm
  <2>2. \A d \in Dispatchers : \A c \in Commands : Start(d, c) => runtime' = runtime
    BY DEF Start
  <2>3. \A d \in Dispatchers : Ends(d) => runtime' = runtime
    BY EndsStep
  <2>4. /\ \A d \in Dispatchers : Call(d) \/ FeedFails(d) \/ Kill(d) => runtime \subseteq runtime'
        /\ \A d \in Dispatchers, rows, csv \in BOOLEAN :
              FeedSucceeds(d, rows, csv) => runtime' = runtime
    BY DEF Call, FeedFails, FeedSucceeds, Kill, Buy
  <2>5. /\ \A n \in Requests : OrphanFails(n) => runtime' = runtime
        /\ \A n \in Requests, rows, csv \in BOOLEAN :
              OrphanSucceeds(n, rows, csv) => runtime' = runtime
        /\ \A s \in Slots : Compact(s) => runtime' = runtime
    BY DEF OrphanFails, OrphanSucceeds, Compact, Buy
  <2>6. QED
    BY <2>1, <2>2, <2>3, <2>4, <2>5, Moves
<1>2. PICK e \in Dispatchers : Passes(e)
  BY <1>1
<1>3. GoesOn(e) /\ Return(e) /\ disp[e].ok /\ runtime' = runtime \ {Next_(e)}
  BY <1>2, PassesStep
<1>4. disp[e].pc = "returned" /\ Apart(e) /\ disp'[e].pc = "visit" /\ Next_(e) = r
  BY <1>3, GoOnStep DEF Return
<1>5. QED
  BY <1>3, <1>4

-----------------------------------------------------------------------------
(* The parts of the invariant, kept by every step.                            *)
LEMMA AtWorkStep ==
    ASSUME Types, AtWork, [Next]_vars
    PROVE  AtWork'
<1> SUFFICES ASSUME NEW d \in Dispatchers
             PROVE  /\ disp'[d].todo \subseteq disp'[d].selected
                    /\ disp'[d].pc \in {"calling", "returned"} => disp'[d].todo # {}
  BY DEF AtWork
<1>1. StepOf(d)
  BY DispatcherStep
<1>2. /\ disp[d].todo \subseteq disp[d].selected
      /\ disp[d].pc \in {"calling", "returned"} => disp[d].todo # {}
  BY DEF AtWork
<1>3. QED
  BY <1>1, <1>2, Sets DEF StepOf, Stays, Begins, Advances, Asks, Hears, SameTask

\* What was bought has its receipt, or its slot was compacted.
LEMMA ReceiptsStep ==
    ASSUME Types, AtWork, ReceiptsTell, [Next]_vars
    PROVE  ReceiptsTell'
<1> SUFFICES ASSUME NEW r \in Requests, bought'[r] > 0
             PROVE  RequestAlreadySucceeded(r)' \/ Gone(r)'
  BY DEF ReceiptsTell
<1>1. bought'[r] = bought[r] => RequestAlreadySucceeded(r) \/ Gone(r)
  BY DEF ReceiptsTell
<1>2. QED
  BY <1>1, BoughtStep, Growth, Settled DEF Bought

\* A success that is returned was bought.
LEMMA AcknowledgedStep ==
    ASSUME Types, AtWork, Acknowledged, [Next]_vars
    PROVE  Acknowledged'
<1> SUFFICES ASSUME NEW d \in Dispatchers, disp'[d].pc = "returned", disp'[d].ok
             PROVE  bought'[Next_(d)'] > 0
  BY DEF Acknowledged
<1>1. StepOf(d)
  BY DispatcherStep
<1>2. Stays(d) \/ Hears(d)
  BY <1>1, Sets DEF StepOf, Begins, Advances, Asks
<1>3. CASE Hears(d)
  BY <1>3 DEF Hears, Next_
<1>4. CASE Stays(d)
  <2>1. disp[d].pc = "returned" /\ disp[d].ok /\ Next_(d)' = Next_(d)
    BY <1>4 DEF Stays, Next_
  <2>2. PICK n \in Requests : n = Next_(d)
    BY <2>1, NextIsThere DEF AtWork
  <2>3. bought[n] > 0 /\ bought[n] \in Nat
    BY <2>1, <2>2 DEF Acknowledged, Types
  <2>4. bought'[n] > 0
    BY <2>3, BoughtStep DEF Bought
  <2>5. QED
    BY <2>1, <2>2, <2>4
<1>5. QED
  BY <1>2, <1>3, <1>4

\* A call that runs is the first, or one that is excused.
LEMMA FirstStep ==
    ASSUME Types, AtWork, ReceiptsTell, RunsAreFirst, TwoRunsRace, [Next]_vars
    PROVE  RunsAreFirst'
<1> SUFFICES ASSUME NEW r \in Requests, Running(r)', bought'[r] > 0
             PROVE  Excused(r)'
  BY DEF RunsAreFirst
<1>1. Grows
  BY Growth
<1>2. CASE Running(r) /\ bought'[r] = bought[r]
  BY <1>1, <1>2, Settled DEF RunsAreFirst
<1>3. CASE Bought(r)
  <2>1. CASE r \in orphans /\ orphans' = orphans \ {r} /\ UNCHANGED disp
    <3>1. \E d \in Dispatchers : Calls(d, r)
      BY <2>1 DEF Running, Calls, Next_
    <3>2. r \in raced
      BY <2>1, <3>1 DEF TwoRunsRace
    <3>3. QED
      BY <1>1, <3>2 DEF Excused, Grows
  <2>2. ASSUME NEW d \in Dispatchers, Calls(d, r), Apart(d), disp'[d].pc = "returned",
               orphans' = orphans
        PROVE  r \in raced
    <3>1. r \in orphans \/ \E e \in Dispatchers : disp'[e].pc = "calling" /\ FirstIn(disp'[e].todo) = r
      BY <2>2 DEF Running, Next_
    <3>2. r \in orphans \/ \E e \in Dispatchers : e # d /\ Calls(e, r)
      BY <2>2, <3>1 DEF Apart, Calls, Next_
    <3>3. QED
      BY <2>2, <3>2 DEF TwoRunsRace
  <2>3. QED
    BY <1>1, <1>3, <2>1, <2>2 DEF Bought, Excused, Grows
<1>4. ASSUME NEW e \in Dispatchers, Asks(e), Next_(e) = r
      PROVE  Excused(r)'
  <2>1. ~RequestAlreadySucceeded(r) /\ bought'[r] = bought[r]
    BY <1>4, AskStep
  <2>2. Gone(r)
    BY <2>1 DEF ReceiptsTell
  <2>3. QED
    BY <1>1, <2>2, Settled DEF Excused
<1>5. QED
  BY <1>2, <1>3, <1>4, RunsStep, BoughtStep

\* Two calls for the same request race.
LEMMA RaceStep ==
    ASSUME Types, AtWork, TwoRunsRace, [Next]_vars
    PROVE  TwoRunsRace'
<1> SUFFICES ASSUME NEW r \in Requests, NEW d \in Dispatchers, Calls(d, r)'
             PROVE  /\ r \in orphans' => r \in raced'
                    /\ \A e \in Dispatchers : e # d /\ Calls(e, r)' => r \in raced'
  BY DEF TwoRunsRace
<1>1. raced \subseteq raced'
  BY Growth DEF Grows
<1>2. \A e \in Dispatchers : Calls(e, r)' => Calls(e, r) \/ (Asks(e) /\ Next_(e) = r)
  BY DispatcherStep, CallsStep
<1>3. \A e \in Dispatchers : Calls(e, r) => Running(r)
  BY DEF Calls, Running
<1>4. \A e \in Dispatchers : Asks(e) /\ Next_(e) = r => (Running(r) => r \in raced') /\ Apart(e)
  BY AskStep
<1>5. ASSUME NEW e \in Dispatchers, e # d, Calls(e, r)' PROVE r \in raced'
  <2>1. CASE Calls(e, r) /\ Calls(d, r)
    BY <1>1, <1>5, <2>1 DEF TwoRunsRace
  <2>2. CASE Calls(d, r) /\ Asks(e) /\ Next_(e) = r
    BY <1>3, <1>4, <2>2
  <2>3. CASE Asks(d) /\ Next_(d) = r
    <3>1. Apart(d)
      BY <1>4, <2>3
    <3>2. Calls(e, r)
      BY <1>5, <3>1 DEF Apart, Calls, Next_
    <3>3. QED
      BY <1>3, <1>4, <2>3, <3>2
  <2>4. QED
    BY <1>2, <1>5, <2>1, <2>2, <2>3
<1>6. ASSUME r \in orphans' PROVE r \in raced'
  <2>1. CASE r \in orphans /\ Calls(d, r)
    BY <1>1, <2>1 DEF TwoRunsRace
  <2>2. CASE r \in orphans /\ Asks(d) /\ Next_(d) = r
    BY <1>4, <2>2 DEF Running
  <2>3. CASE r \notin orphans
    <3>1. PICK e \in Dispatchers : Calls(e, r) /\ disp'[e] = Idle /\ Apart(e)
      BY <1>6, <2>3, OrphansStep
    <3>2. e # d
      BY <3>1, Sets DEF Calls
    <3>3. Calls(d, r)
      BY <3>1, <3>2 DEF Apart, Calls, Next_
    <3>4. QED
      BY <1>1, <3>1, <3>2, <3>3 DEF TwoRunsRace
  <2>4. QED
    BY <1>2, <2>1, <2>2, <2>3
<1>7. QED
  BY <1>5, <1>6

\* What is bought twice was raced, compacted or disowned.
LEMMA CauseStep ==
    ASSUME Types, AtWork, Acknowledged, RunsAreFirst, TwoRunsRace, RacesHaveCause, [Next]_vars
    PROVE  RacesHaveCause'
<1>1. Grows
  BY Growth
<1>2. ASSUME NEW r \in Requests, bought'[r] > 1
      PROVE  r \in raced' \/ SlotOf(r) \in compacted'
  <2>1. CASE bought'[r] = bought[r]
    BY <1>1, <1>2, <2>1 DEF RacesHaveCause, BoughtAgainHasCause, Grows
  <2>2. CASE Bought(r)
    <3>1. Running(r)
      BY <2>2 DEF Bought, Running, Calls
    <3>2. bought[r] \in Nat /\ bought'[r] = bought[r] + 1
      BY <2>2 DEF Bought, Types
    <3>3. bought[r] > 0
      BY <1>2, <3>2
    <3>4. QED
      BY <1>1, <3>1, <3>3 DEF RunsAreFirst, Excused, Gone, Grows
  <2>3. QED
    BY <2>1, <2>2, BoughtStep
<1>3. BoughtAgainHasCause'
  BY <1>2 DEF BoughtAgainHasCause, SlotOf
<1>4. ASSUME NEW d \in Dispatchers, NEW r \in Requests, Calls(d, r)'
      PROVE  r \in runtime' \cup raced' \/ SlotOf(r) \in compacted'
  <2>1. CASE Asks(d) /\ Next_(d) = r
    BY <2>1, AskStep
  <2>2. CASE Calls(d, r) /\ (r \in raced \/ SlotOf(r) \in compacted)
    BY <1>1, <2>2 DEF Grows
  <2>3. CASE Calls(d, r) /\ r \in runtime /\ r \notin runtime'
    <3>1. PICK e \in Dispatchers : disp[e].pc = "returned" /\ disp[e].ok /\ Next_(e) = r
      BY <2>3, RuntimeStep
    <3>2. bought[r] > 0 /\ Running(r)
      BY <2>3, <3>1 DEF Acknowledged, Running, Calls
    <3>3. QED
      BY <1>1, <3>2 DEF RunsAreFirst, Excused, Gone, Grows
  <2>4. Calls(d, r) => r \in runtime \cup raced \/ SlotOf(r) \in compacted
    BY DEF RacesHaveCause, CallHasItsKey, Calls
  <2>5. QED
    BY <1>4, <2>1, <2>2, <2>3, <2>4, DispatcherStep, CallsStep
<1>5. CallHasItsKey'
  <2> SUFFICES ASSUME NEW d \in Dispatchers, disp'[d].pc = "calling"
               PROVE  \/ Next_(d)' \in runtime' \cup raced'
                      \/ SlotOf(Next_(d)') \in compacted'
    BY DEF CallHasItsKey, SlotOf
  <2>1. AtWork' /\ Types'
    BY AtWorkStep, TypeStep
  <2>2. disp'[d].todo \in SUBSET Requests /\ disp'[d].todo # {}
    BY <2>1 DEF AtWork, Types, Disp
  <2>3. FirstIn(disp'[d].todo) \in Requests
    BY <2>2, FirstIsThere
  <2>4. PICK r \in Requests : r = FirstIn(disp'[d].todo)
    BY <2>3
  <2>5. Next_(d)' = r
    BY <2>4 DEF Next_
  <2>6. Calls(d, r)'
    BY <2>5 DEF Calls
  <2>7. QED
    BY <1>4, <2>5, <2>6
<1>6. QED
  BY <1>3, <1>5 DEF RacesHaveCause

\* An unlimited dispatch skips nothing but what is in hand already.
LEMMA SkipStep ==
    ASSUME Types, AtWork, ReceiptsTell, Acknowledged, NothingSkipped, [Next]_vars
    PROVE  NothingSkipped'
<1> SUFFICES ASSUME NEW d \in Dispatchers, Unlimited(d)', NEW r \in disp'[d].selected
             PROVE  r \in disp'[d].todo \/ RequestAlreadySucceeded(r)' \/ Gone(r)'
  BY DEF NothingSkipped
<1>1. Grows /\ StepOf(d) /\ Types'
  BY Growth, DispatcherStep, TypeStep
<1>2. r \in Requests
  BY <1>1 DEF Types, Disp
<1>3. RequestAlreadySucceeded(r) \/ Gone(r) => RequestAlreadySucceeded(r)' \/ Gone(r)'
  BY <1>1, <1>2, Settled
<1>4. CASE Begins(d)
  BY <1>4 DEF Begins
<1>5. CASE Stays(d) \/ Asks(d) \/ Hears(d)
  <2>1. disp'[d].todo = disp[d].todo /\ disp'[d].selected = disp[d].selected
    BY <1>5 DEF Stays, Asks, Hears, SameTask
  <2>2. Unlimited(d)
    <3>1. ~disp'[d].goOn /\ (disp'[d].goOn <=> disp[d].goOn)
      BY <1>5, Zenon DEF Unlimited, Stays, Asks, Hears, SameTask
    <3>2. disp[d].pc # "idle" /\ disp[d].limit = NoLimit
      BY <1>5 DEF Unlimited, Stays, Asks, Hears, SameTask
    <3>3. QED
      BY <3>1, <3>2, Zenon DEF Unlimited
  <2>3. QED
    BY <1>3, <2>1, <2>2 DEF NothingSkipped
<1>6. CASE Advances(d)
  <2>1. Unlimited(d)
    BY <1>6, Zenon DEF Advances, Unlimited, SameTask
  <2>2. disp'[d].todo = disp[d].todo \ {Next_(d)} /\ r \in disp[d].selected
    BY <1>6 DEF Advances, SameTask
  <2>3. r \in disp[d].todo \/ RequestAlreadySucceeded(r) \/ Gone(r)
    BY <2>1, <2>2 DEF NothingSkipped
  <2>4. ASSUME r = Next_(d) PROVE RequestAlreadySucceeded(r) \/ Gone(r)
    <3>1. CASE Skip(d)
      BY <2>1, <2>4, <3>1 DEF Skip, LimitReached, Unlimited
    <3>2. CASE Return(d) /\ (disp[d].ok \/ disp[d].goOn)
      <4>1. disp[d].pc = "returned" /\ disp[d].ok
        BY <2>1, <3>2 DEF Return, Unlimited
      <4>2. bought[r] > 0
        BY <2>4, <4>1 DEF Acknowledged
      <4>3. QED
        BY <1>2, <4>2 DEF ReceiptsTell
    <3>3. QED
      BY <1>6, <3>1, <3>2 DEF Advances, Passes
  <2>5. QED
    BY <1>3, <2>2, <2>3, <2>4
<1>7. CASE disp'[d] = Idle
  BY <1>7, Sets DEF Unlimited
<1>8. QED
  BY <1>1, <1>4, <1>5, <1>6, <1>7 DEF StepOf

\* Only a materialization changes the pool.
LEMMA PoolStep ==
    ASSUME Types, AtWork, [Next]_vars
    PROVE  \/ pool' = pool
           \/ /\ pool' = SqlInputs \cup Artifacts
              /\ UNCHANGED <<receipt, saved, compacted>>
<1>1. CASE Calm
  BY <1>1 DEF Calm, Materialize, ledger
<1>2. Calm \/ pool' = pool
  <2>1. \A d \in Dispatchers : \A c \in Commands : Start(d, c) => pool' = pool
    BY DEF Start
  <2>2. \A d \in Dispatchers : Ends(d) \/ Passes(d) => pool' = pool
    BY EndsStep, PassesStep
  <2>3. /\ \A d \in Dispatchers : Call(d) \/ FeedFails(d) \/ Kill(d) => pool' = pool
        /\ \A d \in Dispatchers, rows, csv \in BOOLEAN : FeedSucceeds(d, rows, csv) => pool' = pool
    BY DEF Call, FeedFails, FeedSucceeds, Kill, Buy
  <2>4. /\ \A n \in Requests : OrphanFails(n) => pool' = pool
        /\ \A n \in Requests, rows, csv \in BOOLEAN : OrphanSucceeds(n, rows, csv) => pool' = pool
        /\ \A s \in Slots : Compact(s) => pool' = pool
    BY DEF OrphanFails, OrphanSucceeds, Compact, Buy
  <2>5. QED
    BY <2>1, <2>2, <2>3, <2>4, Moves
<1>3. QED
  BY <1>1, <1>2

\* A feed of the pool has a source, or was compacted.
LEMMA CoveredStep ==
    ASSUME Types, AtWork, PoolIsCovered, [Next]_vars
    PROVE  PoolIsCovered'
<1> SUFFICES ASSUME NEW feed \in pool'
             PROVE  \/ feed \in SqlInputs' \cup Artifacts'
                    \/ \E m \in Months : <<feed, m>> \in compacted'
  BY DEF PoolIsCovered
<1>1. Grows /\ Types'
  BY Growth, TypeStep
<1>2. feed \in Feeds
  BY <1>1 DEF Types
<1>3. feed \in Artifacts => feed \in Artifacts'
  BY <1>1 DEF Artifacts, Grows
<1>4. ASSUME feed \in SqlInputs
      PROVE  feed \in SqlInputs' \/ \E m \in Months : <<feed, m>> \in compacted'
  <2>1. PICK m \in Months : receipt[<<feed, m>>].by # {} /\ receipt[<<feed, m>>].rows
    BY <1>4 DEF SqlInputs, RowCoverage, Coverage, SuccessfulFeedRuns
  <2>2. <<feed, m>> \in Slots
    BY <1>2 DEF Slots
  <2>3. CASE Keeps(<<feed, m>>)
    <3>1. receipt'[<<feed, m>>].by # {} /\ receipt'[<<feed, m>>].rows
      BY <2>1, <2>3 DEF Keeps
    <3>2. m \in Coverage(feed)' /\ m \in RowCoverage(feed)'
      BY <3>1 DEF Coverage, RowCoverage, SuccessfulFeedRuns
    <3>3. QED
      BY <1>2, <3>2 DEF SqlInputs
  <2>4. QED
    BY <1>1, <2>2, <2>3 DEF Grows
<1>5. CASE pool' = pool
  <2>1. feed \in SqlInputs \cup Artifacts \/ \E m \in Months : <<feed, m>> \in compacted
    BY <1>5 DEF PoolIsCovered
  <2>2. QED
    BY <1>1, <1>3, <1>4, <2>1 DEF Grows
<1>6. CASE pool' = SqlInputs \cup Artifacts
  BY <1>3, <1>4, <1>6
<1>7. QED
  BY <1>5, <1>6, PoolStep

-----------------------------------------------------------------------------
(* The theorems.                                                              *)
LEMMA InitInvariant == Init => IInv
<1> SUFFICES ASSUME Init PROVE IInv
  OBVIOUS
<1>1. Types
  BY Constants, Sets DEF Init, Types, NoReceipt, Receipt
<1>2. \A d \in Dispatchers : disp[d] = Idle
  BY DEF Init
<1>3. /\ \A r \in Requests : bought[r] = 0
      /\ orphans = {} /\ pool = {}
  BY DEF Init
<1>4. \A r \in Requests : ~(bought[r] > 0) /\ ~(bought[r] > 1)
  BY <1>3
<1>5. AtWork /\ Acknowledged /\ TwoRunsRace /\ CallHasItsKey
  BY <1>2, Sets DEF AtWork, Acknowledged, TwoRunsRace, Calls, CallHasItsKey
<1>6. ReceiptsTell /\ RunsAreFirst /\ BoughtAgainHasCause /\ PoolIsCovered
  BY <1>3, <1>4 DEF ReceiptsTell, RunsAreFirst, BoughtAgainHasCause, PoolIsCovered
<1>7. NothingSkipped
  BY <1>2, Sets DEF NothingSkipped, Unlimited
<1>8. QED
  BY <1>1, <1>5, <1>6, <1>7, TypeFacts DEF IInv, RacesHaveCause

\* The invariant is inductive.
LEMMA StepInvariant == IInv /\ [Next]_vars => IInv'
<1> SUFFICES ASSUME IInv, [Next]_vars PROVE IInv'
  OBVIOUS
<1>1. Types
  BY TypeFacts DEF IInv
<1>2. Types'
  BY <1>1, TypeStep DEF IInv
<1>3. TypeOK'
  BY <1>2 DEF TypeOK, Types, Labels, Disp, Receipt
<1>4. AtWork' /\ ReceiptsTell' /\ Acknowledged' /\ RunsAreFirst' /\ TwoRunsRace'
  BY <1>1, AtWorkStep, ReceiptsStep, AcknowledgedStep, FirstStep, RaceStep DEF IInv
<1>5. RacesHaveCause' /\ NothingSkipped' /\ PoolIsCovered'
  BY <1>1, CauseStep, SkipStep, CoveredStep DEF IInv
<1>6. QED
  BY <1>3, <1>4, <1>5 DEF IInv

\* The inductive invariant of the feeds: what the dispatchers, the receipts, the
\* ledger and the pool say of each other, in every reachable state.
THEOREM FeedInvariant == Spec => []IInv
BY InitInvariant, StepInvariant, PTL DEF Spec

\* Every part of the state has its type.
THEOREM TypeCorrect == Spec => []TypeOK
<1>1. IInv => TypeOK
  BY DEF IInv
<1>2. QED
  BY <1>1, FeedInvariant, PTL

\* A request is bought twice, and a call loses its runtime key, only after a second
\* call ran beside the first or a compaction took the receipt away.
THEOREM RacesAreExplained == Spec => []RacesHaveCause
<1>1. IInv => RacesHaveCause
  BY DEF IInv
<1>2. QED
  BY <1>1, FeedInvariant, PTL

\* Where an unlimited dispatch ends, all it selected is in hand.
LEMMA CleanEnd ==
    ASSUME IInv, NEW d \in Dispatchers, Finish(d), disp[d].limit = NoLimit, ~disp[d].goOn,
           NEW r \in disp[d].selected
    PROVE  RequestAlreadySucceeded(r) \/ SlotOf(r) \in compacted
<1>1. Unlimited(d) /\ disp[d].todo = {}
  BY DEF Finish, Unlimited
<1>2. QED
  BY <1>1 DEF IInv, NothingSkipped, Gone

\* A feed leaves the pool only for a compaction that found no rows.
LEMMA PoolLoss ==
    ASSUME IInv, [Next]_vars, NEW feed \in pool \ pool'
    PROVE  /\ \E m \in Months : <<feed, m>> \in compacted
           /\ \A m \in Months : <<feed, m>> \notin saved
<1>1. Types /\ AtWork /\ PoolIsCovered
  BY TypeFacts DEF IInv
<1>2. pool' = SqlInputs \cup Artifacts
  BY <1>1, PoolStep
<1>3. feed \in Feeds /\ feed \notin SqlInputs /\ feed \notin Artifacts
  BY <1>1, <1>2 DEF Types
<1>4. \E m \in Months : <<feed, m>> \in compacted
  BY <1>1, <1>3 DEF PoolIsCovered
<1>5. \A m \in Months : <<feed, m>> \notin saved
  BY <1>3 DEF Artifacts
<1>6. QED
  BY <1>4, <1>5

\* A dispatch that ends cleanly has bought all that it selected, and a source drops
\* out of the pool of M03 only when its receipts were compacted away.
THEOREM NothingIsLost == Spec => NothingBoughtIsLost
<1>1. IInv /\ [Next]_vars =>
        [\A d \in Dispatchers :
            Finish(d) /\ disp[d].limit = NoLimit /\ ~disp[d].goOn
                => \A r \in disp[d].selected :
                       RequestAlreadySucceeded(r) \/ SlotOf(r) \in compacted]_vars
  BY CleanEnd
<1>2. IInv /\ [Next]_vars =>
        [\A feed \in pool \ pool' :
            /\ \E m \in Months : <<feed, m>> \in compacted
            /\ \A m \in Months : <<feed, m>> \notin saved]_vars
  BY PoolLoss
<1>3. Spec => CleanEndIsComplete
  BY <1>1, FeedInvariant, PTL DEF Spec, CleanEndIsComplete
<1>4. Spec => PoolLosesOnlyByCompaction
  BY <1>2, FeedInvariant, PTL DEF Spec, PoolLosesOnlyByCompaction
<1>5. QED
  BY <1>3, <1>4 DEF NothingBoughtIsLost

-----------------------------------------------------------------------------
(* EventEvidence: the state and the invariant.                                *)
Fields == {"actual", "consensus", "te_forecast", "previous"}
CrawledRows == [family : Of("macro"), release : Releases, time : Times, fields : Shapes, run : Nat]
Routes == [readiness : {Absent, "missing_same_family", "mixed_family", "missing_structured",
                        "context_review", "missing_gates"},
           parked : BOOLEAN]
Routers == [todo : Seq(Families), asked : Seq(Families), made : Seq(Families \X Routes)]

PacketTypes ==
    /\ news \in [NewsFamilies -> [Times -> {"directed", "mixed_or_unclear", "plain", Absent}]]
    /\ \A f \in NewsFamilies, t \in Times : news[f][t] \in Subtypes(f) \cup {Absent}
    /\ sessions \in {0, SessionRows}
    /\ crawls \in Seq(CrawledRows) /\ route \in [Families -> Routes]
    /\ handoff \subseteq Families /\ router \in Routers

\* A row in SQL is one of the crawls, and the only one of its event.
CalendarIsCrawled ==
    /\ calendar \subseteq {crawls[i] : i \in DOMAIN crawls}
    /\ \A r, s \in calendar : EventId(r) = EventId(s) => r = s

\* HandoffHasCause is not inductive: it speaks of the sample, which news that arrive
\* change.  What was observed and made the handoff stays observed.
HandoffWasSeen ==
    \A f \in handoff :
        \/ Kind[f] = "session" /\ sessions >= Minimum
        \/ /\ Kind[f] = "price" /\ Cardinality(NewsTimes(f)) >= Minimum
           /\ \E t \in NewsTimes(f) : news[f][t] = "mixed_or_unclear"

\* What the routing under way has made and has to do, of what it was asked.
RoutingIsInStep ==
    LET made == router.made
        asked == router.asked
    IN  /\ Len(asked) = Len(made) + Len(router.todo)
        /\ \A i \in DOMAIN router.todo : router.todo[i] = asked[Len(made) + i]
        /\ \A i \in DOMAIN made :
              made[i][1] = asked[i] /\ (LastOf(made, i) => route[asked[i]] = made[i][2])

PacketInv == PacketTypes /\ CalendarIsCrawled /\ HandoffWasSeen /\ RoutingIsInStep

-----------------------------------------------------------------------------
(* Crawls and the rows made of them.                                          *)

\* Nothing else of the state.
PacketRest == <<route, handoff, summary, router>>

\* The rows of a crawl and their score.
LEMMA CrawlScore ==
    ASSUME PacketTypes, NEW i \in DOMAIN crawls
    PROVE  /\ crawls[i] \in CrawledRows /\ i \in Int
           /\ Cardinality(crawls[i].fields) \in Nat
<1>1. crawls[i] \in CrawledRows /\ i \in Int
  BY DEF PacketTypes
<1>2. crawls[i].fields \subseteq Fields
  BY <1>1, EvidenceAssumption DEF CrawledRows, Fields
<1>3. IsFiniteSet(Fields)
  <2>1. /\ IsFiniteSet({"actual"}) /\ IsFiniteSet({"consensus"})
        /\ IsFiniteSet({"te_forecast"}) /\ IsFiniteSet({"previous"})
    BY FS_Singleton
  <2>2. Fields = ({"actual"} \cup {"consensus"}) \cup ({"te_forecast"} \cup {"previous"})
    BY DEF Fields
  <2>3. QED
    BY <2>1, <2>2, FS_Union
<1>4. QED
  BY <1>1, <1>2, <1>3, FS_Subset, FS_CardinalityType

\* Of two crawls only one is better, and it has a surprise if the other has, or has
\* more fields.
LEMMA BetterIsOrder ==
    ASSUME PacketTypes, NEW i \in DOMAIN crawls, NEW j \in DOMAIN crawls, Better(j, i)
    PROVE  /\ ~Better(i, j)
           /\ \/ HasSurprise(crawls[i]) => HasSurprise(crawls[j])
              \/ Cardinality(crawls[j].fields) > Cardinality(crawls[i].fields)
<1>1. PICK n \in Nat, m \in Nat :
         n = Cardinality(crawls[i].fields) /\ m = Cardinality(crawls[j].fields)
  BY CrawlScore
<1>2. PICK a \in {0, 1}, b \in {0, 1} :
         /\ a = IF HasSurprise(crawls[i]) THEN 1 ELSE 0
         /\ b = IF HasSurprise(crawls[j]) THEN 1 ELSE 0
  OBVIOUS
<1>3. 2 * m + b > 2 * n + a \/ (2 * m + b = 2 * n + a /\ j > i)
  BY <1>1, <1>2 DEF Better
<1>4. i \in Int /\ j \in Int
  BY CrawlScore
<1>5. ~(2 * n + a > 2 * m + b \/ (2 * n + a = 2 * m + b /\ i > j))
  BY <1>3, <1>4
<1>6. ~Better(i, j)
  BY <1>1, <1>2, <1>5 DEF Better
<1>7. m > n \/ (m = n /\ b >= a)
  BY <1>3
<1>8. b >= a => (HasSurprise(crawls[i]) => HasSurprise(crawls[j]))
  BY <1>2
<1>9. QED
  BY <1>1, <1>6, <1>7, <1>8

\* What a materialized row is.
LEMMA MaterializedRow ==
    ASSUME PacketTypes, NEW f, NEW r \in Materialized(f)
    PROVE  \E i \in DOMAIN crawls :
              /\ r = crawls[i] /\ r.family = f
              /\ \A j \in DOMAIN crawls :
                    EventId(crawls[j]) = EventId(r) => i = j \/ Better(i, j)
<1>1. PICK i \in DOMAIN crawls :
         /\ r = crawls[i] /\ crawls[i].family = f
         /\ \A j \in DOMAIN crawls :
               crawls[j].family = f /\ EventId(crawls[j]) = EventId(crawls[i])
                   => i = j \/ Better(i, j)
  BY DEF Materialized
<1>2. \A j \in DOMAIN crawls : EventId(crawls[j]) = EventId(r) => crawls[j].family = f
  BY <1>1 DEF EventId
<1>3. QED
  BY <1>1, <1>2

\* The calendar holds rows of crawls after an enrichment.
LEMMA EnrichedCalendar ==
    ASSUME PacketTypes, CalendarIsCrawled, NEW f, Enrich(f)
    PROVE  CalendarIsCrawled'
<1> DEFINE rows == Materialized(f)
           Ids == {EventId(r) : r \in rows}
<1>1. calendar' = {r \in calendar : EventId(r) \notin Ids} \cup rows /\ crawls' = crawls
  BY DEF Enrich
<1>2. \A r \in rows : \E i \in DOMAIN crawls : r = crawls[i]
  BY MaterializedRow
<1>3. calendar' \subseteq {crawls[i] : i \in DOMAIN crawls}
  BY <1>1, <1>2 DEF CalendarIsCrawled
<1>4. ASSUME NEW r \in rows, NEW s \in rows, EventId(r) = EventId(s)
      PROVE  r = s
  <2>1. PICK i \in DOMAIN crawls : r = crawls[i] /\ \A k \in DOMAIN crawls :
           EventId(crawls[k]) = EventId(r) => i = k \/ Better(i, k)
    BY MaterializedRow
  <2>2. PICK j \in DOMAIN crawls : s = crawls[j] /\ \A k \in DOMAIN crawls :
           EventId(crawls[k]) = EventId(s) => j = k \/ Better(j, k)
    BY MaterializedRow
  <2>3. i = j \/ (Better(i, j) /\ Better(j, i))
    BY <1>4, <2>1, <2>2
  <2>4. QED
    BY <2>1, <2>2, <2>3, BetterIsOrder
<1> HIDE DEF rows
<1>5. \A r, s \in calendar' : EventId(r) = EventId(s) => r = s
  BY <1>1, <1>4 DEF CalendarIsCrawled
<1>6. QED
  BY <1>1, <1>3, <1>5 DEF CalendarIsCrawled, EventId

\* An enrichment keeps the surprise of an event or brings a row with more fields.
LEMMA SurpriseStays ==
    ASSUME PacketTypes, CalendarIsCrawled, NEW f, Enrich(f), NEW r \in calendar
    PROVE  \E s \in calendar' :
              /\ EventId(s) = EventId(r)
              /\ \/ HasSurprise(r) => HasSurprise(s)
                 \/ Cardinality(s.fields) > Cardinality(r.fields)
<1> DEFINE rows == Materialized(f)
           Ids == {EventId(q) : q \in rows}
<1>1. calendar' = {q \in calendar : EventId(q) \notin Ids} \cup rows
  BY DEF Enrich
<1>2. CASE EventId(r) \notin Ids
  BY <1>1, <1>2
<1>3. CASE EventId(r) \in Ids
  <2>1. PICK s \in rows : EventId(s) = EventId(r)
    BY <1>3
  <2>2. PICK j \in DOMAIN crawls : s = crawls[j] /\ \A k \in DOMAIN crawls :
           EventId(crawls[k]) = EventId(s) => j = k \/ Better(j, k)
    BY MaterializedRow
  <2>3. PICK i \in DOMAIN crawls : r = crawls[i]
    BY DEF CalendarIsCrawled
  <2>4. i = j \/ Better(j, i)
    BY <2>1, <2>2, <2>3
  <2>5. \/ HasSurprise(r) => HasSurprise(s)
        \/ Cardinality(s.fields) > Cardinality(r.fields)
    BY <2>2, <2>3, <2>4, BetterIsOrder
  <2>6. s \in calendar'
    BY <1>1
  <2>7. QED
    BY <2>1, <2>5, <2>6
<1>4. QED
  BY <1>2, <1>3

\* Two rows in SQL of one release are of crawls with two clocks.
LEMMA CountedByClock == PacketTypes /\ CalendarIsCrawled => CountedOnce
<1> SUFFICES ASSUME CalendarIsCrawled, NEW r \in calendar, NEW s \in calendar,
                    r # s, r.family = s.family, r.release = s.release
             PROVE  \E i, j \in DOMAIN crawls :
                       /\ crawls[i].release = r.release /\ crawls[j].release = r.release
                       /\ crawls[i].time # crawls[j].time
  BY DEF CountedOnce
<1>1. r.time # s.time
  BY DEF CalendarIsCrawled, EventId
<1>2. PICK i, j \in DOMAIN crawls : r = crawls[i] /\ s = crawls[j]
  BY DEF CalendarIsCrawled
<1>3. QED
  BY <1>1, <1>2


-----------------------------------------------------------------------------
(* Routes and the routing.                                                    *)
LEMMA RouteType == ASSUME NEW f PROVE RouteOf(f) \in Routes
<1>1. Readiness(f) \in {"missing_same_family", "mixed_family", "missing_structured",
                        "context_review", "missing_gates"}
  <2>1. CASE TotalObservations(f) < Minimum
    BY <2>1 DEF Readiness
  <2>2. CASE TotalObservations(f) >= Minimum /\ MixedFamily(f)
    BY <2>2 DEF Readiness
  <2>3. QED
    BY <2>1, <2>2 DEF Readiness
<1>2. QED
  BY <1>1 DEF RouteOf, Routes

\* A routing begins, makes a route, ends with a summary or without one.
Begun ==
    /\ \E families \in Seq(Families) :
          router' = [todo |-> families, asked |-> families, made |-> <<>>]
    /\ UNCHANGED <<route, handoff, summary, evidence>>
Made ==
    /\ router.todo # <<>>
    /\ LET f == Head(router.todo)
       IN  /\ route' = [route EXCEPT ![f] = RouteOf(f)]
           /\ router' = [todo |-> Tail(router.todo), asked |-> router.asked,
                         made |-> Append(router.made, <<f, RouteOf(f)>>)]
           /\ \/ handoff' = handoff
              \/ handoff' = handoff \cup {f} /\ NextActionOwner(Readiness(f)) = "semantic_review"
    /\ UNCHANGED <<summary, evidence>>
Ended ==
    /\ router' = Resting /\ UNCHANGED <<route, handoff, evidence>>
    /\ \/ UNCHANGED summary
       \/ router.todo = <<>> /\ summary' = router.made

\* A step begins, makes or ends a routing, or leaves it alone.
LEMMA RoutingSteps ==
    ASSUME PacketTypes, PacketNext
    PROVE  (Sources /\ UNCHANGED PacketRest) \/ Begun \/ Made \/ Ended
<1>1. CASE Sources
  BY <1>1 DEF Sources, Publish, NewsArrives, Crawl, Enrich, PacketRest
<1>2. ASSUME NEW families \in Routings, StartRouting(families) PROVE Begun
  BY <1>2, EvidenceAssumption DEF StartRouting, Begun, evidence
<1>3. CASE RouteFamily
  <2>1. router = [todo |-> router.todo, asked |-> router.asked, made |-> router.made]
    BY DEF PacketTypes, Routers
  <2>2. PICK f : f = Head(router.todo)
    OBVIOUS
  <2>3. router' = [router EXCEPT !.todo = Tail(router.todo),
                                 !.made = Append(router.made, <<f, RouteOf(f)>>)]
    BY <1>3, <2>2 DEF RouteFamily
  <2>4. router' = [todo |-> Tail(router.todo), asked |-> router.asked,
                   made |-> Append(router.made, <<f, RouteOf(f)>>)]
    BY <2>1, <2>3
  <2>5. QED
    BY <1>3, <2>2, <2>4 DEF RouteFamily, Routing, Made, evidence
<1>4. CASE Abort \/ Summarise \/ KillRouting
  BY <1>4 DEF Abort, Summarise, KillRouting, Ended, evidence
<1>5. QED
  BY <1>1, <1>2, <1>3, <1>4 DEF PacketNext

\* A route that is made keeps the summary in step with the routes.
LEMMA MadeKeepsStep ==
    ASSUME PacketTypes, RoutingIsInStep, Made
    PROVE  RoutingIsInStep' /\ route' \in [Families -> Routes] /\ router' \in Routers
<1>1. PICK f, r : f = Head(router.todo) /\ r = RouteOf(f)
  OBVIOUS
<1>2. PICK todo \in Seq(Families), asked \in Seq(Families), made \in Seq(Families \X Routes) :
         /\ todo = router.todo /\ asked = router.asked /\ made = router.made
  BY DEF PacketTypes, Routers
<1>3. f \in Families /\ r \in Routes /\ todo # <<>> /\ f = todo[1]
  BY <1>1, <1>2, RouteType DEF Made
<1>4. /\ Len(asked) = Len(made) + Len(todo)
      /\ \A i \in DOMAIN todo : todo[i] = asked[Len(made) + i]
      /\ \A i \in DOMAIN made :
            made[i][1] = asked[i] /\ (LastOf(made, i) => route[asked[i]] = made[i][2])
  BY <1>2 DEF RoutingIsInStep
<1>5. PICK now : now = Append(made, <<f, r>>)
  OBVIOUS
<1>6. /\ route' = [route EXCEPT ![f] = r]
      /\ router'.todo = Tail(todo) /\ router'.asked = asked /\ router'.made = now
      /\ router' \in Routers
  BY <1>1, <1>2, <1>3, <1>5 DEF Made, Routers
<1>7. /\ now \in Seq(Families \X Routes) /\ Len(now) = Len(made) + 1
      /\ \A i \in DOMAIN made : now[i] = made[i]
      /\ now[Len(made) + 1] = <<f, r>>
  BY <1>3, <1>5
<1>8. route' \in [Families -> Routes] /\ route'[f] = r /\ \A g \in Families : g # f => route'[g] = route[g]
  BY <1>3, <1>6 DEF PacketTypes
<1>9. Len(asked) = Len(now) + Len(Tail(todo))
  BY <1>3, <1>4, <1>7
<1>10. \A i \in DOMAIN Tail(todo) : Tail(todo)[i] = asked[Len(now) + i]
  <2> SUFFICES ASSUME NEW i \in DOMAIN Tail(todo) PROVE Tail(todo)[i] = asked[Len(now) + i]
    OBVIOUS
  <2>1. i \in 1 .. Len(todo) - 1 /\ Tail(todo)[i] = todo[i + 1]
    BY <1>3
  <2>2. todo[i + 1] = asked[Len(made) + (i + 1)]
    BY <1>4, <2>1
  <2>3. QED
    BY <1>7, <2>1, <2>2
<1>11. ASSUME NEW i \in DOMAIN now
       PROVE  now[i][1] = asked[i] /\ (LastOf(now, i) => route'[asked[i]] = now[i][2])
  <2>1. CASE i = Len(made) + 1
    <3>1. asked[i] = f
      BY <1>3, <1>4, <2>1
    <3>2. QED
      BY <1>7, <1>8, <2>1, <3>1
  <2>2. CASE i \in DOMAIN made
    <3>1. now[i] = made[i] /\ made[i][1] = asked[i] /\ asked[i] \in Families
      BY <1>4, <1>7, <2>2
    <3>2. ASSUME LastOf(now, i) PROVE route'[asked[i]] = now[i][2]
      <4>1. Len(made) + 1 \in DOMAIN now /\ Len(made) + 1 > i
        BY <1>7, <2>2
      <4>2. asked[i] # f
        BY <1>7, <3>1, <3>2, <4>1 DEF LastOf
      <4>3. LastOf(made, i)
        <5> SUFFICES ASSUME NEW j \in DOMAIN made, j > i PROVE made[j][1] # made[i][1]
          BY DEF LastOf
        <5>1. j \in DOMAIN now /\ now[j] = made[j]
          BY <1>7
        <5>2. QED
          BY <3>1, <3>2, <5>1 DEF LastOf
      <4>4. QED
        BY <1>4, <1>8, <2>2, <3>1, <4>2, <4>3
    <3>3. QED
      BY <3>1, <3>2
  <2>3. QED
    BY <1>7, <2>1, <2>2
<1>12. RoutingIsInStep'
  BY <1>6, <1>9, <1>10, <1>11 DEF RoutingIsInStep, LastOf
<1>13. QED
  BY <1>6, <1>8, <1>12

\* So does every step.
LEMMA RoutingStep ==
    ASSUME PacketTypes, RoutingIsInStep, [PacketNext]_packetVars
    PROVE  RoutingIsInStep' /\ route' \in [Families -> Routes] /\ router' \in Routers
<1>1. CASE UNCHANGED <<route, router>>
  BY <1>1 DEF RoutingIsInStep, PacketTypes, LastOf
<1>2. CASE Begun
  <2>1. PICK families \in Seq(Families) :
           router' = [todo |-> families, asked |-> families, made |-> <<>>]
    BY <1>2 DEF Begun
  <2>2. router' \in Routers
    BY <2>1 DEF Routers
  <2>3. RoutingIsInStep'
    BY <2>1 DEF RoutingIsInStep
  <2>4. QED
    BY <1>2, <2>2, <2>3 DEF Begun, PacketTypes
<1>3. CASE Ended
  <2>1. router' = [todo |-> <<>>, asked |-> <<>>, made |-> <<>>] /\ route' = route
    BY <1>3 DEF Ended, Resting
  <2>2. router' \in Routers
    BY <2>1 DEF Routers
  <2>3. RoutingIsInStep'
    BY <2>1 DEF RoutingIsInStep
  <2>4. QED
    BY <2>1, <2>2, <2>3 DEF PacketTypes
<1>4. CASE Made
  BY <1>4, MadeKeepsStep
<1>5. QED
  BY <1>1, <1>2, <1>3, <1>4, RoutingSteps DEF PacketRest, packetVars


-----------------------------------------------------------------------------
(* What was seen of a family that was handed over.                            *)
LEMMA NewsAreCounted ==
    ASSUME NEW S \in SUBSET Times, NEW T \in SUBSET S
    PROVE  Cardinality(S) \in Nat /\ Cardinality(T) \in Nat /\ Cardinality(T) <= Cardinality(S)
<1>1. IsFiniteSet(S)
  BY EvidenceAssumption, FS_Subset
<1>2. QED
  BY <1>1, FS_Subset, FS_CardinalityType

\* What was seen of a family that is up for review.
Seen(f) ==
    \/ Kind[f] = "session" /\ sessions >= Minimum
    \/ /\ Kind[f] = "price" /\ Cardinality(NewsTimes(f)) >= Minimum
       /\ \E t \in NewsTimes(f) : news[f][t] = "mixed_or_unclear"

\* Only a family with evidence is sent to the semantic review.
LEMMA ReviewIsOfSeen ==
    ASSUME PacketTypes, NEW f \in Families, NextActionOwner(Readiness(f)) = "semantic_review"
    PROVE  Seen(f)
<1>1. Kind[f] \in {"earnings", "price", "news", "session", "macro"}
  BY EvidenceAssumption
<1>2. f \in NewsFamilies <=> Kind[f] \in {"price", "news"}
  BY DEF NewsFamilies, Of
<1>3. TotalObservations(f) >= Minimum
  <2>1. TotalObservations(f) \in Int
    <3>1. Kind[f] = "earnings" => TotalObservations(f) = Filings
      BY <1>2 DEF TotalObservations
    <3>2. f \in NewsFamilies => TotalObservations(f) = Cardinality(NewsTimes(f))
      BY <1>2 DEF TotalObservations
    <3>3. Kind[f] = "session" => TotalObservations(f) = sessions
      BY <1>2 DEF TotalObservations
    <3>4. Cardinality(NewsTimes(f)) \in Nat
      BY NewsAreCounted DEF NewsTimes
    <3>5. CASE Kind[f] = "macro"
      <4>1. TotalObservations(f) = Cardinality(MacroRows(f))
        BY <1>2, <3>5 DEF TotalObservations
      <4>2. ~MixedFamily(f)
        BY <1>2, <3>5 DEF MixedFamily
      <4>3. Readiness(f) \in {"missing_same_family", "missing_structured", "missing_gates"}
        BY <3>5, <4>2 DEF Readiness
      <4>4. NextActionOwner(Readiness(f)) # "semantic_review"
        BY <4>3 DEF NextActionOwner
      <4>5. QED
        BY <4>4
    <3>6. QED
      BY <1>1, <1>2, <3>1, <3>2, <3>3, <3>4, <3>5, EvidenceAssumption DEF PacketTypes
  <2>2. CASE TotalObservations(f) < Minimum
    <3>1. Readiness(f) = "missing_same_family"
      BY <2>1, <2>2, EvidenceAssumption DEF Readiness
    <3>2. NextActionOwner(Readiness(f)) = "acquisition"
      BY <3>1 DEF NextActionOwner
    <3>3. QED
      BY <3>2
  <2>3. QED
    BY <2>1, <2>2, EvidenceAssumption
<1>4. CASE MixedFamily(f)
  <2>1. PICK t \in NewsTimes(f) : news[f][t] = "mixed_or_unclear"
    BY <1>4 DEF MixedFamily, SampledSubtypes, Earliest
  <2>2. f \in NewsFamilies /\ t \in Times
    BY <1>4, <2>1 DEF MixedFamily, NewsTimes
  <2>3. "mixed_or_unclear" \in Subtypes(f)
    BY <2>1, <2>2 DEF PacketTypes, Absent
  <2>4. Kind[f] = "price"
    BY <2>3 DEF Subtypes
  <2>5. TotalObservations(f) = Cardinality(NewsTimes(f))
    BY <2>2, <2>4 DEF TotalObservations
  <2>6. QED
    BY <1>3, <2>1, <2>4, <2>5 DEF Seen
<1>5. CASE ~MixedFamily(f)
  <2>1. Kind[f] = "session"
    <3>1. SUFFICES ASSUME Kind[f] # "session" PROVE FALSE
      OBVIOUS
    <3>2. Readiness(f) \in {"missing_same_family", "missing_structured", "missing_gates"}
      BY <1>5, <3>1 DEF Readiness
    <3>3. NextActionOwner(Readiness(f)) # "semantic_review"
      BY <3>2 DEF NextActionOwner
    <3>4. QED
      BY <3>3
  <2>2. TotalObservations(f) = sessions
    BY <1>2, <2>1 DEF TotalObservations
  <2>3. QED
    BY <1>3, <2>1, <2>2 DEF Seen
<1>6. QED
  BY <1>4, <1>5

\* What was seen stays: rows only arrive.
LEMMA SeenStays ==
    ASSUME PacketTypes, NEW f \in Families, Seen(f),
           Sources \/ UNCHANGED <<news, sessions>>
    PROVE  Seen(f)'
<1>1. CASE UNCHANGED <<news, sessions>>
  BY <1>1 DEF Seen, NewsTimes
<1>2. CASE Publish
  <2>1. sessions >= Minimum => sessions' >= Minimum
    BY <1>2, EvidenceAssumption DEF Publish, PacketTypes
  <2>2. news' = news
    BY <1>2 DEF Publish
  <2>3. QED
    BY <2>1, <2>2 DEF Seen, NewsTimes
<1>3. ASSUME NEW g \in NewsFamilies, NEW t \in Times, NEW subtype \in Subtypes(g),
             NewsArrives(g, t, subtype)
      PROVE  Seen(f)'
  <2>1. CASE Kind[f] = "session" /\ sessions >= Minimum
    BY <1>3, <2>1 DEF NewsArrives, Seen
  <2>2. CASE Kind[f] = "price"
    <3>1. f \in NewsFamilies
      BY <2>2 DEF NewsFamilies, Of
    <3>2. news' = [news EXCEPT ![g] = [news[g] EXCEPT ![t] = subtype]] /\ news[g][t] = Absent
      BY <1>3 DEF NewsArrives
    <3>3. \A s \in Times : news[f][s] # Absent => news'[f][s] = news[f][s]
      BY <3>1, <3>2 DEF PacketTypes
    <3>4. NewsTimes(f) \subseteq NewsTimes(f)'
      BY <3>3 DEF NewsTimes
    <3>5. NewsTimes(f)' \in SUBSET Times
      BY DEF NewsTimes
    <3>6. CASE /\ Cardinality(NewsTimes(f)) >= Minimum
               /\ \E s \in NewsTimes(f) : news[f][s] = "mixed_or_unclear"
      <4>1. Cardinality(NewsTimes(f)') >= Minimum
        BY <3>4, <3>5, <3>6, NewsAreCounted, EvidenceAssumption
      <4>2. PICK s \in NewsTimes(f) : news[f][s] = "mixed_or_unclear"
        BY <3>6
      <4>3. s \in NewsTimes(f)' /\ news'[f][s] = "mixed_or_unclear"
        BY <3>3, <3>4, <4>2 DEF NewsTimes
      <4>4. QED
        BY <2>2, <4>1, <4>3 DEF Seen, NewsTimes
    <3>7. QED
      BY <2>2, <3>6 DEF Seen
  <2>3. QED
    BY <2>1, <2>2 DEF Seen
<1>4. ASSUME NEW g, NEW release, NEW time, NEW fields, Crawl(g, release, time, fields) \/ Enrich(g)
      PROVE  UNCHANGED <<news, sessions>>
  BY <1>4 DEF Crawl, Enrich
<1>5. QED
  BY <1>1, <1>2, <1>3, <1>4 DEF Sources

-----------------------------------------------------------------------------
(* The theorems about EventEvidence.                                          *)
LEMMA SourceTypes ==
    ASSUME PacketTypes, CalendarIsCrawled, Sources
    PROVE  /\ news' \in [NewsFamilies -> [Times -> {"directed", "mixed_or_unclear", "plain", Absent}]]
           /\ \A f \in NewsFamilies, t \in Times : news'[f][t] \in Subtypes(f) \cup {Absent}
           /\ sessions' \in {0, SessionRows} /\ crawls' \in Seq(CrawledRows)
           /\ CalendarIsCrawled'
<1>1. CASE Publish
  BY <1>1 DEF Publish, PacketTypes, CalendarIsCrawled, EventId
<1>2. ASSUME NEW g \in NewsFamilies, NEW s \in Times, NEW subtype \in Subtypes(g),
             NewsArrives(g, s, subtype)
      PROVE  /\ news' \in [NewsFamilies -> [Times -> {"directed", "mixed_or_unclear", "plain", Absent}]]
             /\ \A f \in NewsFamilies, t \in Times : news'[f][t] \in Subtypes(f) \cup {Absent}
             /\ UNCHANGED <<sessions, crawls, calendar>>
  <2>1. subtype \in {"directed", "mixed_or_unclear", "plain", Absent}
    BY DEF Subtypes
  <2>2. /\ news' = [news EXCEPT ![g] = [news[g] EXCEPT ![s] = subtype]]
        /\ UNCHANGED <<sessions, crawls, calendar>>
    BY <1>2 DEF NewsArrives
  <2>3. QED
    BY <2>1, <2>2 DEF PacketTypes
<1>3. ASSUME NEW f \in Of("macro"), NEW release \in Releases, NEW time \in Times, NEW fields \in Shapes,
             Crawl(f, release, time, fields)
      PROVE  /\ crawls' \in Seq(CrawledRows) /\ UNCHANGED <<news, sessions>>
             /\ CalendarIsCrawled'
  <2>1. Len(crawls) + 1 \in Nat /\ crawls \in Seq(CrawledRows)
    BY DEF PacketTypes
  <2>2. PICK row \in CrawledRows : crawls' = Append(crawls, row)
    BY <1>3, <2>1 DEF Crawl, CrawledRows
  <2>3. /\ crawls' \in Seq(CrawledRows)
        /\ \A i \in DOMAIN crawls : i \in DOMAIN crawls' /\ crawls'[i] = crawls[i]
    BY <2>1, <2>2
  <2>4. UNCHANGED <<news, sessions, calendar>>
    BY <1>3 DEF Crawl
  <2>5. QED
    BY <2>3, <2>4 DEF CalendarIsCrawled, EventId
<1>4. ASSUME NEW f, Enrich(f) PROVE UNCHANGED <<news, sessions, crawls>> /\ CalendarIsCrawled'
  BY <1>4, EnrichedCalendar DEF Enrich
<1>5. CASE \E f \in NewsFamilies, t \in Times : \E subtype \in Subtypes(f) : NewsArrives(f, t, subtype)
  <2>1. /\ news' \in [NewsFamilies -> [Times -> {"directed", "mixed_or_unclear", "plain", Absent}]]
        /\ \A f \in NewsFamilies, t \in Times : news'[f][t] \in Subtypes(f) \cup {Absent}
        /\ UNCHANGED <<sessions, crawls, calendar>>
    BY <1>2, <1>5
  <2>2. QED
    BY <2>1 DEF PacketTypes, CalendarIsCrawled, EventId
<1>6. CASE \E f \in Of("macro"), release \in Releases, time \in Times, fields \in Shapes :
              Crawl(f, release, time, fields)
  BY <1>3, <1>6 DEF PacketTypes
<1>7. CASE \E f \in Of("macro") : Enrich(f)
  BY <1>4, <1>7 DEF PacketTypes
<1>8. QED
  BY <1>1, <1>5, <1>6, <1>7 DEF Sources

\* The invariant holds at the start,
LEMMA PacketInitInvariant == PacketInit => PacketInv
<1> SUFFICES ASSUME PacketInit PROVE PacketInv
  OBVIOUS
<1>1. PacketTypes
  BY DEF PacketInit, PacketTypes, NoRoute, Routes, Resting, Routers
<1>2. CalendarIsCrawled /\ HandoffWasSeen /\ RoutingIsInStep
  BY DEF PacketInit, CalendarIsCrawled, HandoffWasSeen, RoutingIsInStep, Resting
<1>3. QED
  BY <1>1, <1>2 DEF PacketInv

\* and is inductive.
LEMMA PacketStepInvariant == PacketInv /\ [PacketNext]_packetVars => PacketInv'
<1> SUFFICES ASSUME PacketInv, [PacketNext]_packetVars PROVE PacketInv'
  OBVIOUS
<1>1. PacketTypes /\ CalendarIsCrawled /\ HandoffWasSeen /\ RoutingIsInStep
  BY DEF PacketInv
<1>2. \/ Sources /\ UNCHANGED PacketRest
      \/ (Begun \/ Made \/ Ended \/ UNCHANGED packetVars) /\ UNCHANGED evidence
  BY <1>1, RoutingSteps DEF Begun, Made, Ended, packetVars, evidence
<1>3. RoutingIsInStep' /\ route' \in [Families -> Routes] /\ router' \in Routers
  BY <1>1, RoutingStep
<1>4. handoff' = handoff \/ \E f \in Families :
         handoff' = handoff \cup {f} /\ NextActionOwner(Readiness(f)) = "semantic_review"
  <2>1. Made => Head(router.todo) \in Families
    BY <1>1 DEF Made, PacketTypes, Routers
  <2>2. QED
    BY <1>2, <2>1 DEF Begun, Made, Ended, packetVars, PacketRest
<1>5. PacketTypes' /\ CalendarIsCrawled'
  <2>1. CASE Sources
    BY <1>1, <1>3, <1>4, <2>1, SourceTypes DEF PacketTypes
  <2>2. CASE UNCHANGED evidence
    BY <1>1, <1>3, <1>4, <2>2 DEF PacketTypes, CalendarIsCrawled, EventId, evidence
  <2>3. QED
    BY <1>2, <2>1, <2>2
<1>6. HandoffWasSeen'
  <2>1. \A f \in handoff' : f \in Families /\ Seen(f)
    BY <1>1, <1>4, ReviewIsOfSeen DEF HandoffWasSeen, Seen, PacketTypes
  <2>2. \A f \in handoff' : Seen(f)'
    BY <1>1, <1>2, <2>1, SeenStays DEF evidence
  <2>3. QED
    BY <2>2 DEF HandoffWasSeen, Seen, NewsTimes
<1>7. QED
  BY <1>3, <1>5, <1>6 DEF PacketInv

\* The inductive invariant of the evidence, its enrichment and its routing.
THEOREM PacketInvariant == PacketSpec => []PacketInv
BY PacketInitInvariant, PacketStepInvariant, PTL DEF PacketSpec

\* A handoff on disk is up for review, unless the unclear rows of the price family were
\* pushed out of the sample: for any families, times and limits.
THEOREM HandoffsHaveCause == PacketSpec => []HandoffHasCause
<1>1. PacketInv => HandoffHasCause
  <2> SUFFICES ASSUME PacketInv, NEW f \in handoff
               PROVE  \/ NextActionOwner(Readiness(f)) = "semantic_review"
                      \/ /\ Kind[f] = "price"
                         /\ \E t \in NewsTimes(f) :
                               /\ news[f][t] = "mixed_or_unclear"
                               /\ Cardinality({s \in NewsTimes(f) : s < t}) >= SampleLimit
    BY DEF HandoffHasCause
  <2>1. PacketTypes /\ f \in Families /\ Seen(f)
    BY DEF PacketInv, PacketTypes, HandoffWasSeen, Seen
  <2>2. CASE Kind[f] = "session" /\ sessions >= Minimum
    <3>1. f \notin NewsFamilies
      BY <2>2 DEF NewsFamilies, Of
    <3>2. TotalObservations(f) = sessions /\ ~MixedFamily(f) /\ Structured(f)
      BY <2>2, <3>1 DEF TotalObservations, MixedFamily, Structured
    <3>3. ~(sessions < Minimum)
      BY <2>1, <2>2, EvidenceAssumption DEF PacketTypes
    <3>4. Readiness(f) = "context_review"
      BY <2>2, <3>2, <3>3 DEF Readiness
    <3>5. QED
      BY <3>4 DEF NextActionOwner
  <2>3. CASE /\ Kind[f] = "price" /\ Cardinality(NewsTimes(f)) >= Minimum
             /\ \E t \in NewsTimes(f) : news[f][t] = "mixed_or_unclear"
    <3>1. PICK t \in NewsTimes(f) : news[f][t] = "mixed_or_unclear"
      BY <2>3
    <3>2. f \in NewsFamilies
      BY <2>1, <2>3 DEF NewsFamilies, Of
    <3>3. TotalObservations(f) = Cardinality(NewsTimes(f))
      BY <2>3, <3>2 DEF TotalObservations
    <3>4. NewsTimes(f) \in SUBSET Times /\ {s \in NewsTimes(f) : s < t} \in SUBSET Times
      BY DEF NewsTimes
    <3>5. /\ Cardinality(NewsTimes(f)) \in Nat
          /\ Cardinality({s \in NewsTimes(f) : s < t}) \in Nat
      BY <3>4, NewsAreCounted
    <3>6. CASE Cardinality({s \in NewsTimes(f) : s < t}) < SampleLimit
      <4>1. t \in Earliest(NewsTimes(f))
        BY <3>6 DEF Earliest
      <4>2. MixedFamily(f)
        BY <3>1, <3>2, <4>1 DEF MixedFamily, SampledSubtypes
      <4>3. ~(TotalObservations(f) < Minimum)
        BY <2>3, <3>3, <3>5, EvidenceAssumption
      <4>4. TotalObservations(f) >= Minimum
        BY <2>3, <3>3
      <4>5. Readiness(f) = "mixed_family"
        BY <4>2, <4>3, <4>4 DEF Readiness
      <4>6. QED
        BY <4>5 DEF NextActionOwner
    <3>7. CASE Cardinality({s \in NewsTimes(f) : s < t}) >= SampleLimit
      BY <2>3, <3>1, <3>7
    <3>8. QED
      BY <3>5, <3>6, <3>7, EvidenceAssumption
  <2>4. QED
    BY <2>1, <2>2, <2>3 DEF Seen
<1>2. QED
  BY <1>1, PacketInvariant, PTL

\* A summary speaks of every family it was asked for, however often evidence and routes
\* changed meanwhile: for lists of any length.
THEOREM SummariesAreComplete == PacketSpec => SummaryIsComplete
<1>1. PacketInv /\ [PacketNext]_packetVars =>
         [summary' # summary =>
             /\ Len(summary') = Len(router.asked)
             /\ \A i \in DOMAIN summary' :
                    /\ summary'[i][1] = router.asked[i]
                    /\ LastOf(summary', i) => route[router.asked[i]] = summary'[i][2]]_packetVars
  <2> SUFFICES ASSUME PacketInv, [PacketNext]_packetVars, summary' # summary
               PROVE  /\ Len(summary') = Len(router.asked)
                      /\ \A i \in DOMAIN summary' :
                             /\ summary'[i][1] = router.asked[i]
                             /\ LastOf(summary', i) => route[router.asked[i]] = summary'[i][2]
    OBVIOUS
  <2>1. PacketTypes /\ RoutingIsInStep
    BY DEF PacketInv
  <2>2. Ended
    BY <2>1, RoutingSteps DEF Begun, Made, packetVars, PacketRest
  <2>3. router.todo = <<>> /\ summary' = router.made
    BY <2>2 DEF Ended
  <2>4. Len(router.made) = Len(router.asked)
    BY <2>1, <2>3 DEF RoutingIsInStep, PacketTypes, Routers
  <2>5. QED
    BY <2>1, <2>3, <2>4 DEF RoutingIsInStep
<1>2. QED
  BY <1>1, PacketInvariant, PTL DEF PacketSpec, SummaryIsComplete

\* A release keeps the surprise once it is found, or has it replaced by a row with more
\* fields, and is counted once for each clock it was crawled with.
THEOREM ReleasesAreKept == PacketSpec => ReleaseIsKept
<1>1. PacketInv => CountedOnce
  BY CountedByClock DEF PacketInv
<1>2. PacketInv /\ [PacketNext]_packetVars =>
         [\A r \in calendar : \E s \in calendar' :
             /\ EventId(s) = EventId(r)
             /\ \/ HasSurprise(r) => HasSurprise(s)
                \/ Cardinality(s.fields) > Cardinality(r.fields)]_packetVars
  <2> SUFFICES ASSUME PacketInv, [PacketNext]_packetVars, NEW r \in calendar
               PROVE  \E s \in calendar' :
                         /\ EventId(s) = EventId(r)
                         /\ \/ HasSurprise(r) => HasSurprise(s)
                            \/ Cardinality(s.fields) > Cardinality(r.fields)
    OBVIOUS
  <2>1. PacketTypes /\ CalendarIsCrawled
    BY DEF PacketInv
  <2>2. (\E f : Enrich(f)) \/ UNCHANGED calendar
    BY <2>1, RoutingSteps
       DEF Begun, Made, Ended, packetVars, evidence, Sources, Publish, NewsArrives, Crawl
  <2>3. QED
    BY <2>1, <2>2, SurpriseStays
<1>3. QED
  BY <1>1, <1>2, PacketInvariant, PTL DEF PacketSpec, ReleaseIsKept, SurpriseIsNotLost
=============================================================================
