-------------------------- MODULE AgentErrorProofs --------------------------
(* AgentErrors for any requests, handlers, windows and limits: a number       *)
(* stands for one error, a pending diagnosis has a caller, repairs are acted  *)
(* on once and closed for a cause, and only what is forgotten waits.          *)
(* At the end TransitionLedger, for any number of months and length of the    *)
(* log: what the status command shows is explained by the workflow.           *)
EXTENDS AgentErrors, TransitionLedger, TLAPS, FiniteSetTheorems, SequenceTheorems, WellFoundedInduction

CatalogRow == [request : Request, number : Nat, dup : BOOLEAN, at : 1..MaxTime]
Labels == {"idle", "registered", "filed", "agent", "notify", "retry"}
Said == Outcome \union {"none", "pending"}
Job == [request : Request, number : Nat, dup : BOOLEAN, got : Said]
Alert == [number : Nat, request : Request, at : 1..MaxTime]

\* What the catalog has of a number under a request.
Listed(r, number, dup) ==
    \E i \in DOMAIN catalog : /\ catalog[i].request = r
                              /\ catalog[i].number = number
                              /\ catalog[i].dup = dup

\* The numbers do not outgrow the catalog.
Bounded == \A i \in DOMAIN catalog : catalog[i].number <= Len(catalog)

\* What a handler has in hand is in the catalog, and its verdict is one of the agent's.
InHand ==
    \A h \in Handler : pc[h] # "idle" =>
        /\ Listed(job[h].request, job[h].number, job[h].dup)
        /\ pc[h] = "notify" => job[h].got \in Outcome

\* What has been raised: all that is in hand, filed, diagnosed or in the controller's line.
Met(r) == Len(raised[r]) > 0
MetInHand == \A h \in Handler : pc[h] # "idle" => Met(job[h].request)
MetAlerts == \A i \in DOMAIN alerts : Met(alerts[i].request)
MetFiles == \A i \in DOMAIN files : Met(files[i])
MetDiagnosed == \A r \in Request : diagnosis[r] # "none" => Met(r)
MetInLine == \A x \in closer.todo : Met(x.request)
Called == closer.at = "agent" => Met(closer.request)
AllMet == MetInHand /\ MetAlerts /\ MetFiles /\ MetDiagnosed /\ MetInLine /\ Called

\* An alert, sent or to be sent, takes a call of its own.
Alerting(h) == pc[h] \in {"registered", "filed", "agent", "notify"}
Again(r) == Len(raised[r]) > 1
Repeated ==
    \A i, j \in DOMAIN alerts :
        i < j /\ alerts[i].request = alerts[j].request => Again(alerts[i].request)
Repeating ==
    \A i \in DOMAIN alerts, h \in Handler :
        Alerting(h) /\ alerts[i].request = job[h].request => Again(job[h].request)
Together ==
    \A g, h \in Handler :
        Alerting(g) /\ Alerting(h) /\ g # h /\ job[g].request = job[h].request
            => Again(job[h].request)
Counted == Repeated /\ Repeating /\ Together

\* An alert gives the number under which its request opened a row.
Alerted ==
    \A i \in DOMAIN alerts : Listed(alerts[i].request, alerts[i].number, FALSE)

\* ActedOnce is not inductive: it needs that the controller does not have a closed request,
\* or one request twice, in its line, and what a request that was acted on has to show.
LineIsOpen ==
    closer.at \in {"close", "acted"} =>
        \A x \in closer.todo :
           /\ receipt[x.request] # "closed"
           /\ \A y \in closer.todo : x.request = y.request => x = y
ActedInHand ==
    closer.at = "acted" =>
        /\ acted[closer.request] > 0
        /\ \A x \in closer.todo : x.request # closer.request
Shows(r) ==
    acted[r] > 0 =>
        r \in died \/ receipt[r] # "none" \/ (closer.at = "acted" /\ closer.request = r)
Closing == LineIsOpen /\ ActedInHand /\ \A r \in Request : Shows(r)

IInv ==
    /\ TypeOK /\ NumberIsOneError /\ Bounded /\ InHand /\ AllMet /\ Counted /\ Alerted
    /\ PendingHasACaller /\ Closing /\ ActedOnce

-----------------------------------------------------------------------------
\* The constants.
LEMMA Constants ==
    /\ MaxTime \in Nat /\ MaxRaises \in Nat /\ MaxUpsets \in Nat /\ Window \in Nat
    /\ 1 \in 1..MaxTime /\ Daemon \in Handler /\ Limit \in Nat
    /\ Order \in Seq(Request) /\ Order[1] \in Request
    /\ DOMAIN Order = 1..Len(Order) /\ Len(Order) \in Nat
    /\ \A i, j \in DOMAIN Order : Order[i] = Order[j] => i = j
    /\ \A r \in Request : Fingerprint[r] \in Fingerprints
<1>1. /\ MaxTime \in Nat /\ MaxRaises \in Nat /\ MaxUpsets \in Nat /\ Window \in Nat
      /\ MaxTime > 0 /\ Daemon \in Handler /\ Limit \in Nat
      /\ Order \in Seq(Request) /\ Order # <<>>
  BY ErrorAssumption
<1>2. \A i, j \in DOMAIN Order : Order[i] = Order[j] => i = j
  BY ErrorAssumption DEF IsInjective
<1>3. DOMAIN Order = 1..Len(Order) /\ Len(Order) \in Nat /\ Order[1] \in Request
  BY <1>1
<1>4. QED
  BY <1>1, <1>2, <1>3 DEF Fingerprints

\* The least element of a set of numbers is one of them.
LEMMA Least ==
    ASSUME NEW S \in SUBSET Nat, S # {}
    PROVE  Min(S) \in S /\ \A x \in S : Min(S) <= x
<1> DEFINE R == {ss \in Nat \X Nat : ss[1] < ss[2]}
<1>1. IsWellFoundedOn(R, Nat)
  BY NatLessThanWellFounded DEF OpToRel
<1> HIDE DEF R
<1>2. PICK m \in S : \A x \in S : ~(<<x, m>> \in R)
  BY <1>1, WFMin
<1>3. \A x, y \in Nat : x < y => <<x, y>> \in R
  BY DEF R
<1>4. ASSUME NEW x \in S PROVE m <= x
  <2>1. x \in Nat /\ m \in Nat
    OBVIOUS
  <2>2. CASE x < m
    <3>1. <<x, m>> \in R
      BY <1>3, <2>1, <2>2
    <3>2. QED
      BY <1>2, <3>1
  <2>3. QED
    BY <2>1, <2>2
<1>5. QED
  BY <1>4 DEF Min

\* The greatest element of a bounded set of numbers is one of them.
LEMMA Greatest ==
    ASSUME NEW n \in Nat, NEW S \in SUBSET (0..n), S # {}
    PROVE  Max(S) \in S /\ \A x \in S : x <= Max(S)
<1> DEFINE below == {n - x : x \in S}
<1>1. below \in SUBSET Nat /\ below # {}
  <2>1. \A x \in S : n - x \in Nat
    OBVIOUS
  <2>2. QED
    BY <2>1
<1>2. Min(below) \in below /\ \A y \in below : Min(below) <= y
  BY <1>1, Least
<1>3. PICK m \in S : Min(below) = n - m
  BY <1>2
<1>4. \A x \in S : n - x \in below /\ n - m <= n - x
  BY <1>2, <1>3
<1>5. \A x \in S : m >= x
  BY <1>4
<1>6. QED
  BY <1>5 DEF Max

\* What a new member makes of a sequence.
LEMMA Appended ==
    ASSUME NEW S, NEW s \in Seq(S), NEW e \in S
    PROVE  /\ Append(s, e) \in Seq(S) /\ Len(Append(s, e)) = Len(s) + 1
           /\ DOMAIN Append(s, e) = 1..(Len(s) + 1) /\ DOMAIN s = 1..Len(s) /\ Len(s) \in Nat
           /\ \A i \in DOMAIN s : Append(s, e)[i] = s[i]
           /\ Append(s, e)[Len(s) + 1] = e
           /\ \A i \in DOMAIN Append(s, e) :
                 \/ i = Len(s) + 1 /\ Append(s, e)[i] = e
                 \/ i \in DOMAIN s /\ Append(s, e)[i] = s[i]
<1>1. /\ Append(s, e) \in Seq(S) /\ Len(Append(s, e)) = Len(s) + 1
      /\ DOMAIN Append(s, e) = 1..(Len(s) + 1) /\ DOMAIN s = 1..Len(s) /\ Len(s) \in Nat
      /\ \A i \in DOMAIN s : Append(s, e)[i] = s[i]
      /\ Append(s, e)[Len(s) + 1] = e
  OBVIOUS
<1>2. \A i \in 1..(Len(s) + 1) : i = Len(s) + 1 \/ i \in 1..Len(s)
  BY <1>1
<1>3. QED
  BY <1>1, <1>2

\* What is left of the files when one is written anew.
LEMMA Rest ==
    ASSUME NEW s \in Seq(Request), NEW r \in Request
    PROVE  /\ Without(s, r) \in Seq(Request)
           /\ \A i \in DOMAIN Without(s, r) : \E j \in DOMAIN s : Without(s, r)[i] = s[j]
<1>1. CASE r \notin ToSet(s)
  BY <1>1 DEF Without
<1>2. CASE r \in ToSet(s)
  <2>1. PICK n \in DOMAIN s : Without(s, r) = RemoveAt(s, n)
    BY <1>2 DEF Without, ToSet
  <2> DEFINE front == SubSeq(s, 1, n - 1)
             back == SubSeq(s, n + 1, Len(s))
  <2>2. n \in 1..Len(s) /\ Len(s) \in Nat /\ DOMAIN s = 1..Len(s)
    OBVIOUS
  <2>3. /\ front \in Seq(Request) /\ Len(front) = n - 1
        /\ \A i \in 1..(n - 1) : front[i] = s[i]
    BY <2>2
  <2>4. /\ back \in Seq(Request) /\ Len(back) = Len(s) - n
        /\ \A i \in 1..(Len(s) - n) : back[i] = s[n + i]
    BY <2>2
  <2> HIDE DEF front, back
  <2> DEFINE both == front \o back
  <2>5. /\ both \in Seq(Request) /\ Len(both) = Len(s) - 1 /\ DOMAIN both = 1..(Len(s) - 1)
        /\ \A i \in 1..(Len(s) - 1) :
              both[i] = IF i <= n - 1 THEN front[i] ELSE back[i - (n - 1)]
    <3>1. /\ both \in Seq(Request) /\ Len(both) = Len(front) + Len(back)
          /\ \A i \in 1..(Len(front) + Len(back)) :
                both[i] = IF i <= Len(front) THEN front[i] ELSE back[i - Len(front)]
      BY <2>3, <2>4, ConcatProperties, Zenon
    <3>2. Len(front) + Len(back) = Len(s) - 1 /\ Len(front) = n - 1
      BY <2>2, <2>3, <2>4
    <3> HIDE DEF both
    <3>3. DOMAIN both = 1..(Len(s) - 1)
      BY <3>1, <3>2
    <3>4. QED
      BY <3>1, <3>2, <3>3
  <2> HIDE DEF both
  <2>6. ASSUME NEW i \in 1..(Len(s) - 1) PROVE \E j \in DOMAIN s : both[i] = s[j]
    <3>1. CASE i <= n - 1
      <4>1. i \in 1..(n - 1) /\ i \in DOMAIN s
        BY <2>2, <3>1
      <4>2. QED
        BY <2>3, <2>5, <3>1, <4>1
    <3>2. CASE i > n - 1
      <4>1. i - (n - 1) \in 1..(Len(s) - n) /\ i + 1 \in DOMAIN s
        BY <2>2, <3>2
      <4>2. both[i] = back[i - (n - 1)] /\ back[i - (n - 1)] = s[n + (i - (n - 1))]
        BY <2>2, <2>4, <2>5, <3>2, <4>1
      <4>3. n + (i - (n - 1)) = i + 1
        BY <2>2
      <4>4. QED
        BY <4>1, <4>2, <4>3
    <3>3. i <= n - 1 \/ i > n - 1
      BY <2>2
    <3>4. QED
      BY <3>1, <3>2, <3>3
  <2>7. QED
    BY <2>1, <2>5, <2>6 DEF RemoveAt, front, back, both
<1>3. QED
  BY <1>1, <1>2

\* The row an error gets: its old one, the number of a recent row of the same error, or a
\* number greater than all there are.
LEMMA RowStep ==
    ASSUME TypeOK, Bounded, NEW r \in Request
    PROVE  /\ Registered(r) => \E i \in DOMAIN catalog : /\ RowFor(r) = catalog[i]
                                                         /\ catalog[i].request = r
           /\ ~Registered(r) =>
                 /\ RowFor(r) \in CatalogRow /\ RowFor(r).request = r /\ RowFor(r).at = now
                 /\ RowFor(r).number <= Len(catalog) + 1
                 /\ RowFor(r).dup => \E k \in DOMAIN catalog :
                       /\ Fingerprint[catalog[k].request] = Fingerprint[r]
                       /\ catalog[k].number = RowFor(r).number
                       /\ now - catalog[k].at <= Window
                 /\ ~RowFor(r).dup => \A k \in DOMAIN catalog : catalog[k].number < RowFor(r).number
<1>1. /\ catalog \in Seq(CatalogRow) /\ now \in 1..MaxTime /\ Len(catalog) \in Nat
      /\ DOMAIN catalog = 1..Len(catalog)
  BY DEF TypeOK, CatalogRow
<1>2. \A i \in DOMAIN catalog : /\ catalog[i] \in CatalogRow /\ catalog[i].number \in Nat
                                /\ catalog[i].number <= Len(catalog)
  <2>1. \A i \in DOMAIN catalog : catalog[i] \in CatalogRow
    BY <1>1
  <2>2. QED
    BY <2>1 DEF Bounded, CatalogRow
<1>3. CASE Registered(r)
  <2>1. RowsOf(r) \in SUBSET Nat /\ RowsOf(r) # {}
    BY <1>1, <1>3 DEF RowsOf, Registered
  <2>2. Min(RowsOf(r)) \in RowsOf(r)
    BY <2>1, Least
  <2>3. QED
    BY <1>3, <2>2 DEF RowsOf, RowFor
<1>4. CASE ~Registered(r) /\ Recent(r) # {}
  <2>1. Recent(r) \in SUBSET (0..Len(catalog))
    BY <1>1 DEF Recent
  <2>2. Max(Recent(r)) \in Recent(r)
    BY <1>1, <1>4, <2>1, Greatest
  <2>3. PICK k \in Recent(r) : RowFor(r) = [request |-> r, number |-> catalog[k].number,
                                            dup |-> TRUE, at |-> now]
    BY <1>4, <2>2 DEF RowFor, NewRow
  <2>4. /\ k \in DOMAIN catalog /\ catalog[k].number \in Nat /\ catalog[k].number <= Len(catalog)
        /\ Fingerprint[catalog[k].request] = Fingerprint[r] /\ now - catalog[k].at <= Window
    BY <1>2, <2>3 DEF Recent
  <2>5. /\ RowFor(r) \in CatalogRow /\ RowFor(r).request = r /\ RowFor(r).at = now
        /\ RowFor(r).number = catalog[k].number /\ RowFor(r).dup
    BY <1>1, <2>3, <2>4 DEF CatalogRow
  <2>6. RowFor(r).number <= Len(catalog) + 1
    BY <1>1, <2>4, <2>5
  <2>7. QED
    BY <1>4, <2>4, <2>5, <2>6
<1>5. CASE ~Registered(r) /\ Recent(r) = {}
  <2> DEFINE S == Numbers \union {0}
  <2>1. S \in SUBSET (0..Len(catalog)) /\ S # {}
    <3>1. \A i \in DOMAIN catalog : catalog[i].number \in 0..Len(catalog)
      BY <1>1, <1>2
    <3>2. QED
      BY <1>1, <3>1 DEF Numbers
  <2>2. Max(S) \in S /\ \A x \in S : x <= Max(S)
    BY <1>1, <2>1, Greatest
  <2>3. Max(S) \in 0..Len(catalog) /\ \A k \in DOMAIN catalog : catalog[k].number <= Max(S)
    BY <2>1, <2>2 DEF Numbers
  <2>4. RowFor(r) = [request |-> r, number |-> Max(S) + 1, dup |-> FALSE, at |-> now]
    BY <1>5 DEF RowFor, NewRow
  <2> HIDE DEF S
  <2>5. \A k \in DOMAIN catalog : catalog[k].number \in Nat
    BY <1>2
  <2>6. Max(S) + 1 \in Nat /\ Max(S) + 1 <= Len(catalog) + 1
    BY <1>1, <2>3
  <2>7. /\ RowFor(r) \in CatalogRow /\ RowFor(r).request = r /\ RowFor(r).at = now
        /\ RowFor(r).number = Max(S) + 1 /\ ~RowFor(r).dup
    BY <1>1, <2>4, <2>6 DEF CatalogRow
  <2>8. \A k \in DOMAIN catalog : catalog[k].number < Max(S) + 1
    BY <1>1, <2>3, <2>5
  <2>9. QED
    BY <1>5, <2>6, <2>7, <2>8
<1>6. QED
  BY <1>3, <1>4, <1>5

Budgets == [raises : 0..MaxRaises, upsets : 0..MaxUpsets]
Closures == {"none", "closed", "blocked"}
Entry == [request : Request, place : Nat]
Closers == [at : {"recover", "agent", "close", "acted"}, todo : SUBSET Entry, request : Request]

\* TypeOK by the names of its sets.
Types ==
       /\ site \in [Fingerprints -> Sites] /\ now \in 1..MaxTime
       /\ catalog \in Seq(CatalogRow) /\ files \in Seq(Request) /\ old \subseteq Request
       /\ diagnosis \in [Request -> Said] /\ receipt \in [Request -> Closures]
       /\ pc \in [Handler -> Labels] /\ job \in [Handler -> Job] /\ closer \in Closers
       /\ raised \in [Request -> Seq(1..MaxTime)] /\ good \in [Fingerprints -> 0..MaxTime]
       /\ acted \in [Request -> Nat] /\ alerts \in Seq(Alert) /\ died \subseteq Request
       /\ budget \in Budgets

\* TypeOK in the shape the proofs use.
LEMMA TypeFacts == TypeOK <=> Types
BY DEF TypeOK, Types, CatalogRow, Said, Labels, Job, Closers, Entry, Alert, Budgets, Closures

\* What is spent of the bounds.
LEMMA Spent ==
    ASSUME budget \in Budgets
    PROVE  /\ budget.raises > 0 => [budget EXCEPT !.raises = budget.raises - 1] \in Budgets
           /\ budget.upsets > 0 => [budget EXCEPT !.upsets = budget.upsets - 1] \in Budgets
BY Constants DEF Budgets

\* A handler that leaves, or writes a diagnosis, keeps the types of what it has.
LEMMA LeaveStep ==
    ASSUME Types, NEW h \in Handler, Leave(h)
    PROVE  pc' \in [Handler -> Labels] /\ job' \in [Handler -> Job]
<1>1. NoJob \in Job
  BY Constants DEF NoJob, Job, Said
<1>2. QED
  BY <1>1 DEF Leave, Labels, Types

\* Storing what a handler was told keeps the types.
LEMMA PutStep ==
    ASSUME Types, NEW h \in Handler, NEW d \in Said, NEW next \in Labels, Put(h, d, next)
    PROVE  Types'
<1>1. job[h] \in Job /\ job[h].request \in Request
  BY DEF Types, Job
<1>2. pc' \in [Handler -> Labels] /\ diagnosis' \in [Request -> Said]
  BY <1>1 DEF Put, Types
<1>3. job' \in [Handler -> Job]
  <2>1. job' = [job EXCEPT ![h] = [job[h] EXCEPT !.got = d]]
    BY DEF Put
  <2>2. [job[h] EXCEPT !.got = d] \in Job
    BY <1>1 DEF Job
  <2>3. QED
    BY <1>1, <2>1, <2>2 DEF Types
<1>4. UNCHANGED <<site, now, raised, good, catalog, files, old, receipt, closer, acted, alerts,
                  died, budget>>
  BY DEF Put, world
<1>5. QED
  BY <1>2, <1>3, <1>4 DEF Types

\* What the controller takes up are requests, those of the directories one by one.
LEMMA CandidatesStep ==
    ASSUME Types
    PROVE  /\ AgentCandidates \subseteq Entry /\ ClosureCandidates \subseteq Entry
           /\ \A x \in AgentCandidates : \E i \in DOMAIN files : x.request = files[i]
           /\ \A x \in ClosureCandidates :
                 /\ NeedsClosure(x.request)
                 /\ \A y \in ClosureCandidates : x.request = y.request => x = y
<1>1. files \in Seq(Request) /\ DOMAIN files = 1..Len(files) /\ Len(files) \in Nat
  BY DEF Types
<1>2. ASSUME NEW i \in DOMAIN files PROVE InLine(files[i], Len(files) - i) \in Entry
  BY <1>1 DEF InLine, Entry
<1>3. ASSUME NEW x \in AgentCandidates
      PROVE  x \in Entry /\ \E i \in DOMAIN files : x.request = files[i]
  <2>1. PICK i \in DOMAIN files : x = InLine(files[i], Len(files) - i)
    BY DEF AgentCandidates, FirstOf
  <2>2. QED
    BY <1>2, <2>1 DEF InLine
<1>4. ASSUME NEW x \in ClosureCandidates
      PROVE  \E i \in DOMAIN Order : x = InLine(Order[i], i) /\ NeedsClosure(Order[i])
  BY DEF ClosureCandidates, FirstOf
<1>5. ASSUME NEW i \in DOMAIN Order PROVE InLine(Order[i], i) \in Entry
  BY Constants DEF InLine, Entry
<1>6. \A i, j \in DOMAIN Order :
          InLine(Order[i], i).request = InLine(Order[j], j).request => i = j
  BY Constants DEF InLine
<1>7. \A i \in DOMAIN Order : InLine(Order[i], i).request = Order[i]
  BY DEF InLine
<1>8. QED
  BY <1>3, <1>4, <1>5, <1>6, <1>7

\* A turn of the controller takes one entry out of its line.
LEMMA TurnStep ==
    ASSUME Types, NEW x \in closer.todo, NEW at \in {"recover", "agent", "close", "acted"}
    PROVE  /\ x.request \in Request /\ closer.todo \subseteq Entry
           /\ Turn(at, x) \in Closers /\ Past(at, x) \in Closers
           /\ Turn(at, x).at = at /\ Past(at, x).at = at
           /\ Turn(at, x).todo = closer.todo \ {x} /\ Past(at, x).todo = closer.todo \ {x}
           /\ Turn(at, x).request = x.request
<1>1. closer \in Closers /\ closer.todo \subseteq Entry
  BY DEF Types, Closers
<1>2. x.request \in Request
  BY <1>1 DEF Entry
<1>3. Turn(at, x) \in Closers
  BY <1>1, <1>2 DEF Turn, Closers
<1>4. Past(at, x) = [at |-> at, todo |-> closer.todo \ {x}, request |-> Order[1]]
  BY DEF Past, Turn
<1>5. QED
  BY <1>1, <1>2, <1>3, <1>4, Constants DEF Turn, Closers

\* How the controller moves in its line.
LEMMA CloserStep ==
    ASSUME Types, StartClosure \/ StartClosing \/ RecoveryEnds \/ Close \/ CrashCloser
    PROVE  closer' \in Closers
<1>1. closer \in Closers /\ Order[1] \in Request
  BY Constants DEF Types
<1>2. AgentCandidates \in SUBSET Entry /\ ClosureCandidates \in SUBSET Entry
  BY CandidatesStep
<1>3. CASE StartClosure
  BY <1>1, <1>2, <1>3 DEF StartClosure, Closers
<1>4. CASE StartClosing
  BY <1>1, <1>2, <1>4 DEF StartClosing, Closers
<1>5. CASE RecoveryEnds
  BY <1>1, <1>5 DEF RecoveryEnds, Closers
<1>6. CASE Close
  BY <1>1, <1>6 DEF Close, Closers
<1>7. CASE CrashCloser
  BY <1>1, <1>7 DEF CrashCloser, Resting, Closers
<1>8. QED
  BY <1>3, <1>4, <1>5, <1>6, <1>7

\* Every step keeps the types.
LEMMA TypeStep == Types /\ Bounded /\ [Next]_vars => Types'
<1> SUFFICES ASSUME Types, Bounded, [Next]_vars PROVE Types'
  OBVIOUS
<1>1. ASSUME NEW h \in Handler, NEW r \in Request, Register(h, r) PROVE Types'
  <2>1. catalog' \in Seq(CatalogRow)
    <3>1. RowFor(r) \in CatalogRow
      <4>1. \A i \in DOMAIN catalog : catalog[i] \in CatalogRow
        BY DEF Types
      <4>2. QED
        BY <4>1, RowStep, TypeFacts
    <3>2. catalog' = catalog \/ catalog' = Append(catalog, RowFor(r))
      BY <1>1 DEF Register
    <3>3. catalog \in Seq(CatalogRow)
      BY DEF Types
    <3>4. QED
      BY <3>1, <3>2, <3>3
  <2>2. job' \in [Handler -> Job]
    <3>1. RowFor(r) \in CatalogRow
      <4>1. \A i \in DOMAIN catalog : catalog[i] \in CatalogRow
        BY DEF Types
      <4>2. QED
        BY <4>1, RowStep, TypeFacts
    <3>2. [request |-> r, number |-> RowFor(r).number, dup |-> RowFor(r).dup, got |-> "none"] \in Job
      BY <3>1 DEF CatalogRow, Job, Said
    <3>3. QED
      BY <1>1, <3>2 DEF Register, Types
  <2>3. raised' \in [Request -> Seq(1..MaxTime)]
    <3>1. Append(raised[r], now) \in Seq(1..MaxTime)
      BY DEF Types
    <3>2. raised' = [raised EXCEPT ![r] = Append(raised[r], now)]
      BY <1>1 DEF Register
    <3>3. QED
      BY <3>1, <3>2 DEF Types
  <2>4. good' \in [Fingerprints -> 0..MaxTime]
    <3>1. 0 \in 0..MaxTime
      BY Constants
    <3>2. QED
      BY <1>1, <3>1 DEF Register, Types
  <2>5. pc' \in [Handler -> Labels]
    BY <1>1 DEF Register, Labels, Types
  <2>6. budget' \in Budgets
    BY <1>1, Spent DEF Register, Types
  <2>7. UNCHANGED <<site, now, files, old, diagnosis, receipt, closer, acted, alerts, died>>
    BY <1>1 DEF Register, artifacts
  <2>8. QED
    BY <2>1, <2>2, <2>3, <2>4, <2>5, <2>6, <2>7 DEF Types
<1>2. ASSUME NEW h \in Handler, WriteRequest(h) PROVE Types'
  <2>1. files' \in Seq(Request)
    <3>1. job[h].request \in Request
      BY DEF Types, Job
    <3>2. files' = Append(Without(files, job[h].request), job[h].request)
      BY <1>2 DEF WriteRequest
    <3>3. Without(files, job[h].request) \in Seq(Request)
      BY <3>1, Rest DEF Types
    <3>4. QED
      BY <3>1, <3>2, <3>3
  <2>2. old' \subseteq Request /\ pc' \in [Handler -> Labels]
    BY <1>2 DEF WriteRequest, Types, Labels
  <2>3. UNCHANGED <<site, now, catalog, diagnosis, receipt, job, closer,
                    raised, good, acted, alerts, died, budget>>
    BY <1>2 DEF WriteRequest
  <2>4. QED
    BY <2>1, <2>2, <2>3 DEF Types
<1>3. ASSUME NEW h \in Handler, CallAgent(h) PROVE Types'
  <2>1. Put(h, "pending", "agent")
    BY <1>3 DEF CallAgent
  <2>2. QED
    BY <2>1, PutStep DEF Outcome, Completed, Labels, Said
<1>4. ASSUME NEW h \in Handler, QueueOnly(h) PROVE Types'
  <2>1. Put(h, "unanswered", "notify")
    BY <1>4 DEF QueueOnly
  <2>2. QED
    BY <2>1, PutStep DEF Outcome, Completed, Labels, Said
<1>5. ASSUME NEW h \in Handler, AgentEnds(h) PROVE Types'
  <2>1. PICK d \in Outcome : Put(h, d, "notify")
    BY <1>5 DEF AgentEnds, Replies
  <2>2. QED
    BY <2>1, PutStep DEF Outcome, Completed, Labels, Said
<1>6. ASSUME NEW h \in Handler, Notify(h) PROVE Types'
  <2>1. alerts' \in Seq(Alert)
    <3> DEFINE new == [number |-> job[h].number, request |-> job[h].request, at |-> now]
    <3>1. new \in Alert
      BY DEF Alert, Types, Job
    <3>2. alerts' = alerts \/ alerts' = Append(alerts, new)
      BY <1>6 DEF Notify
    <3>3. alerts \in Seq(Alert)
      BY DEF Types
    <3> HIDE DEF new
    <3>4. QED
      BY <3>1, <3>2, <3>3
  <2>2. diagnosis' \in [Request -> Said]
    <3>1. diagnosis' = [diagnosis EXCEPT ![job[h].request] = job[h].got]
      BY <1>6 DEF Notify
    <3>2. job[h].got \in Said
      BY DEF Types, Job
    <3>3. QED
      BY <3>1, <3>2 DEF Types
  <2>3. pc' \in [Handler -> Labels] /\ job' \in [Handler -> Job]
    <3>1. CASE Leave(h)
      BY <3>1, LeaveStep
    <3>2. CASE pc' = [pc EXCEPT ![h] = "retry"] /\ job' = job
      BY <3>2 DEF Types, Labels
    <3>3. QED
      BY <1>6, <3>1, <3>2 DEF Notify
  <2>4. UNCHANGED <<site, now, catalog, files, old, receipt, closer,
                    raised, good, acted, died, budget>>
    BY <1>6 DEF Notify, Leave, world
  <2>5. QED
    BY <2>1, <2>2, <2>3, <2>4 DEF Types
<1>7. ASSUME NEW h \in Handler, RetryEnds(h) PROVE Types'
  <2>1. pc' \in [Handler -> Labels] /\ job' \in [Handler -> Job]
    <3>1. Leave(h)
      BY <1>7 DEF RetryEnds
    <3>2. QED
      BY <3>1, LeaveStep
  <2>2. good' \in [Fingerprints -> 0..MaxTime]
    <3>1. now \in 0..MaxTime
      BY Constants DEF Types
    <3>2. QED
      BY <1>7, <3>1 DEF RetryEnds, Types
  <2>3. UNCHANGED <<site, now, catalog, files, old, diagnosis, receipt,
                    closer, raised, acted, alerts, died, budget>>
    BY <1>7 DEF RetryEnds, Leave, artifacts
  <2>4. QED
    BY <2>1, <2>2, <2>3 DEF Types
<1>8. ASSUME NEW h \in Handler, Crash(h) PROVE Types'
  <2>1. pc' \in [Handler -> Labels] /\ job' \in [Handler -> Job]
    <3>1. Leave(h)
      BY <1>8 DEF Crash
    <3>2. QED
      BY <3>1, LeaveStep
  <2>2. died' \subseteq Request
    <3>1. job[h].request \in Request
      BY Constants DEF Types, Job
    <3>2. QED
      BY <1>8, <3>1 DEF Crash, Types
  <2>3. budget' \in Budgets
    BY <1>8, Spent DEF Crash, Types
  <2>4. UNCHANGED <<site, now, catalog, files, old, diagnosis, receipt,
                    closer, raised, good, acted, alerts>>
    BY <1>8 DEF Crash, Leave, world, artifacts
  <2>5. QED
    BY <2>1, <2>2, <2>3, <2>4 DEF Types
<1>9. CASE StartClosure
  <2>1. closer' \in Closers
    BY <1>9, CloserStep
  <2>2. UNCHANGED <<site, now, catalog, files, old, diagnosis, receipt, pc,
                    job, raised, good, acted, alerts, died, budget>>
    BY <1>9 DEF StartClosure, world, artifacts
  <2>3. QED
    BY <2>1, <2>2 DEF Types
<1>10. CASE Recover
  <2>1. closer' \in Closers
    BY <1>10, TurnStep DEF Recover, InTurn
  <2>2. diagnosis' \in [Request -> Said]
    BY <1>10 DEF Recover, Types, Said, Outcome, Completed
  <2>3. UNCHANGED <<site, now, catalog, files, old, receipt, pc, job,
                    raised, good, acted, alerts, died, budget>>
    BY <1>10 DEF Recover, world
  <2>4. QED
    BY <2>1, <2>2, <2>3 DEF Types
<1>11. CASE RecoveryEnds
  <2>1. closer' \in Closers
    BY <1>11, CloserStep
  <2>2. diagnosis' \in [Request -> Said]
    <3>1. PICK d \in Outcome : diagnosis' = [diagnosis EXCEPT ![closer.request] = d]
      BY <1>11 DEF RecoveryEnds, Replies
    <3>2. d \in Said
      BY DEF Said
    <3>3. QED
      BY <3>1, <3>2 DEF Types
  <2>3. UNCHANGED <<site, now, catalog, files, old, receipt, pc, job,
                    raised, good, acted, alerts, died, budget>>
    BY <1>11 DEF RecoveryEnds, world
  <2>4. QED
    BY <2>1, <2>2, <2>3 DEF Types
<1>12. CASE StartClosing
  <2>1. closer' \in Closers
    BY <1>12, CloserStep
  <2>2. UNCHANGED <<site, now, catalog, files, old, diagnosis, receipt, pc,
                    job, raised, good, acted, alerts, died, budget>>
    BY <1>12 DEF StartClosing, world, artifacts
  <2>3. QED
    BY <2>1, <2>2 DEF Types
<1>13. CASE Judge
  <2>1. closer' \in Closers
    BY <1>13, TurnStep DEF Judge, InTurn
  <2>2. receipt' \in [Request -> Closures]
    <3>1. \A r \in Request : Verdict(r) \in {"closed", "blocked", "pending", "act"}
      BY DEF Verdict
    <3>2. PICK x \in closer.todo :
              /\ Verdict(x.request) # "act"
              /\ receipt' = IF Verdict(x.request) = "pending" THEN receipt
                            ELSE [receipt EXCEPT ![x.request] = Verdict(x.request)]
      BY <1>13 DEF Judge, InTurn
    <3>3. x.request \in Request
      BY TurnStep
    <3>4. QED
      BY <3>1, <3>2, <3>3 DEF Types, Closures
  <2>3. UNCHANGED <<site, now, catalog, files, old, diagnosis, pc, job,
                    raised, good, acted, alerts, died, budget>>
    BY <1>13 DEF Judge, world
  <2>4. QED
    BY <2>1, <2>2, <2>3 DEF Types
<1>14. CASE Act
  <2>1. closer' \in Closers
    BY <1>14, TurnStep DEF Act, InTurn
  <2>2. acted' \in [Request -> Nat]
    <3>1. PICK x \in closer.todo :
          acted' = [acted EXCEPT ![x.request] = acted[x.request] + 1]
      BY <1>14 DEF Act, InTurn
    <3>2. x.request \in Request
      BY TurnStep
    <3>3. QED
      BY <3>1, <3>2 DEF Types
  <2>3. pc' \in [Handler -> Labels] /\ job' \in [Handler -> Job]
    <3>1. UNCHANGED <<pc, job>> \/ Leave(Daemon)
      BY <1>14 DEF Act
    <3>2. Daemon \in Handler
      BY Constants
    <3>3. QED
      BY <3>1, <3>2, LeaveStep DEF Types
  <2>4. died' \subseteq Request
    <3>1. job[Daemon].request \in Request
      BY Constants DEF Types, Job
    <3>2. QED
      BY <1>14, <3>1 DEF Act, Types
  <2>5. UNCHANGED <<site, now, catalog, files, old, diagnosis,
                    receipt, raised, good, alerts, budget>>
    BY <1>14 DEF Act, Leave, world, artifacts
  <2>6. QED
    BY <2>1, <2>2, <2>3, <2>4, <2>5 DEF Types
<1>15. CASE Close
  <2>1. closer' \in Closers
    BY <1>15, CloserStep
  <2>2. receipt' \in [Request -> Closures]
    <3>1. PICK c \in Closures : receipt' = [receipt EXCEPT ![closer.request] = c]
      BY <1>15 DEF Close, Closures
    <3>2. QED
      BY <3>1 DEF Types
  <2>3. UNCHANGED <<site, now, catalog, files, old, diagnosis, pc, job,
                    raised, good, acted, alerts, died, budget>>
    BY <1>15 DEF Close, world
  <2>4. QED
    BY <2>1, <2>2, <2>3 DEF Types
<1>16. CASE CrashCloser
  <2>1. closer' \in Closers
    BY <1>16, CloserStep
  <2>2. died' \subseteq Request
    <3>1. closer.request \in Request
      BY DEF Types, Closers
    <3>2. QED
      BY <1>16, <3>1 DEF CrashCloser, Types
  <2>3. budget' \in Budgets
    BY <1>16, Spent DEF CrashCloser, Types
  <2>4. UNCHANGED <<site, now, catalog, files, old, diagnosis, receipt,
                    pc, job, raised, good, acted, alerts>>
    BY <1>16 DEF CrashCloser, world, artifacts
  <2>5. QED
    BY <2>1, <2>2, <2>3, <2>4 DEF Types
<1>17. ASSUME NEW r \in Request, GrowOld(r) PROVE Types'
  <2>1. old' \subseteq Request
    BY <1>17 DEF GrowOld, Types
  <2>2. budget' \in Budgets
    BY <1>17, Spent DEF GrowOld, Types
  <2>3. UNCHANGED <<site, now, catalog, files, diagnosis, receipt, pc, job,
                    closer, raised, good, acted, alerts, died>>
    BY <1>17 DEF GrowOld, world
  <2>4. QED
    BY <2>1, <2>2, <2>3 DEF Types
<1>18. ASSUME NEW p \in Fingerprints, Succeed(p) PROVE Types'
  <2>1. good' \in [Fingerprints -> 0..MaxTime]
    <3>1. now \in 0..MaxTime
      BY Constants DEF Types
    <3>2. QED
      BY <1>18, <3>1 DEF Succeed, Types
  <2>2. UNCHANGED <<site, now, catalog, files, old, diagnosis, receipt, pc,
                    job, closer, raised, acted, alerts, died, budget>>
    BY <1>18 DEF Succeed, artifacts
  <2>3. QED
    BY <2>1, <2>2 DEF Types
<1>19. CASE TimePasses
  <2>1. now' \in 1..MaxTime
    BY <1>19, Constants DEF TimePasses, Types
  <2>2. UNCHANGED <<site, catalog, files, old, diagnosis, receipt, pc, job,
                    closer, raised, good, acted, alerts, died, budget>>
    BY <1>19 DEF TimePasses, artifacts
  <2>3. QED
    BY <2>1, <2>2 DEF Types
<1>20. CASE UNCHANGED vars
  BY <1>20 DEF vars, Types
<1>21. QED
  BY <1>1, <1>2, <1>3, <1>4, <1>5, <1>6, <1>7, <1>8, <1>9, <1>10, <1>11, <1>12, <1>13,
     <1>14, <1>15, <1>16, <1>17, <1>18, <1>19, <1>20 DEF Next, Handle, Closure

\* A new row gets the number of a recent row of its error, or a new one.
LEMMA NumberStep ==
    Types /\ NumberIsOneError /\ Bounded /\ [Next]_vars => (NumberIsOneError /\ Bounded)'
<1> SUFFICES ASSUME Types, NumberIsOneError, Bounded,
                    [Next]_vars PROVE (NumberIsOneError /\ Bounded)'
  OBVIOUS
<1>1. \/ UNCHANGED catalog
      \/ \E h \in Handler, r \in Request : Register(h, r)
  BY DEF Next, Handle, Closure, vars, WriteRequest, CallAgent, QueueOnly, AgentEnds,
         Notify, RetryEnds, Crash, StartClosure, Recover, RecoveryEnds, StartClosing,
         Judge, Act, Close, CrashCloser, GrowOld, Succeed, TimePasses, world,
         artifacts, Put, Leave
<1>2. CASE UNCHANGED catalog
  BY <1>2 DEF NumberIsOneError, Bounded
<1>3. ASSUME NEW h \in Handler, NEW r \in Request, Register(h, r)
      PROVE  (NumberIsOneError /\ Bounded)'
  <2>1. CASE Registered(r)
    <3>1. UNCHANGED catalog
      BY <1>3, <2>1 DEF Register
    <3>2. QED
      BY <3>1 DEF NumberIsOneError, Bounded
  <2>2. CASE ~Registered(r)
    <3> DEFINE new == RowFor(r)
               n == Len(catalog) + 1
    <3>1. catalog' = Append(catalog, new)
      BY <1>3, <2>2 DEF Register
    <3>2. /\ new \in CatalogRow /\ new.request = r /\ new.at = now /\ new.number <= n
          /\ new.dup => \E k \in DOMAIN catalog :
                            /\ Fingerprint[catalog[k].request] = Fingerprint[r]
                            /\ catalog[k].number = new.number
                            /\ now - catalog[k].at <= Window
          /\ ~new.dup => \A k \in DOMAIN catalog : catalog[k].number < new.number
      BY <2>2, RowStep, TypeFacts
    <3> HIDE DEF new
    <3>3. catalog \in Seq(CatalogRow)
      BY DEF Types
    <3>4. /\ DOMAIN catalog' = 1..n /\ DOMAIN catalog = 1..(n - 1) /\ n \in Nat /\ n > 0
          /\ Len(catalog) = n - 1 /\ Len(catalog') = n
          /\ \A i \in 1..(n - 1) : catalog'[i] = catalog[i]
          /\ catalog'[n] = new
      BY <3>1, <3>2, <3>3, Appended
    <3> HIDE DEF n
    <3>5. \A i \in 1..(n - 1) : /\ catalog[i] \in CatalogRow /\ catalog[i].number \in Nat
                                /\ catalog[i].number <= n - 1 /\ catalog[i].request # r
      <4>1. \A i \in 1..(n - 1) : catalog[i] \in CatalogRow
        BY <3>3, <3>4
      <4>2. \A i \in 1..(n - 1) : catalog[i].request # r
        BY <2>2, <3>4 DEF Registered, RowsOf
      <4>3. QED
        BY <3>4, <4>1, <4>2 DEF Bounded, CatalogRow
    <3>6. Bounded'
      <4>1. ASSUME NEW i \in 1..n PROVE catalog'[i].number <= n
        <5>1. CASE i = n
          BY <3>2, <3>4, <5>1
        <5>2. CASE i # n
          <6>1. i \in 1..(n - 1)
            BY <3>4, <5>2
          <6>2. QED
            BY <3>4, <3>5, <6>1
        <5>3. QED
          BY <5>1, <5>2
      <4>2. QED
        BY <3>4, <4>1 DEF Bounded
    <3>7. ASSUME NEW j \in DOMAIN catalog', catalog'[j].dup
          PROVE  \E k \in 1..(j - 1) : /\ catalog'[k].number = catalog'[j].number
                                       /\ catalog'[j].at - catalog'[k].at <= Window
      <4>1. CASE j = n
        BY <3>2, <3>4, <3>7, <4>1
      <4>2. CASE j # n
        <5>1. j \in 1..(n - 1) /\ j \in DOMAIN catalog
          BY <3>4, <4>2
        <5>2. PICK k \in 1..(j - 1) : /\ catalog[k].number = catalog[j].number
                                      /\ catalog[j].at - catalog[k].at <= Window
          BY <3>4, <3>7, <5>1 DEF NumberIsOneError
        <5>3. k \in 1..(n - 1)
          BY <3>4, <5>1
        <5>4. QED
          BY <3>4, <5>1, <5>2, <5>3
      <4>3. QED
        BY <4>1, <4>2
    <3>8. ASSUME NEW i \in DOMAIN catalog', NEW j \in DOMAIN catalog'
          PROVE  /\ i # j => catalog'[i].request # catalog'[j].request
                 /\ catalog'[i].number = catalog'[j].number =>
                       Fingerprint[catalog'[i].request] = Fingerprint[catalog'[j].request]
                 /\ (i < j /\ ~catalog'[j].dup) => catalog'[i].number < catalog'[j].number
      <4>1. i \in 1..n /\ j \in 1..n
        BY <3>4
      <4>2. ASSUME NEW a \in 1..(n - 1)
            PROVE  catalog[a].number = new.number
                      => Fingerprint[catalog[a].request] = Fingerprint[r]
        <5>1. CASE new.dup
          <6>1. PICK k \in DOMAIN catalog :
                    /\ Fingerprint[catalog[k].request] = Fingerprint[r]
                    /\ catalog[k].number = new.number
            BY <3>2, <5>1
          <6>2. catalog[a].number = catalog[k].number
                   => Fingerprint[catalog[a].request] = Fingerprint[catalog[k].request]
            BY <3>4 DEF NumberIsOneError
          <6>3. QED
            BY <6>1, <6>2
        <5>2. CASE ~new.dup
          BY <3>2, <3>4, <3>5, <5>2 DEF CatalogRow
        <5>3. QED
          BY <5>1, <5>2
      <4>3. CASE i = n /\ j = n
        BY <4>3, <3>4
      <4>4. CASE i = n /\ j # n
        <5>1. j \in 1..(n - 1) /\ ~(i < j)
          BY <3>4, <4>1, <4>4
        <5>2. catalog'[j] = catalog[j] /\ catalog'[i] = new
          BY <3>4, <4>4, <5>1
        <5>3. QED
          BY <3>2, <3>5, <4>2, <5>1, <5>2
      <4>5. CASE i # n /\ j = n
        <5>1. i \in 1..(n - 1) /\ i \in DOMAIN catalog
          BY <3>4, <4>1, <4>5
        <5>2. catalog'[i] = catalog[i] /\ catalog'[j] = new
          BY <3>4, <4>5, <5>1
        <5>3. QED
          BY <3>2, <3>5, <4>2, <5>1, <5>2
      <4>6. CASE i # n /\ j # n
        <5>1. i \in DOMAIN catalog /\ j \in DOMAIN catalog
          BY <3>4, <4>1, <4>6
        <5>2. catalog'[i] = catalog[i] /\ catalog'[j] = catalog[j]
          BY <3>4, <5>1
        <5>3. QED
          BY <5>1, <5>2 DEF NumberIsOneError
      <4>7. QED
        BY <4>3, <4>4, <4>5, <4>6
    <3>9. NumberIsOneError'
      BY <3>7, <3>8 DEF NumberIsOneError
    <3>10. QED
      BY <3>6, <3>9
  <2>3. QED
    BY <2>1, <2>2
<1>4. QED
  BY <1>1, <1>2, <1>3

\* The rows of the catalog stay as they are.
CatalogKept ==
    \A i \in DOMAIN catalog : i \in DOMAIN catalog' /\ catalog'[i] = catalog[i]

\* No step changes a row of the catalog.
LEMMA CatalogStep == Types /\ Bounded /\ [Next]_vars => CatalogKept
<1> SUFFICES ASSUME Types, Bounded, [Next]_vars PROVE CatalogKept
  OBVIOUS
<1>1. \/ UNCHANGED catalog
      \/ \E h \in Handler, r \in Request : Register(h, r)
  BY DEF Next, Handle, Closure, vars, WriteRequest, CallAgent, QueueOnly, AgentEnds,
         Notify, RetryEnds, Crash, StartClosure, Recover, RecoveryEnds, StartClosing,
         Judge, Act, Close, CrashCloser, GrowOld, Succeed, TimePasses, world,
         artifacts, Put, Leave
<1>2. CASE UNCHANGED catalog
  BY <1>2 DEF CatalogKept
<1>3. ASSUME NEW h \in Handler, NEW r \in Request, Register(h, r) PROVE CatalogKept
  <2>1. catalog' = catalog \/ (~Registered(r) /\ catalog' = Append(catalog, RowFor(r)))
    BY <1>3 DEF Register
  <2>2. catalog \in Seq(CatalogRow)
    BY DEF Types
  <2>3. ~Registered(r) => RowFor(r) \in CatalogRow
    BY RowStep, TypeFacts
  <2>4. CASE catalog' = catalog
    BY <2>4 DEF CatalogKept
  <2>5. CASE ~Registered(r) /\ catalog' = Append(catalog, RowFor(r))
    <3>1. RowFor(r) \in CatalogRow
      BY <2>3, <2>5
    <3>2. QED
      BY <2>2, <2>5, <3>1, Appended DEF CatalogKept
  <2>6. QED
    BY <2>1, <2>4, <2>5
<1>4. QED
  BY <1>1, <1>2, <1>3

\* What was met was met, and what came again came again.
RaisedKept ==
    \A q \in Request : (Met(q) => Met(q)') /\ (Again(q) => Again(q)')

\* An error that was raised is not forgotten.
LEMMA RaisedStep == Types /\ [Next]_vars => RaisedKept
<1> SUFFICES ASSUME Types, [Next]_vars PROVE RaisedKept
  OBVIOUS
<1>1. \/ UNCHANGED raised
      \/ \E h \in Handler, r \in Request : Register(h, r)
  BY DEF Next, Handle, Closure, vars, WriteRequest, CallAgent, QueueOnly, AgentEnds,
         Notify, RetryEnds, Crash, StartClosure, Recover, RecoveryEnds, StartClosing,
         Judge, Act, Close, CrashCloser, GrowOld, Succeed, TimePasses, world,
         artifacts, Put, Leave
<1>2. CASE UNCHANGED raised
  BY <1>2 DEF RaisedKept, Met, Again
<1>3. ASSUME NEW h \in Handler, NEW r \in Request, Register(h, r) PROVE RaisedKept
  <2>1. raised' = [raised EXCEPT ![r] = Append(raised[r], now)]
    BY <1>3 DEF Register
  <2>2. \A q \in Request : raised[q] \in Seq(1..MaxTime) /\ Len(raised[q]) \in Nat
    BY DEF Types
  <2>3. Len(Append(raised[r], now)) = Len(raised[r]) + 1
    BY <2>2 DEF Types
  <2>4. ASSUME NEW q \in Request PROVE (Met(q) => Met(q)') /\ (Again(q) => Again(q)')
    <3>1. CASE q = r
      <4>1. Len(raised'[q]) = Len(raised[q]) + 1
        BY <2>1, <2>3, <3>1 DEF Types
      <4>2. QED
        BY <2>2, <4>1 DEF Met, Again
    <3>2. CASE q # r
      BY <2>1, <3>2 DEF Met, Again, Types
    <3>3. QED
      BY <3>1, <3>2
  <2>5. QED
    BY <2>4 DEF RaisedKept
<1>4. QED
  BY <1>1, <1>2, <1>3

\* A call makes an error met, and one that was met come again.
LEMMA RegisterMeets ==
    ASSUME Types, NEW h \in Handler, NEW r \in Request, Register(h, r)
    PROVE  Met(r)' /\ (Met(r) => Again(r)')
<1>1. raised' = [raised EXCEPT ![r] = Append(raised[r], now)]
  BY DEF Register
<1>2. raised[r] \in Seq(1..MaxTime) /\ Len(raised[r]) \in Nat /\ now \in 1..MaxTime
  BY DEF Types
<1>3. Len(raised'[r]) = Len(raised[r]) + 1
  BY <1>1, <1>2 DEF Types
<1>4. QED
  BY <1>2, <1>3 DEF Met, Again

\* What one handler has in hand.
Has(h) ==
    pc[h] # "idle" =>
        /\ Listed(job[h].request, job[h].number, job[h].dup)
        /\ pc[h] = "notify" => job[h].got \in Outcome

\* What a handler has in hand stays listed in the catalog.
LEMMA InHandStep == Types /\ Bounded /\ InHand /\ [Next]_vars => InHand'
<1> SUFFICES ASSUME Types, Bounded, InHand, [Next]_vars,
                    NEW k \in Handler
             PROVE  Has(k)'
  BY DEF InHand, Has
<1> Has(k)
  BY DEF InHand, Has
<1> /\ pc \in [Handler -> Labels] /\ job \in [Handler -> Job]
  BY DEF Types
<1> \A r, n, d : Listed(r, n, d) => Listed(r, n, d)'
  BY CatalogStep DEF Listed, CatalogKept
<1> USE DEF Has
<1>1. \/ UNCHANGED <<catalog, pc, job>>
      \/ \E h \in Handler : Handle(h) \/ Crash(h)
      \/ \E h \in Handler, r \in Request : Register(h, r)
      \/ Act
  BY DEF Next, Closure, vars, StartClosure, Recover, RecoveryEnds, StartClosing, Judge,
         Close, CrashCloser, GrowOld, Succeed, TimePasses, world, artifacts, Put, Leave
<1>2. CASE UNCHANGED <<catalog, pc, job>>
  BY <1>2 DEF Has, Listed
<1>3. ASSUME NEW h \in Handler, NEW r \in Request, Register(h, r) PROVE Has(k)'
  <2>1. /\ job' = [job EXCEPT ![h] = [request |-> r, number |-> RowFor(r).number,
                                      dup |-> RowFor(r).dup, got |-> "none"]]
        /\ pc' = [pc EXCEPT ![h] = "registered"]
        /\ catalog' = IF Registered(r) THEN catalog ELSE Append(catalog, RowFor(r))
    BY <1>3 DEF Register
  <2>2. PICK n, d : n = RowFor(r).number /\ d = RowFor(r).dup
    OBVIOUS
  <2>3. Listed(r, n, d)'
    <3>1. CASE Registered(r)
      <4>1. PICK i \in DOMAIN catalog : RowFor(r) = catalog[i] /\ catalog[i].request = r
        BY <3>1, RowStep, TypeFacts
      <4>2. catalog' = catalog
        BY <2>1, <3>1
      <4>3. QED
        BY <2>2, <4>1, <4>2 DEF Listed
    <3>2. CASE ~Registered(r)
      <4>1. RowFor(r) \in CatalogRow /\ RowFor(r).request = r
        BY <3>2, RowStep, TypeFacts
      <4>2. catalog \in Seq(CatalogRow) /\ catalog' = Append(catalog, RowFor(r))
        BY <2>1, <3>2 DEF Types
      <4>3. Len(catalog) + 1 \in DOMAIN catalog' /\ catalog'[Len(catalog) + 1] = RowFor(r)
        <5>1. Len(catalog) \in Nat
          BY <4>2
        <5>2. QED
          BY <4>1, <4>2, <5>1, Appended
      <4>4. QED
        BY <2>2, <4>1, <4>3 DEF Listed
    <3>3. QED
      BY <3>1, <3>2
  <2>4. CASE k = h
    <3>1. job'[k].request = r /\ job'[k].number = n /\ job'[k].dup = d /\ pc'[k] # "notify"
      BY <2>1, <2>2, <2>4
    <3>2. QED
      BY <2>3, <3>1 DEF Listed
  <2>5. CASE k # h
    BY <2>1, <2>5
  <2>6. QED
    BY <2>4, <2>5
<1>4. ASSUME NEW h \in Handler, WriteRequest(h) PROVE Has(k)'
  <2>1. pc[h] # "idle" /\ pc' = [pc EXCEPT ![h] = "filed"] /\ UNCHANGED <<catalog, job>>
    BY <1>4 DEF WriteRequest
  <2>2. QED
    BY <2>1
<1>5. ASSUME NEW h \in Handler, CallAgent(h) PROVE Has(k)'
  <2>1. /\ pc[h] # "idle" /\ pc' = [pc EXCEPT ![h] = "agent"] /\ UNCHANGED catalog
        /\ job' = [job EXCEPT ![h].got = "pending"]
    BY <1>5 DEF CallAgent, Put
  <2>2. QED
    BY <2>1 DEF Job, Outcome, Completed
<1>6. ASSUME NEW h \in Handler, QueueOnly(h) PROVE Has(k)'
  <2>1. /\ pc[h] # "idle" /\ pc' = [pc EXCEPT ![h] = "notify"] /\ UNCHANGED catalog
        /\ job' = [job EXCEPT ![h].got = "unanswered"]
    BY <1>6 DEF QueueOnly, Put
  <2>2. QED
    BY <2>1 DEF Job, Outcome, Completed
<1>7. ASSUME NEW h \in Handler, AgentEnds(h) PROVE Has(k)'
  <2>1. PICK d \in Outcome : /\ pc[h] # "idle" /\ pc' = [pc EXCEPT ![h] = "notify"]
                            /\ job' = [job EXCEPT ![h].got = d] /\ UNCHANGED catalog
    BY <1>7 DEF AgentEnds, Put, Replies
  <2>2. QED
    BY <2>1 DEF Job
<1>8. ASSUME NEW h \in Handler, Notify(h) PROVE Has(k)'
  <2>1. /\ pc[h] # "idle" /\ UNCHANGED catalog
        /\ \/ pc' = [pc EXCEPT ![h] = "idle"] /\ job' = [job EXCEPT ![h] = NoJob]
           \/ pc' = [pc EXCEPT ![h] = "retry"] /\ job' = job
    BY <1>8 DEF Notify, Leave
  <2>2. QED
    BY <2>1
<1>9. ASSUME NEW h \in Handler, RetryEnds(h) PROVE Has(k)'
  <2>1. pc' = [pc EXCEPT ![h] = "idle"] /\ job' = [job EXCEPT ![h] = NoJob] /\ UNCHANGED catalog
    BY <1>9 DEF RetryEnds, Leave, artifacts
  <2>2. QED
    BY <2>1
<1>10. ASSUME NEW h \in Handler, Crash(h) PROVE Has(k)'
  <2>1. pc' = [pc EXCEPT ![h] = "idle"] /\ job' = [job EXCEPT ![h] = NoJob] /\ UNCHANGED catalog
    BY <1>10 DEF Crash, Leave, world, artifacts
  <2>2. QED
    BY <2>1
<1>11. CASE Act
  <2>1. /\ UNCHANGED catalog
        /\ \/ UNCHANGED <<pc, job>>
           \/ pc' = [pc EXCEPT ![Daemon] = "idle"] /\ job' = [job EXCEPT ![Daemon] = NoJob]
    BY <1>11 DEF Act, Leave, artifacts
  <2>2. QED
    BY <2>1, Constants
<1>12. QED
  BY <1>1, <1>2, <1>3, <1>4, <1>5, <1>6, <1>7, <1>8, <1>9, <1>10, <1>11 DEF Handle

\* What a handler has in hand it, or another, has met.
LEMMA MetInHandStep == Types /\ MetInHand /\ [Next]_vars => MetInHand'
<1> SUFFICES ASSUME Types, MetInHand, [Next]_vars PROVE MetInHand'
  OBVIOUS
<1> RaisedKept
  BY RaisedStep
<1> pc \in [Handler -> Labels] /\ job \in [Handler -> Job] /\ \A h \in Handler : job[h].request \in Request
  BY DEF Types, Job
<1> USE DEF MetInHand, RaisedKept, Met
<1>1. \/ UNCHANGED <<pc, job>>
      \/ \E h \in Handler : Handle(h) \/ Crash(h)
      \/ \E h \in Handler, r \in Request : Register(h, r)
      \/ Act
  BY DEF Next, Closure, vars, StartClosure, Recover, RecoveryEnds, StartClosing, Judge,
         Close, CrashCloser, GrowOld, Succeed, TimePasses, world, artifacts, Put, Leave
<1>2. CASE UNCHANGED <<pc, job>>
  BY <1>2 DEF MetInHand
<1>3. ASSUME NEW h \in Handler, NEW r \in Request, Register(h, r) PROVE MetInHand'
  <2>1. /\ pc' = [pc EXCEPT ![h] = "registered"] /\ job'[h].request = r
        /\ \A k \in Handler : k # h => job'[k] = job[k]
    BY <1>3 DEF Register
  <2>2. Met(r)'
    BY <1>3, RegisterMeets
  <2>3. QED
    BY <2>1, <2>2 DEF Met
<1>4. ASSUME NEW h \in Handler, WriteRequest(h) PROVE MetInHand'
  <2>1. pc[h] # "idle" /\ pc' = [pc EXCEPT ![h] = "filed"] /\ UNCHANGED job
    BY <1>4 DEF WriteRequest
  <2>2. QED
    BY <2>1
<1>5. ASSUME NEW h \in Handler, CallAgent(h) PROVE MetInHand'
  <2>1. PICK d : /\ pc[h] # "idle" /\ pc' = [pc EXCEPT ![h] = "agent"]
                 /\ job' = [job EXCEPT ![h] = [job[h] EXCEPT !.got = d]]
    BY <1>5 DEF CallAgent, Put
  <2>2. \A k \in Handler : job'[k].request = job[k].request
    BY <2>1 DEF Job
  <2>3. QED
    BY <2>1, <2>2
<1>6. ASSUME NEW h \in Handler, QueueOnly(h) PROVE MetInHand'
  <2>1. PICK d : /\ pc[h] # "idle" /\ pc' = [pc EXCEPT ![h] = "notify"]
                 /\ job' = [job EXCEPT ![h] = [job[h] EXCEPT !.got = d]]
    BY <1>6 DEF QueueOnly, Put
  <2>2. \A k \in Handler : job'[k].request = job[k].request
    BY <2>1 DEF Job
  <2>3. QED
    BY <2>1, <2>2
<1>7. ASSUME NEW h \in Handler, AgentEnds(h) PROVE MetInHand'
  <2>1. PICK d : /\ pc[h] # "idle" /\ pc' = [pc EXCEPT ![h] = "notify"]
                 /\ job' = [job EXCEPT ![h] = [job[h] EXCEPT !.got = d]]
    BY <1>7 DEF AgentEnds, Put
  <2>2. \A k \in Handler : job'[k].request = job[k].request
    BY <2>1 DEF Job
  <2>3. QED
    BY <2>1, <2>2
<1>8. ASSUME NEW h \in Handler, Notify(h) PROVE MetInHand'
  <2>1. /\ pc[h] # "idle"
        /\ \/ pc' = [pc EXCEPT ![h] = "idle"] /\ job' = [job EXCEPT ![h] = NoJob]
           \/ pc' = [pc EXCEPT ![h] = "retry"] /\ job' = job
    BY <1>8 DEF Notify, Leave
  <2>2. QED
    BY <2>1
<1>9. ASSUME NEW h \in Handler, RetryEnds(h) PROVE MetInHand'
  <2>1. pc' = [pc EXCEPT ![h] = "idle"] /\ job' = [job EXCEPT ![h] = NoJob]
    BY <1>9 DEF RetryEnds, Leave, artifacts
  <2>2. QED
    BY <2>1
<1>10. ASSUME NEW h \in Handler, Crash(h) PROVE MetInHand'
  <2>1. pc' = [pc EXCEPT ![h] = "idle"] /\ job' = [job EXCEPT ![h] = NoJob]
    BY <1>10 DEF Crash, Leave, world, artifacts
  <2>2. QED
    BY <2>1
<1>11. CASE Act
  <2>1. \/ UNCHANGED <<pc, job>>
        \/ pc' = [pc EXCEPT ![Daemon] = "idle"] /\ job' = [job EXCEPT ![Daemon] = NoJob]
    BY <1>11 DEF Act, Leave
  <2>2. QED
    BY <2>1, Constants
<1>12. QED
  BY <1>1, <1>2, <1>3, <1>4, <1>5, <1>6, <1>7, <1>8, <1>9, <1>10, <1>11 DEF Handle

\* ... and so has it what it alerts the owner to,
LEMMA MetAlertsStep == Types /\ MetInHand /\ MetAlerts /\ [Next]_vars => MetAlerts'
<1> SUFFICES ASSUME Types, MetInHand, MetAlerts, [Next]_vars PROVE MetAlerts'
  OBVIOUS
<1> RaisedKept
  BY RaisedStep
<1> \A i \in DOMAIN alerts : alerts[i].request \in Request
  <2>1. \A i \in DOMAIN alerts : alerts[i] \in Alert
    BY DEF Types
  <2>2. QED
    BY <2>1 DEF Alert
<1> USE DEF MetAlerts, RaisedKept, Met
<1>1. \/ UNCHANGED alerts
      \/ \E h \in Handler : Notify(h)
  BY DEF Next, Handle, Closure, vars, Register, WriteRequest, CallAgent, QueueOnly,
         AgentEnds, RetryEnds, Crash, StartClosure, Recover, RecoveryEnds,
         StartClosing, Judge, Act, Close, CrashCloser, GrowOld, Succeed, TimePasses,
         world, artifacts, Put, Leave
<1>2. CASE UNCHANGED alerts
  BY <1>2 DEF MetAlerts
<1>3. ASSUME NEW h \in Handler, Notify(h) PROVE MetAlerts'
  <2>1. PICK new : /\ new = [number |-> job[h].number, request |-> job[h].request, at |-> now]
                   /\ alerts' = alerts \/ alerts' = Append(alerts, new)
    BY <1>3 DEF Notify
  <2>2. new \in Alert /\ Met(new.request)
    BY <1>3, <2>1 DEF Notify, Types, Job, Alert, MetInHand
  <2>3. raised' = raised /\ alerts \in Seq(Alert)
    BY <1>3 DEF Notify, world, Types
  <2>4. \A i \in DOMAIN alerts' :
            alerts'[i] = new \/ (i \in DOMAIN alerts /\ alerts'[i] = alerts[i])
    <3>1. CASE alerts' = alerts
      BY <3>1
    <3>2. CASE alerts' = Append(alerts, new)
      BY <2>2, <2>3, <3>2, Appended
    <3>3. QED
      BY <2>1, <3>1, <3>2
  <2>5. QED
    BY <2>2, <2>3, <2>4
<1>4. QED
  BY <1>1, <1>2, <1>3

\* ... what it files,
LEMMA MetFilesStep == Types /\ MetInHand /\ MetFiles /\ [Next]_vars => MetFiles'
<1> SUFFICES ASSUME Types, MetInHand, MetFiles, [Next]_vars PROVE MetFiles'
  OBVIOUS
<1> RaisedKept
  BY RaisedStep
<1> \A i \in DOMAIN files : files[i] \in Request
  BY DEF Types
<1> USE DEF MetFiles, RaisedKept, Met
<1>1. \/ UNCHANGED files
      \/ \E h \in Handler : WriteRequest(h)
  BY DEF Next, Handle, Closure, vars, Register, CallAgent, QueueOnly, AgentEnds,
         Notify, RetryEnds, Crash, StartClosure, Recover, RecoveryEnds, StartClosing,
         Judge, Act, Close, CrashCloser, GrowOld, Succeed, TimePasses, world,
         artifacts, Put, Leave
<1>2. CASE UNCHANGED files
  BY <1>2 DEF MetFiles
<1>3. ASSUME NEW h \in Handler, WriteRequest(h) PROVE MetFiles'
  <2> DEFINE q == job[h].request
  <2>1. files' = Append(Without(files, q), q) /\ raised' = raised
    BY <1>3 DEF WriteRequest
  <2>2. q \in Request /\ Met(q) /\ files \in Seq(Request)
    BY <1>3 DEF WriteRequest, Types, Job, MetInHand
  <2> HIDE DEF q
  <2>3. /\ Without(files, q) \in Seq(Request)
        /\ \A i \in DOMAIN Without(files, q) : \E j \in DOMAIN files : Without(files, q)[i] = files[j]
    BY <2>2, Rest
  <2>4. ASSUME NEW i \in DOMAIN files'
        PROVE  files'[i] = q \/ \E j \in DOMAIN files : files'[i] = files[j]
    <3> DEFINE s == Without(files, q)
    <3>1. s \in Seq(Request) /\ Len(s) \in Nat /\ DOMAIN s = 1..Len(s)
      BY <2>3
    <3>2. i \in 1..(Len(s) + 1) /\ files'[Len(s) + 1] = q /\ \A j \in DOMAIN s : files'[j] = s[j]
      BY <2>1, <2>2, <2>3, Appended
    <3> HIDE DEF s
    <3>3. CASE i = Len(s) + 1
      BY <3>2, <3>3
    <3>4. CASE i # Len(s) + 1
      <4>1. i \in DOMAIN s
        BY <3>1, <3>2, <3>4
      <4>2. QED
        BY <2>3, <3>2, <4>1 DEF s
    <3>5. QED
      BY <3>3, <3>4
  <2>5. QED
    BY <2>1, <2>2, <2>4
<1>4. QED
  BY <1>1, <1>2, <1>3

\* ... what is diagnosed,
LEMMA MetDiagnosedStep ==
    Types /\ MetInHand /\ MetInLine /\ Called /\ MetDiagnosed /\ [Next]_vars => MetDiagnosed'
<1> SUFFICES ASSUME Types, MetInHand, MetInLine, Called, MetDiagnosed,
                    [Next]_vars PROVE MetDiagnosed'
  OBVIOUS
<1> RaisedKept
  BY RaisedStep
<1> USE DEF MetDiagnosed, RaisedKept, Met
<1>1. \/ UNCHANGED diagnosis
      \/ \E h \in Handler : CallAgent(h) \/ QueueOnly(h) \/ AgentEnds(h) \/ Notify(h)
      \/ Recover \/ RecoveryEnds
  BY DEF Next, Handle, Closure, vars, Register, WriteRequest, RetryEnds, Crash,
         StartClosure, StartClosing, Judge, Act, Close, CrashCloser, GrowOld, Succeed,
         TimePasses, world, artifacts, Put, Leave
<1>2. CASE UNCHANGED diagnosis
  BY <1>2 DEF MetDiagnosed
<1>3. ASSUME NEW h \in Handler, CallAgent(h) PROVE MetDiagnosed'
  <2>1. PICK d : diagnosis' = [diagnosis EXCEPT ![job[h].request] = d]
    BY <1>3 DEF CallAgent, Put
  <2>2. pc[h] # "idle" /\ job[h].request \in Request
    BY <1>3 DEF CallAgent, Types, Job
  <2>3. \A r \in Request : r # job[h].request => diagnosis'[r] = diagnosis[r]
    BY <2>1 DEF Types
  <2>4. QED
    BY <2>2, <2>3 DEF MetInHand
<1>4. ASSUME NEW h \in Handler, QueueOnly(h) PROVE MetDiagnosed'
  <2>1. PICK d : diagnosis' = [diagnosis EXCEPT ![job[h].request] = d]
    BY <1>4 DEF QueueOnly, Put
  <2>2. pc[h] # "idle" /\ job[h].request \in Request
    BY <1>4 DEF QueueOnly, Types, Job
  <2>3. \A r \in Request : r # job[h].request => diagnosis'[r] = diagnosis[r]
    BY <2>1 DEF Types
  <2>4. QED
    BY <2>2, <2>3 DEF MetInHand
<1>5. ASSUME NEW h \in Handler, AgentEnds(h) PROVE MetDiagnosed'
  <2>1. PICK d : diagnosis' = [diagnosis EXCEPT ![job[h].request] = d]
    BY <1>5 DEF AgentEnds, Put
  <2>2. pc[h] # "idle" /\ job[h].request \in Request
    BY <1>5 DEF AgentEnds, Types, Job
  <2>3. \A r \in Request : r # job[h].request => diagnosis'[r] = diagnosis[r]
    BY <2>1 DEF Types
  <2>4. QED
    BY <2>2, <2>3 DEF MetInHand
<1>6. ASSUME NEW h \in Handler, Notify(h) PROVE MetDiagnosed'
  <2>1. PICK d : diagnosis' = [diagnosis EXCEPT ![job[h].request] = d]
    BY <1>6 DEF Notify, Put
  <2>2. pc[h] # "idle" /\ job[h].request \in Request
    BY <1>6 DEF Notify, Types, Job
  <2>3. \A r \in Request : r # job[h].request => diagnosis'[r] = diagnosis[r]
    BY <2>1 DEF Types
  <2>4. QED
    BY <2>2, <2>3 DEF MetInHand
<1>7. CASE Recover
  <2>1. PICK x \in closer.todo : \E d : diagnosis' = [diagnosis EXCEPT ![x.request] = d]
    BY <1>7 DEF Recover, InTurn
  <2>2. \A r \in Request : r # x.request => diagnosis'[r] = diagnosis[r]
    BY <2>1 DEF Types
  <2>3. QED
    BY <2>2 DEF MetInLine
<1>8. CASE RecoveryEnds
  <2>1. PICK d : diagnosis' = [diagnosis EXCEPT ![closer.request] = d]
    BY <1>8 DEF RecoveryEnds
  <2>2. \A r \in Request : r # closer.request => diagnosis'[r] = diagnosis[r]
    BY <2>1 DEF Types
  <2>3. Met(closer.request)
    BY <1>8 DEF RecoveryEnds, Called
  <2>4. QED
    BY <2>2, <2>3
<1>9. QED
  BY <1>1, <1>2, <1>3, <1>4, <1>5, <1>6, <1>7, <1>8

\* What the controller finds is filed, and so met.
LEMMA CandidatesMet ==
    ASSUME Types, MetFiles, MetDiagnosed
    PROVE  \A x \in AgentCandidates \cup ClosureCandidates : x.request \in Request /\ Met(x.request)
<1>1. \A i \in DOMAIN files : files[i] \in Request
  BY DEF Types
<1>2. \A x \in AgentCandidates \cup ClosureCandidates : x.request \in Request
  BY CandidatesStep DEF Entry
<1>3. \A x \in AgentCandidates : Met(x.request)
  BY CandidatesStep DEF MetFiles
<1>4. \A x \in ClosureCandidates : Met(x.request)
  BY <1>2, CandidatesStep DEF NeedsClosure, MetDiagnosed
<1>5. QED
  BY <1>2, <1>3, <1>4

\* ... and what is in the controller's line.
LEMMA MetInLineStep ==
    Types /\ MetFiles /\ MetDiagnosed /\ MetInLine /\ [Next]_vars => MetInLine'
<1> SUFFICES ASSUME Types, MetFiles, MetDiagnosed, MetInLine, [Next]_vars PROVE MetInLine'
  OBVIOUS
<1> RaisedKept
  BY RaisedStep
<1> \A x \in closer.todo : x.request \in Request
  BY DEF Types, Closers, Entry
<1> USE DEF MetInLine, RaisedKept
<1>1. \/ UNCHANGED closer
      \/ Closure \/ CrashCloser
  BY DEF Next, Handle, vars, Register, WriteRequest, CallAgent, QueueOnly, AgentEnds,
         Notify, RetryEnds, Crash, GrowOld, Succeed, TimePasses, world, artifacts, Put,
         Leave
<1>2. CASE UNCHANGED closer
  BY <1>2 DEF MetInLine
<1>3. CASE StartClosure
  <2>1. closer'.todo \in {AgentCandidates, ClosureCandidates}
    BY <1>3 DEF StartClosure, Types, Closers
  <2>2. QED
    BY <2>1, CandidatesMet
<1>4. CASE Recover
  <2>1. PICK x \in closer.todo : closer'.todo = closer.todo \ {x}
    BY <1>4, TurnStep DEF Recover, InTurn
  <2>2. QED
    BY <2>1
<1>5. CASE RecoveryEnds
  <2>1. closer'.todo = closer.todo
    BY <1>5 DEF RecoveryEnds, Types, Closers
  <2>2. QED
    BY <2>1
<1>6. CASE StartClosing
  <2>1. closer'.todo \in {AgentCandidates, ClosureCandidates}
    BY <1>6 DEF StartClosing, Types, Closers
  <2>2. QED
    BY <2>1, CandidatesMet
<1>7. CASE Judge
  <2>1. PICK x \in closer.todo : closer'.todo = closer.todo \ {x}
    BY <1>7, TurnStep DEF Judge, InTurn
  <2>2. QED
    BY <2>1
<1>8. CASE Act
  <2>1. PICK x \in closer.todo : closer'.todo = closer.todo \ {x}
    BY <1>8, TurnStep DEF Act, InTurn
  <2>2. QED
    BY <2>1
<1>9. CASE Close
  <2>1. closer'.todo = closer.todo
    BY <1>9 DEF Close, Types, Closers
  <2>2. QED
    BY <2>1
<1>10. CASE CrashCloser
  <2>1. closer'.todo = {}
    BY <1>10 DEF CrashCloser, Resting
  <2>2. QED
    BY <2>1
<1>11. QED
  BY <1>1, <1>2, <1>3, <1>4, <1>5, <1>6, <1>7, <1>8, <1>9, <1>10 DEF Closure

\* The controller calls the agent for something that was in its line.
LEMMA CalledStep == Types /\ MetInLine /\ Called /\ [Next]_vars => Called'
<1> SUFFICES ASSUME Types, MetInLine, Called, [Next]_vars PROVE Called'
  OBVIOUS
<1> RaisedKept
  BY RaisedStep
<1> closer.request \in Request /\ \A x \in closer.todo : x.request \in Request
  BY DEF Types, Closers, Entry
<1> USE DEF Called, RaisedKept
<1>1. \/ UNCHANGED closer
      \/ Closure \/ CrashCloser
  BY DEF Next, Handle, vars, Register, WriteRequest, CallAgent, QueueOnly, AgentEnds,
         Notify, RetryEnds, Crash, GrowOld, Succeed, TimePasses, world, artifacts, Put,
         Leave
<1>2. CASE UNCHANGED closer
  BY <1>2 DEF Called
<1>3. CASE StartClosure
  <2>1. closer'.at # "agent"
    BY <1>3 DEF StartClosure, Types, Closers
  <2>2. QED
    BY <2>1
<1>4. CASE Recover
  <2>1. PICK x \in closer.todo : closer' \in {Turn("agent", x), Past("recover", x)}
    BY <1>4 DEF Recover, InTurn
  <2>2. closer'.at = "agent" => closer'.request = x.request
    BY <2>1, TurnStep
  <2>3. QED
    BY <2>2 DEF MetInLine
<1>5. CASE RecoveryEnds
  <2>1. closer'.at # "agent"
    BY <1>5 DEF RecoveryEnds, Types, Closers
  <2>2. QED
    BY <2>1
<1>6. CASE StartClosing
  <2>1. closer'.at # "agent"
    BY <1>6 DEF StartClosing, Types, Closers
  <2>2. QED
    BY <2>1
<1>7. CASE Judge
  <2>1. closer'.at # "agent"
    BY <1>7, TurnStep DEF Judge, InTurn
  <2>2. QED
    BY <2>1
<1>8. CASE Act
  <2>1. closer'.at # "agent"
    BY <1>8, TurnStep DEF Act, InTurn
  <2>2. QED
    BY <2>1
<1>9. CASE Close
  <2>1. closer'.at # "agent"
    BY <1>9 DEF Close, Types, Closers
  <2>2. QED
    BY <2>1
<1>10. CASE CrashCloser
  <2>1. closer'.at # "agent"
    BY <1>10 DEF CrashCloser, Resting
  <2>2. QED
    BY <2>1
<1>11. QED
  BY <1>1, <1>2, <1>3, <1>4, <1>5, <1>6, <1>7, <1>8, <1>9, <1>10 DEF Closure

\* Who may still send an alert, and for what, changes in no other step than these.
Steady ==
    /\ alerts' = alerts
    /\ \A k \in Handler : Alerting(k)' => Alerting(k) /\ job'[k].request = job[k].request
AlertMoves ==
    \/ Steady
    \/ \E h \in Handler, r \in Request : Register(h, r)
    \/ \E h \in Handler : Notify(h)

\* Who may still send an alert changes in those steps only.
LEMMA AlertingStep == Types /\ [Next]_vars => AlertMoves
<1> SUFFICES ASSUME Types, [Next]_vars PROVE AlertMoves
  OBVIOUS
<1> /\ pc \in [Handler -> Labels] /\ job \in [Handler -> Job] /\ Daemon \in Handler
    /\ \A h \in Handler : job[h].request \in Request
  BY Constants DEF Types, Job
<1> USE DEF AlertMoves, Steady, Alerting
<1>1. \/ UNCHANGED <<alerts, pc, job>>
      \/ \E h \in Handler : Handle(h) \/ Crash(h)
      \/ \E h \in Handler, r \in Request : Register(h, r)
      \/ Act
  BY DEF Next, Closure, vars, StartClosure, Recover, RecoveryEnds, StartClosing, Judge,
         Close, CrashCloser, GrowOld, Succeed, TimePasses, world, artifacts, Put, Leave
<1>2. CASE UNCHANGED <<alerts, pc, job>>
  BY <1>2 DEF AlertMoves, Steady, Alerting
<1>3. ASSUME NEW h \in Handler, NEW r \in Request, Register(h, r) PROVE AlertMoves
  BY <1>3
<1>4. ASSUME NEW h \in Handler, WriteRequest(h) PROVE AlertMoves
  <2>1. /\ pc[h] = "registered" /\ pc' = [pc EXCEPT ![h] = "filed"]
        /\ UNCHANGED <<alerts, job>>
    BY <1>4 DEF WriteRequest
  <2>2. QED
    BY <2>1
<1>5. ASSUME NEW h \in Handler, CallAgent(h) PROVE AlertMoves
  <2>1. PICK d : /\ pc[h] = "filed" /\ pc' = [pc EXCEPT ![h] = "agent"]
                 /\ job' = [job EXCEPT ![h] = [job[h] EXCEPT !.got = d]] /\ alerts' = alerts
    BY <1>5 DEF CallAgent, Put
  <2>2. \A k \in Handler : job'[k].request = job[k].request
    BY <2>1 DEF Job
  <2>3. QED
    BY <2>1, <2>2
<1>6. ASSUME NEW h \in Handler, QueueOnly(h) PROVE AlertMoves
  <2>1. PICK d : /\ pc[h] = "filed" /\ pc' = [pc EXCEPT ![h] = "notify"]
                 /\ job' = [job EXCEPT ![h] = [job[h] EXCEPT !.got = d]] /\ alerts' = alerts
    BY <1>6 DEF QueueOnly, Put
  <2>2. \A k \in Handler : job'[k].request = job[k].request
    BY <2>1 DEF Job
  <2>3. QED
    BY <2>1, <2>2
<1>7. ASSUME NEW h \in Handler, AgentEnds(h) PROVE AlertMoves
  <2>1. PICK d : /\ pc[h] = "agent" /\ pc' = [pc EXCEPT ![h] = "notify"]
                 /\ job' = [job EXCEPT ![h] = [job[h] EXCEPT !.got = d]] /\ alerts' = alerts
    BY <1>7 DEF AgentEnds, Put
  <2>2. \A k \in Handler : job'[k].request = job[k].request
    BY <2>1 DEF Job
  <2>3. QED
    BY <2>1, <2>2
<1>8. ASSUME NEW h \in Handler, Notify(h) PROVE AlertMoves
  BY <1>8
<1>9. ASSUME NEW h \in Handler, RetryEnds(h) PROVE AlertMoves
  <2>1. pc' = [pc EXCEPT ![h] = "idle"] /\ job' = [job EXCEPT ![h] = NoJob] /\ UNCHANGED alerts
    BY <1>9 DEF RetryEnds, Leave, artifacts
  <2>2. QED
    BY <2>1
<1>10. ASSUME NEW h \in Handler, Crash(h) PROVE AlertMoves
  <2>1. pc' = [pc EXCEPT ![h] = "idle"] /\ job' = [job EXCEPT ![h] = NoJob] /\ UNCHANGED alerts
    BY <1>10 DEF Crash, Leave, world, artifacts
  <2>2. QED
    BY <2>1
<1>11. CASE Act
  <2>1. /\ \/ UNCHANGED <<pc, job>>
           \/ pc' = [pc EXCEPT ![Daemon] = "idle"] /\ job' = [job EXCEPT ![Daemon] = NoJob]
        /\ alerts' = alerts
    BY <1>11 DEF Act, Leave
  <2>2. QED
    BY <2>1
<1>12. QED
  BY <1>1, <1>2, <1>3, <1>4, <1>5, <1>6, <1>7, <1>8, <1>9, <1>10, <1>11 DEF Handle

\* The alert of a notification, and who sends it.
LEMMA NotifyStep ==
    ASSUME Types, NEW h \in Handler, Notify(h)
    PROVE  \E new \in Alert :
              /\ new.request = job[h].request /\ new.number = job[h].number
              /\ \/ alerts' = alerts
                 \/ ~job[h].dup /\ alerts' = Append(alerts, new)
              /\ \A i \in DOMAIN alerts' :
                    \/ i \in DOMAIN alerts /\ alerts'[i] = alerts[i]
                    \/ i = Len(alerts) + 1 /\ alerts'[i] = new /\ ~job[h].dup
              /\ pc[h] = "notify" /\ ~Alerting(h)'
              /\ \A k \in Handler : k # h => pc'[k] = pc[k] /\ job'[k] = job[k]
<1> DEFINE new == [number |-> job[h].number, request |-> job[h].request, at |-> now]
<1>1. PICK n : n = new
  OBVIOUS
<1>2. n \in Alert /\ n.request = job[h].request /\ n.number = job[h].number
  BY <1>1 DEF Types, Job, Alert
<1>3. alerts' = alerts \/ (~job[h].dup /\ alerts' = Append(alerts, n))
  BY <1>1 DEF Notify
<1>4. \/ pc' = [pc EXCEPT ![h] = "idle"] /\ job' = [job EXCEPT ![h] = NoJob]
      \/ pc' = [pc EXCEPT ![h] = "retry"] /\ job' = job
  BY DEF Notify, Leave
<1>5. pc[h] = "notify" /\ ~Alerting(h)' /\ \A k \in Handler : k # h => pc'[k] = pc[k] /\ job'[k] = job[k]
  BY <1>4 DEF Notify, Alerting, Types
<1>6. alerts \in Seq(Alert)
  BY DEF Types
<1> HIDE DEF new
<1>7. \A i \in DOMAIN alerts' :
          \/ i \in DOMAIN alerts /\ alerts'[i] = alerts[i]
          \/ i = Len(alerts) + 1 /\ alerts'[i] = n /\ ~job[h].dup
  <2>1. CASE alerts' = alerts
    BY <2>1
  <2>2. CASE ~job[h].dup /\ alerts' = Append(alerts, n)
    BY <1>2, <1>6, <2>2, Appended
  <2>3. QED
    BY <1>3, <2>1, <2>2
<1>8. QED
  BY <1>2, <1>3, <1>5, <1>7

\* An alert takes a call of its own.
LEMMA CountedStep ==
    Types /\ Bounded /\ MetInHand /\ MetAlerts /\ Counted /\ [Next]_vars => Counted'
<1> SUFFICES ASSUME Types, Bounded, MetInHand, MetAlerts, Counted,
                    [Next]_vars PROVE Counted'
  OBVIOUS
<1>1. /\ alerts \in Seq(Alert) /\ DOMAIN alerts = 1..Len(alerts) /\ Len(alerts) \in Nat
      /\ \A h \in Handler : job[h].request \in Request
  BY DEF Types, Job
<1>2. \A i \in DOMAIN alerts : alerts[i].request \in Request
  <2>1. \A i \in DOMAIN alerts : alerts[i] \in Alert
    BY <1>1
  <2>2. QED
    BY <2>1 DEF Alert
<1>3. \A q \in Request : Again(q) => Again(q)'
  BY RaisedStep DEF RaisedKept
<1>7. /\ \A h \in Handler : job'[h].request \in Request
      /\ \A i \in DOMAIN alerts' : alerts'[i].request \in Request
  <2>1. job' \in [Handler -> Job] /\ \A i \in DOMAIN alerts' : alerts'[i] \in Alert
    BY TypeStep DEF Types
  <2>2. QED
    BY <2>1 DEF Job, Alert
<1>8. \A q \in Request : Again(q)' <=> Len(raised'[q]) > 1
  BY DEF Again
<1>4. CASE Steady
  BY <1>1, <1>2, <1>3, <1>4, <1>7, <1>8 DEF Counted, Repeated, Repeating, Together, Steady, Again
<1>5. ASSUME NEW h \in Handler, NEW r \in Request, Register(h, r) PROVE Counted'
  <2>1. /\ alerts' = alerts /\ job'[h].request = r
        /\ \A k \in Handler : k # h => job'[k] = job[k] /\ pc'[k] = pc[k]
    BY <1>5 DEF Register, Types
  <2>2. Met(r) => Again(r)'
    BY <1>5, RegisterMeets
  <2>3. Repeated'
    BY <1>2, <1>3, <1>8, <2>1 DEF Counted, Repeated, Again
  <2>4. ASSUME NEW i \in DOMAIN alerts, NEW k \in Handler,
               NEW q \in Request, Alerting(k)', alerts[i].request = q, job'[k].request = q
        PROVE  Again(q)'
    <3>1. CASE k = h
      BY <2>1, <2>2, <2>4, <3>1 DEF MetAlerts
    <3>2. CASE k # h
      BY <1>1, <1>3, <2>1, <2>4, <3>2 DEF Counted, Repeating, Alerting
    <3>3. QED
      BY <3>1, <3>2
  <2>5. ASSUME NEW g \in Handler, NEW k \in Handler,
               NEW q \in Request, Alerting(g)', Alerting(k)', g # k,
               job'[g].request = q, job'[k].request = q
        PROVE  Again(q)'
    <3>1. CASE k = h \/ g = h
      <4>1. PICK l \in Handler :
          l # h /\ l \in {g, k} /\ job[l].request = r /\ pc[l] # "idle"
        BY <2>1, <2>5, <3>1 DEF Alerting
      <4>2. QED
        BY <2>1, <2>2, <2>5, <3>1, <4>1 DEF MetInHand
    <3>2. CASE k # h /\ g # h
      BY <1>1, <1>3, <2>1, <2>5, <3>2 DEF Counted, Together, Alerting
    <3>3. QED
      BY <3>1, <3>2
  <2>6. QED
    BY <1>7, <1>8, <2>1, <2>3, <2>4, <2>5 DEF Counted, Repeating, Together, Again
<1>6. ASSUME NEW h \in Handler, Notify(h) PROVE Counted'
  <2>1. PICK new \in Alert :
              /\ new.request = job[h].request
              /\ \A i \in DOMAIN alerts' :
                    \/ i \in DOMAIN alerts /\ alerts'[i] = alerts[i]
                    \/ i = Len(alerts) + 1 /\ alerts'[i] = new
              /\ pc[h] = "notify" /\ ~Alerting(h)'
              /\ \A k \in Handler : k # h => pc'[k] = pc[k] /\ job'[k] = job[k]
    BY <1>6, NotifyStep
  <2>2. Alerting(h) /\ \A k \in Handler : Alerting(k)' => k # h /\ Alerting(k) /\ job'[k] = job[k]
    BY <2>1 DEF Alerting
  <2>3. ASSUME NEW i \in DOMAIN alerts', NEW j \in DOMAIN alerts',
               NEW q \in Request, i < j, alerts'[i].request = q, alerts'[j].request = q
        PROVE  Again(q)'
    <3>1. i \in DOMAIN alerts /\ alerts'[i] = alerts[i]
      BY <1>1, <2>1, <2>3
    <3>2. CASE j \in DOMAIN alerts /\ alerts'[j] = alerts[j]
      BY <1>2, <1>3, <2>3, <3>1, <3>2 DEF Counted, Repeated
    <3>3. CASE alerts'[j] = new
      BY <1>1, <1>3, <2>1, <2>2, <2>3, <3>1, <3>3 DEF Counted, Repeating
    <3>4. QED
      BY <2>1, <3>2, <3>3
  <2>4. ASSUME NEW i \in DOMAIN alerts', NEW k \in Handler,
               NEW q \in Request, Alerting(k)', alerts'[i].request = q, job'[k].request = q
        PROVE  Again(q)'
    <3>1. k # h /\ Alerting(k) /\ job'[k] = job[k] /\ job[k].request \in Request
      BY <1>1, <2>2, <2>4
    <3>2. CASE i \in DOMAIN alerts /\ alerts'[i] = alerts[i]
      BY <1>3, <2>4, <3>1, <3>2 DEF Counted, Repeating
    <3>3. CASE alerts'[i] = new
      BY <1>3, <2>1, <2>2, <2>4, <3>1, <3>3 DEF Counted, Together
    <3>4. QED
      BY <2>1, <3>2, <3>3
  <2>5. Together'
    BY <1>1, <1>3, <1>8, <2>2 DEF Counted, Together, Again
  <2>6. QED
    BY <1>7, <1>8, <2>3, <2>4, <2>5 DEF Counted, Repeated, Repeating, Again
<1>9. QED
  BY <1>4, <1>5, <1>6, AlertingStep DEF AlertMoves

\* An alert gives the number of a row its request opened.
LEMMA AlertedStep == Types /\ Bounded /\ InHand /\ Alerted /\ [Next]_vars => Alerted'
<1> SUFFICES ASSUME Types, Bounded, InHand, Alerted, [Next]_vars PROVE Alerted'
  OBVIOUS
<1>1. \A r, n, d : Listed(r, n, d) => Listed(r, n, d)'
  BY CatalogStep DEF Listed, CatalogKept
<1>2. CASE alerts' = alerts
  BY <1>1, <1>2 DEF Alerted
<1>3. ASSUME NEW h \in Handler, Notify(h) PROVE Alerted'
  <2>1. PICK new \in Alert :
              /\ new.request = job[h].request /\ new.number = job[h].number
              /\ \A i \in DOMAIN alerts' :
                    \/ i \in DOMAIN alerts /\ alerts'[i] = alerts[i]
                    \/ i = Len(alerts) + 1 /\ alerts'[i] = new /\ ~job[h].dup
              /\ pc[h] = "notify"
    BY <1>3, NotifyStep
  <2>2. job[h].dup \in BOOLEAN /\ Listed(job[h].request, job[h].number, job[h].dup)
    BY <2>1 DEF InHand, Types, Job
  <2>3. ASSUME NEW i \in DOMAIN alerts'
        PROVE  \E a : alerts'[i] = a /\ Listed(a.request, a.number, FALSE)
    <3>1. CASE i \in DOMAIN alerts /\ alerts'[i] = alerts[i]
      BY <3>1 DEF Alerted
    <3>2. CASE alerts'[i] = new /\ ~job[h].dup
      BY <2>1, <2>2, <3>2
    <3>3. QED
      BY <2>1, <3>1, <3>2
  <2>4. \A i \in DOMAIN alerts' : \E a : alerts'[i] = a /\ Listed(a.request, a.number, FALSE)'
    BY <1>1, <2>3
  <2>5. QED
    BY <2>4 DEF Alerted
<1>4. ASSUME NEW h \in Handler, NEW r \in Request, Register(h, r) PROVE alerts' = alerts
  BY <1>4 DEF Register
<1>5. QED
  BY <1>2, <1>3, <1>4, AlertingStep DEF AlertMoves, Steady

\* Who is to write over the pending diagnosis of a request.
Waiting(h, r) == job[h].request = r /\ pc[h] \in {"agent", "notify"}
Cared(r) ==
    \/ \E h \in Handler : Waiting(h, r)
    \/ closer.at = "agent" /\ closer.request = r
    \/ r \in died

\* A pending diagnosis has its caller after the step as before.
LEMMA PendingStep == Types /\ InHand /\ PendingHasACaller /\ [Next]_vars => PendingHasACaller'
<1> SUFFICES ASSUME Types, InHand, PendingHasACaller, [Next]_vars,
                    NEW q \in Request, diagnosis'[q] = "pending"
             PROVE  Cared(q)'
  BY DEF PendingHasACaller, Cared, Waiting
<1> /\ pc \in [Handler -> Labels] /\ job \in [Handler -> Job] /\ Daemon \in Handler
    /\ diagnosis \in [Request -> Said] /\ \A h \in Handler : job[h].request \in Request
  BY Constants DEF Types, Job
<1>0. diagnosis[q] = "pending" => Cared(q)
  BY DEF PendingHasACaller, Cared, Waiting
<1>1. \/ UNCHANGED <<diagnosis, job, pc, closer, died>>
      \/ \E h \in Handler : Handle(h) \/ Crash(h)
      \/ \E h \in Handler, r \in Request : Register(h, r)
      \/ Closure \/ CrashCloser
  BY DEF Next, vars, GrowOld, Succeed, TimePasses, world, artifacts, Put, Leave
<1>2. CASE UNCHANGED <<diagnosis, job, pc, closer, died>>
  BY <1>2, <1>0 DEF Cared, Waiting
<1>3. ASSUME NEW h \in Handler, NEW r \in Request, Register(h, r) PROVE Cared(q)'
  <2>1. /\ pc[h] = "idle" /\ UNCHANGED <<diagnosis, closer, died>>
        /\ pc' = [pc EXCEPT ![h] = "registered"] /\ \A k \in Handler : k # h => job'[k] = job[k]
    BY <1>3 DEF Register, artifacts
  <2>2. \A k \in Handler : k # h => (Waiting(k, q) => Waiting(k, q)')
    BY <2>1 DEF Waiting
  <2>3. ~Waiting(h, q)
    BY <2>1 DEF Waiting
  <2>4. QED
    BY <1>0, <2>1, <2>2, <2>3 DEF Cared
<1>4. ASSUME NEW h \in Handler, WriteRequest(h) PROVE Cared(q)'
  <2>1. /\ pc[h] = "registered" /\ UNCHANGED <<diagnosis, closer, died>>
        /\ pc' = [pc EXCEPT ![h] = "filed"] /\ UNCHANGED job
    BY <1>4 DEF WriteRequest
  <2>2. \A k \in Handler : k # h => (Waiting(k, q) => Waiting(k, q)')
    BY <2>1 DEF Waiting
  <2>3. ~Waiting(h, q)
    BY <2>1 DEF Waiting
  <2>4. QED
    BY <1>0, <2>1, <2>2, <2>3 DEF Cared
<1>5. ASSUME NEW h \in Handler, CallAgent(h) PROVE Cared(q)'
  <2>1. PICK d : /\ pc[h] = "filed" /\ pc' = [pc EXCEPT ![h] = "agent"] /\ UNCHANGED <<closer, died>>
                 /\ job' = [job EXCEPT ![h] = [job[h] EXCEPT !.got = d]]
                 /\ diagnosis' = [diagnosis EXCEPT ![job[h].request] = d]
    BY <1>5 DEF CallAgent, Put
  <2>2. \A k \in Handler : job'[k].request = job[k].request
    BY <2>1 DEF Job
  <2>3. CASE q = job[h].request
    <3>1. Waiting(h, q)'
      BY <2>1, <2>2, <2>3 DEF Waiting
    <3>2. QED
      BY <3>1 DEF Cared
  <2>4. CASE q # job[h].request
    <3>1. \A k \in Handler : Waiting(k, q) => Waiting(k, q)'
      BY <2>1, <2>2, <2>4 DEF Waiting
    <3>2. diagnosis'[q] = diagnosis[q]
      BY <2>1, <2>4
    <3>3. QED
      BY <1>0, <2>1, <3>1, <3>2 DEF Cared
  <2>5. QED
    BY <2>3, <2>4
<1>6. ASSUME NEW h \in Handler, QueueOnly(h) PROVE Cared(q)'
  <2>1. PICK d : /\ pc[h] = "filed" /\ pc' = [pc EXCEPT ![h] = "notify"] /\ UNCHANGED <<closer, died>>
                 /\ job' = [job EXCEPT ![h] = [job[h] EXCEPT !.got = d]]
                 /\ diagnosis' = [diagnosis EXCEPT ![job[h].request] = d]
                 /\ d # "pending"
    BY <1>6 DEF QueueOnly, Put, Replies, Outcome, Completed
  <2>2. \A k \in Handler : job'[k].request = job[k].request
    BY <2>1 DEF Job
  <2>3. q # job[h].request /\ diagnosis'[q] = diagnosis[q]
    BY <2>1
  <2>4. \A k \in Handler : Waiting(k, q) => Waiting(k, q)'
    BY <2>1, <2>2, <2>3 DEF Waiting
  <2>5. QED
    BY <1>0, <2>1, <2>3, <2>4 DEF Cared
<1>7. ASSUME NEW h \in Handler, AgentEnds(h) PROVE Cared(q)'
  <2>1. PICK d : /\ pc[h] = "agent" /\ pc' = [pc EXCEPT ![h] = "notify"] /\ UNCHANGED <<closer, died>>
                 /\ job' = [job EXCEPT ![h] = [job[h] EXCEPT !.got = d]]
                 /\ diagnosis' = [diagnosis EXCEPT ![job[h].request] = d]
                 /\ d # "pending"
    BY <1>7 DEF AgentEnds, Put, Replies, Outcome, Completed
  <2>2. \A k \in Handler : job'[k].request = job[k].request
    BY <2>1 DEF Job
  <2>3. q # job[h].request /\ diagnosis'[q] = diagnosis[q]
    BY <2>1
  <2>4. \A k \in Handler : Waiting(k, q) => Waiting(k, q)'
    BY <2>1, <2>2, <2>3 DEF Waiting
  <2>5. QED
    BY <1>0, <2>1, <2>3, <2>4 DEF Cared
<1>8. ASSUME NEW h \in Handler, Notify(h) PROVE Cared(q)'
  <2>1. /\ pc[h] = "notify" /\ diagnosis' = [diagnosis EXCEPT ![job[h].request] = job[h].got]
        /\ UNCHANGED <<closer, died>>
        /\ \/ pc' = [pc EXCEPT ![h] = "idle"] /\ job' = [job EXCEPT ![h] = NoJob]
           \/ pc' = [pc EXCEPT ![h] = "retry"] /\ job' = job
    BY <1>8 DEF Notify, Leave
  <2>2. job[h].got # "pending"
    BY <2>1 DEF InHand, Outcome, Completed
  <2>3. q # job[h].request /\ diagnosis'[q] = diagnosis[q]
    BY <2>1, <2>2
  <2>4. \A k \in Handler : Waiting(k, q) => k # h /\ Waiting(k, q)'
    BY <2>1, <2>3 DEF Waiting
  <2>5. QED
    BY <1>0, <2>1, <2>3, <2>4 DEF Cared
<1>9. ASSUME NEW h \in Handler, RetryEnds(h) PROVE Cared(q)'
  <2>1. /\ pc[h] = "retry" /\ UNCHANGED <<diagnosis, closer, died>>
        /\ pc' = [pc EXCEPT ![h] = "idle"] /\ job' = [job EXCEPT ![h] = NoJob]
    BY <1>9 DEF RetryEnds, Leave, artifacts
  <2>2. \A k \in Handler : k # h => (Waiting(k, q) => Waiting(k, q)')
    BY <2>1 DEF Waiting
  <2>3. ~Waiting(h, q)
    BY <2>1 DEF Waiting
  <2>4. QED
    BY <1>0, <2>1, <2>2, <2>3 DEF Cared
<1>10. ASSUME NEW h \in Handler, Crash(h) PROVE Cared(q)'
  <2>1. \A k \in Handler : Waiting(k, q) => Waiting(k, q)' \/ (k = h /\ q \in died')
    BY <1>10 DEF Crash, Leave, world, artifacts, Waiting
  <2>2. diagnosis' = diagnosis /\ died \subseteq died' /\ (closer.at = "agent" => closer' = closer)
    BY <1>10 DEF Crash, Leave, world, artifacts
  <2>3. QED
    BY <1>0, <2>1, <2>2 DEF Cared
<1>11. CASE StartClosure
  <2>1. UNCHANGED <<diagnosis, pc, job, died>> /\ closer.at # "agent"
    BY <1>11 DEF StartClosure, world, artifacts
  <2>2. QED
    BY <1>0, <2>1 DEF Cared, Waiting
<1>12. CASE Recover
  <2>1. PICK x \in closer.todo :
              \/ /\ diagnosis' = [diagnosis EXCEPT ![x.request] = "pending"]
                 /\ closer' = Turn("agent", x)
              \/ diagnosis' = [diagnosis EXCEPT ![x.request] = "unanswered"]
    BY <1>12 DEF Recover, InTurn
  <2>2. x.request \in Request /\ Turn("agent", x).at = "agent" /\ Turn("agent", x).request = x.request
    BY TurnStep
  <2>3. UNCHANGED <<pc, job, died>> /\ closer.at # "agent"
    BY <1>12 DEF Recover
  <2>4. CASE q = x.request
    BY <2>1, <2>2, <2>4 DEF Cared
  <2>5. CASE q # x.request
    <3>1. diagnosis'[q] = diagnosis[q]
      BY <2>1, <2>5
    <3>2. QED
      BY <1>0, <2>3, <3>1 DEF Cared, Waiting
  <2>6. QED
    BY <2>4, <2>5
<1>13. CASE RecoveryEnds
  <2>1. PICK d : d # "pending" /\ diagnosis' = [diagnosis EXCEPT ![closer.request] = d]
    BY <1>13 DEF RecoveryEnds, Replies, Outcome, Completed
  <2>2. closer.request # q /\ UNCHANGED <<pc, job, died>>
    BY <1>13, <2>1 DEF RecoveryEnds
  <2>3. diagnosis'[q] = diagnosis[q]
    BY <2>1, <2>2
  <2>4. QED
    BY <1>0, <2>2, <2>3 DEF Cared, Waiting
<1>14. CASE StartClosing
  <2>1. UNCHANGED <<diagnosis, pc, job, died>> /\ closer.at # "agent"
    BY <1>14 DEF StartClosing, world, artifacts
  <2>2. QED
    BY <1>0, <2>1 DEF Cared, Waiting
<1>15. CASE Judge
  <2>1. UNCHANGED <<diagnosis, pc, job, died>> /\ closer.at # "agent"
    BY <1>15 DEF Judge, world
  <2>2. QED
    BY <1>0, <2>1 DEF Cared, Waiting
<1>16. CASE Act
  <2>1. \A k \in Handler : Waiting(k, q) => Waiting(k, q)' \/ (k = Daemon /\ q \in died')
    BY <1>16 DEF Act, Leave, world, artifacts, Waiting
  <2>2. diagnosis' = diagnosis /\ died \subseteq died' /\ (closer.at = "agent" => closer' = closer)
    BY <1>16 DEF Act, Leave, world, artifacts
  <2>3. QED
    BY <1>0, <2>1, <2>2 DEF Cared
<1>17. CASE Close
  <2>1. UNCHANGED <<diagnosis, pc, job, died>> /\ closer.at # "agent"
    BY <1>17 DEF Close, world
  <2>2. QED
    BY <1>0, <2>1 DEF Cared, Waiting
<1>18. CASE CrashCloser
  <2>1. UNCHANGED <<diagnosis, pc, job>> /\ died' = died \union {closer.request}
    BY <1>18 DEF CrashCloser, world, artifacts
  <2>2. QED
    BY <1>0, <2>1 DEF Cared, Waiting
<1>19. QED
  BY <1>1, <1>2, <1>3, <1>4, <1>5, <1>6, <1>7, <1>8, <1>9, <1>10, <1>11, <1>12, <1>13,
     <1>14, <1>15, <1>16, <1>17, <1>18 DEF Handle, Closure

\* The controller's line keeps out what is closed,
LEMMA LineIsOpenStep == Types /\ ActedInHand /\ LineIsOpen /\ [Next]_vars => LineIsOpen'
<1> SUFFICES ASSUME Types, ActedInHand, LineIsOpen, [Next]_vars PROVE LineIsOpen'
  OBVIOUS
<1>0. /\ closer.at \in {"recover", "agent", "close", "acted"} /\ closer.request \in Request
      /\ \A x \in closer.todo : x.request \in Request
  BY DEF Types, Closers, Entry
<1> USE DEF LineIsOpen
<1>1. \/ UNCHANGED <<closer, receipt>>
      \/ Closure \/ CrashCloser
  BY DEF Next, Handle, vars, Register, WriteRequest, CallAgent, QueueOnly, AgentEnds,
         Notify, RetryEnds, Crash, GrowOld, Succeed, TimePasses, world, artifacts, Put,
         Leave
<1>2. CASE UNCHANGED <<closer, receipt>>
  BY <1>2 DEF LineIsOpen
<1>3. CASE StartClosure
  <2>1. closer'.at = "close" => closer'.todo = ClosureCandidates
    BY <1>3 DEF StartClosure, Types, Closers
  <2>2. closer'.at # "acted" /\ receipt' = receipt
    BY <1>3 DEF StartClosure, world, artifacts, Types, Closers
  <2>3. QED
    BY <2>1, <2>2, CandidatesStep DEF NeedsClosure
<1>4. CASE Recover
  <2>1. closer'.at \in {"agent", "recover"}
    BY <1>4, TurnStep DEF Recover, InTurn
  <2>2. QED
    BY <2>1
<1>5. CASE RecoveryEnds
  <2>1. closer'.at = "recover"
    BY <1>5 DEF RecoveryEnds, Types, Closers
  <2>2. QED
    BY <2>1
<1>6. CASE StartClosing
  <2>1. closer'.at = "close" => closer'.todo = ClosureCandidates
    BY <1>6 DEF StartClosing, Types, Closers
  <2>2. closer'.at # "acted" /\ receipt' = receipt
    BY <1>6 DEF StartClosing, world, artifacts, Types, Closers
  <2>3. QED
    BY <2>1, <2>2, CandidatesStep DEF NeedsClosure
<1>7. CASE Judge
  <2>1. PICK x \in closer.todo :
              /\ closer' = Past("close", x)
              /\ \/ receipt' = receipt
                 \/ receipt' = [receipt EXCEPT ![x.request] = Verdict(x.request)]
    BY <1>7 DEF Judge, InTurn
  <2>2. closer'.todo = closer.todo \ {x} /\ closer.at = "close"
    BY <1>7, <2>1, TurnStep DEF Judge
  <2>3. \A y \in closer'.todo : y \in closer.todo /\ y.request # x.request
    BY <2>2
  <2>4. \A r \in Request : r # x.request => receipt'[r] = receipt[r]
    BY <2>1 DEF Types
  <2>5. \A y \in closer'.todo : receipt'[y.request] = receipt[y.request]
    BY <1>0, <2>3, <2>4
  <2>6. QED
    BY <2>2, <2>3, <2>5
<1>8. CASE Act
  <2>1. PICK x \in closer.todo : closer'.todo = closer.todo \ {x}
    BY <1>8, TurnStep DEF Act, InTurn
  <2>2. closer.at = "close" /\ receipt' = receipt
    BY <1>8 DEF Act, artifacts
  <2>3. QED
    BY <2>1, <2>2
<1>9. CASE Close
  <2>1. /\ closer.at = "acted" /\ closer'.todo = closer.todo
        /\ \E v : receipt' = [receipt EXCEPT ![closer.request] = v]
    BY <1>9 DEF Close, Types, Closers
  <2>2. \A x \in closer.todo : receipt'[x.request] = receipt[x.request]
    BY <1>0, <2>1 DEF ActedInHand
  <2>3. QED
    BY <2>1, <2>2
<1>10. CASE CrashCloser
  <2>1. closer'.todo = {}
    BY <1>10 DEF CrashCloser, Resting
  <2>2. QED
    BY <2>1
<1>11. QED
  BY <1>1, <1>2, <1>3, <1>4, <1>5, <1>6, <1>7, <1>8, <1>9, <1>10 DEF Closure

\* ... and the request whose repair is being acted on.
LEMMA ActedInHandStep == Types /\ LineIsOpen /\ ActedInHand /\ [Next]_vars => ActedInHand'
<1> SUFFICES ASSUME Types, LineIsOpen, ActedInHand, [Next]_vars PROVE ActedInHand'
  OBVIOUS
<1>0. /\ closer.at \in {"recover", "agent", "close", "acted"} /\ closer.request \in Request
      /\ \A x \in closer.todo : x.request \in Request
  BY DEF Types, Closers, Entry
<1> USE DEF ActedInHand
<1>1. \/ UNCHANGED <<closer, acted>>
      \/ Closure \/ CrashCloser
  BY DEF Next, Handle, vars, Register, WriteRequest, CallAgent, QueueOnly, AgentEnds,
         Notify, RetryEnds, Crash, GrowOld, Succeed, TimePasses, world, artifacts, Put,
         Leave
<1>2. CASE UNCHANGED <<closer, acted>>
  BY <1>2 DEF ActedInHand
<1>3. CASE StartClosure
  <2>1. closer'.at # "acted"
    BY <1>3 DEF StartClosure, Types, Closers
  <2>2. QED
    BY <2>1
<1>4. CASE Recover
  <2>1. closer'.at # "acted"
    BY <1>4, TurnStep DEF Recover, InTurn
  <2>2. QED
    BY <2>1
<1>5. CASE RecoveryEnds
  <2>1. closer'.at # "acted"
    BY <1>5 DEF RecoveryEnds, Types, Closers
  <2>2. QED
    BY <2>1
<1>6. CASE StartClosing
  <2>1. closer'.at # "acted"
    BY <1>6 DEF StartClosing, Types, Closers
  <2>2. QED
    BY <2>1
<1>7. CASE Judge
  <2>1. closer'.at # "acted"
    BY <1>7, TurnStep DEF Judge, InTurn
  <2>2. QED
    BY <2>1
<1>8. CASE Act
  <2>1. PICK x \in closer.todo :
              /\ closer' = Turn("acted", x)
              /\ acted' = [acted EXCEPT ![x.request] = acted[x.request] + 1]
    BY <1>8 DEF Act, InTurn
  <2>2. closer'.todo = closer.todo \ {x} /\ closer'.request = x.request
    BY <2>1, TurnStep
  <2>3. closer.at = "close" /\ acted \in [Request -> Nat] /\ x.request \in Request
    BY <1>8, <1>0 DEF Act, Types
  <2>4. acted'[x.request] > 0
    BY <2>1, <2>3
  <2>5. QED
    BY <2>2, <2>3, <2>4 DEF LineIsOpen
<1>9. CASE Close
  <2>1. closer'.at # "acted"
    BY <1>9 DEF Close, Types, Closers
  <2>2. QED
    BY <2>1
<1>10. CASE CrashCloser
  <2>1. closer'.at # "acted"
    BY <1>10 DEF CrashCloser, Resting
  <2>2. QED
    BY <2>1
<1>11. QED
  BY <1>1, <1>2, <1>3, <1>4, <1>5, <1>6, <1>7, <1>8, <1>9, <1>10 DEF Closure

\* What a request that was acted on has to show.
LEMMA ShowsStep ==
    Types /\ (\A r \in Request : Shows(r)) /\ [Next]_vars => (\A r \in Request : Shows(r))'
<1> SUFFICES ASSUME Types, \A r \in Request : Shows(r), [Next]_vars,
                    NEW q \in Request
             PROVE  Shows(q)'
  BY DEF Shows
<1>0. Shows(q) /\ receipt \in [Request -> Closures] /\ acted \in [Request -> Nat]
  BY DEF Types
<1>1. \/ UNCHANGED <<closer, receipt, acted, died>>
      \/ \E h \in Handler : Crash(h)
      \/ Closure \/ CrashCloser
  <2>1. CASE vars' = vars
    BY <2>1 DEF vars
  <2>2. ASSUME NEW h \in Handler, Handle(h) PROVE UNCHANGED <<closer, receipt, acted, died>>
    BY <2>2 DEF Handle, WriteRequest, CallAgent, QueueOnly, AgentEnds, Notify, RetryEnds,
                world, artifacts, Put, Leave
  <2>3. ASSUME NEW h \in Handler, NEW r \in Request, Register(h, r)
        PROVE  UNCHANGED <<closer, receipt, acted, died>>
    BY <2>3 DEF Register, artifacts
  <2>4. ASSUME \/ \E r \in Request : GrowOld(r)
               \/ \E p \in Fingerprints : Succeed(p)
               \/ TimePasses
        PROVE  UNCHANGED <<closer, receipt, acted, died>>
    BY <2>4 DEF GrowOld, Succeed, TimePasses, world, artifacts
  <2>5. QED
    BY <2>1, <2>2, <2>3, <2>4 DEF Next
<1>2. CASE UNCHANGED <<closer, receipt, acted, died>>
  BY <1>2, <1>0 DEF Shows
<1>3. ASSUME NEW h \in Handler, Crash(h) PROVE Shows(q)'
  <2>1. UNCHANGED <<closer, receipt, acted>> /\ died \subseteq died'
    BY <1>3 DEF Crash, Leave, world, artifacts
  <2>2. QED
    BY <1>0, <2>1 DEF Shows
<1>4. CASE StartClosure
  <2>1. UNCHANGED <<receipt, acted, died>> /\ closer.at # "acted"
    BY <1>4 DEF StartClosure, artifacts
  <2>2. QED
    BY <1>0, <2>1 DEF Shows
<1>5. CASE Recover
  <2>1. UNCHANGED <<receipt, acted, died>> /\ closer.at # "acted"
    BY <1>5 DEF Recover, artifacts
  <2>2. QED
    BY <1>0, <2>1 DEF Shows
<1>6. CASE RecoveryEnds
  <2>1. UNCHANGED <<receipt, acted, died>> /\ closer.at # "acted"
    BY <1>6 DEF RecoveryEnds, artifacts
  <2>2. QED
    BY <1>0, <2>1 DEF Shows
<1>7. CASE StartClosing
  <2>1. UNCHANGED <<receipt, acted, died>> /\ closer.at # "acted"
    BY <1>7 DEF StartClosing, artifacts
  <2>2. QED
    BY <1>0, <2>1 DEF Shows
<1>8. CASE Judge
  <2>1. /\ UNCHANGED <<acted, died>> /\ closer.at # "acted"
        /\ \/ receipt' = receipt
           \/ \E r, v : v # "none" /\ receipt' = [receipt EXCEPT ![r] = v]
    BY <1>8 DEF Judge, Verdict
  <2>2. receipt[q] # "none" => receipt'[q] # "none"
    <3>1. \A r : Verdict(r) # "none"
      BY DEF Verdict
    <3>2. QED
      BY <1>0, <2>1, <3>1
  <2>3. QED
    BY <1>0, <2>1, <2>2 DEF Shows
<1>9. CASE Act
  <2>1. PICK x \in closer.todo :
              /\ closer' = Turn("acted", x)
              /\ acted' = [acted EXCEPT ![x.request] = acted[x.request] + 1]
    BY <1>9 DEF Act, InTurn
  <2>2. receipt' = receipt /\ died \subseteq died' /\ closer.at = "close"
    BY <1>9 DEF Act, artifacts
  <2>3. CASE q = x.request
    BY <2>1, <2>3, TurnStep DEF Shows
  <2>4. CASE q # x.request
    <3>1. acted'[q] = acted[q]
      BY <1>0, <2>1, <2>4
    <3>2. QED
      BY <1>0, <2>2, <3>1 DEF Shows
  <2>5. QED
    BY <2>3, <2>4
<1>10. CASE Close
  <2>1. /\ UNCHANGED <<acted, died>> /\ closer.at = "acted"
        /\ \E v : v # "none" /\ receipt' = [receipt EXCEPT ![closer.request] = v]
    BY <1>10 DEF Close
  <2>2. (receipt[q] # "none" \/ closer.request = q) => receipt'[q] # "none"
    BY <1>0, <2>1
  <2>3. QED
    BY <1>0, <2>1, <2>2 DEF Shows
<1>11. CASE CrashCloser
  <2>1. UNCHANGED <<receipt, acted>> /\ died' = died \union {closer.request}
    BY <1>11 DEF CrashCloser, world, artifacts
  <2>2. QED
    BY <1>0, <2>1 DEF Shows
<1>12. QED
  BY <1>1, <1>2, <1>3, <1>4, <1>5, <1>6, <1>7, <1>8, <1>9, <1>10, <1>11 DEF Closure

\* It is not acted on again: its receipt is there, or the controller died before it was.
LEMMA ActedOnceStep == Types /\ Closing /\ ActedOnce /\ [Next]_vars => ActedOnce'
<1> SUFFICES ASSUME Types, Closing, ActedOnce, [Next]_vars,
                    NEW q \in Request
             PROVE  (acted[q] > 1 => q \in died)'
  BY DEF ActedOnce
<1>0. (acted[q] > 1 => q \in died) /\ acted \in [Request -> Nat]
  BY DEF ActedOnce, Types
<1>1. \/ UNCHANGED <<acted, died>>
      \/ \E h \in Handler : Crash(h)
      \/ Act \/ CrashCloser
  BY DEF Next, Handle, Closure, vars, Register, WriteRequest, CallAgent, QueueOnly,
         AgentEnds, Notify, RetryEnds, StartClosure, Recover, RecoveryEnds,
         StartClosing, Judge, Close, GrowOld, Succeed, TimePasses, world, artifacts,
         Put, Leave
<1>2. CASE UNCHANGED <<acted, died>>
  BY <1>2, <1>0 DEF ActedOnce
<1>3. ASSUME NEW h \in Handler, Crash(h) PROVE (acted[q] > 1 => q \in died)'
  <2>1. UNCHANGED acted /\ died \subseteq died'
    BY <1>3 DEF Crash, Leave, world, artifacts
  <2>2. QED
    BY <1>0, <2>1
<1>4. CASE Act
  <2>1. PICK x \in closer.todo :
              /\ Verdict(x.request) = "act"
              /\ acted' = [acted EXCEPT ![x.request] = acted[x.request] + 1]
    BY <1>4 DEF Act, InTurn
  <2>2. died \subseteq died' /\ closer.at = "close"
    BY <1>4 DEF Act
  <2>3. CASE q = x.request
    <3>1. receipt[q] \in Closures /\ receipt[q] # "closed" /\ receipt[q] # "blocked"
      BY <2>1, <2>2, <2>3 DEF Closing, LineIsOpen, Verdict, Types
    <3>2. acted[q] > 0 => q \in died
      BY <2>2, <3>1 DEF Closing, Shows, Closures
    <3>3. acted'[q] = acted[q] + 1 /\ acted[q] \in Nat
      BY <1>0, <2>1, <2>3
    <3>4. QED
      BY <2>2, <3>2, <3>3
  <2>4. CASE q # x.request
    BY <1>0, <2>1, <2>2, <2>4
  <2>5. QED
    BY <2>3, <2>4
<1>5. CASE CrashCloser
  <2>1. UNCHANGED acted /\ died \subseteq died'
    BY <1>5 DEF CrashCloser, world, artifacts
  <2>2. QED
    BY <1>0, <2>1
<1>6. QED
  BY <1>1, <1>2, <1>3, <1>4, <1>5

\* The invariant holds at the start.
LEMMA InitialState == Init => IInv
<1> SUFFICES ASSUME Init PROVE IInv
  OBVIOUS
<1>1. NoJob \in Job /\ Resting \in Closers /\ Order[1] \in Request
  BY Constants DEF NoJob, Job, Said, Resting, Closers
<1>2. [raises |-> MaxRaises, upsets |-> MaxUpsets] \in Budgets
  BY Constants DEF Budgets
<1>3. Types
  BY <1>1, <1>2, Constants DEF Init, Types, Said, Labels, Closures
<1>4. catalog = <<>> /\ alerts = <<>> /\ files = <<>>
  BY DEF Init
<1>5. DOMAIN catalog = {} /\ DOMAIN alerts = {} /\ DOMAIN files = {}
  BY <1>4
<1>6. /\ \A h \in Handler : pc[h] = "idle"
      /\ \A r \in Request : diagnosis[r] = "none" /\ acted[r] = 0
      /\ closer.todo = {} /\ closer.at = "close"
  BY DEF Init, Resting
<1>7. NumberIsOneError /\ Bounded /\ Alerted
  BY <1>5 DEF NumberIsOneError, Bounded, Alerted
<1>8. InHand /\ AllMet
  BY <1>5, <1>6 DEF InHand, AllMet, MetInHand, MetAlerts, MetFiles, MetDiagnosed, MetInLine,
                    Called
<1>9. Counted
  BY <1>5, <1>6 DEF Counted, Repeated, Repeating, Together, Alerting
<1>10. PendingHasACaller /\ Closing /\ ActedOnce
  BY <1>6 DEF PendingHasACaller, Closing, LineIsOpen, ActedInHand, Shows, ActedOnce
<1>11. QED
  BY <1>3, <1>7, <1>8, <1>9, <1>10, TypeFacts DEF IInv

\* The invariant the theorems rest on, for any requests, handlers, windows and limits.
THEOREM ErrorInvariant == Spec => []IInv
<1>1. Init => IInv
  BY InitialState
<1>2. IInv /\ [Next]_vars => IInv'
  <2> SUFFICES ASSUME IInv, [Next]_vars PROVE IInv'
    OBVIOUS
  <2>1. Types /\ Bounded /\ NumberIsOneError /\ InHand
    BY TypeFacts DEF IInv
  <2>2. Types' /\ Bounded'
    BY <2>1, TypeStep, NumberStep
  <2>3. TypeOK'
    BY <2>2 DEF TypeOK, Types, CatalogRow, Said, Labels, Job, Closers, Entry, Alert, Budgets, Closures
  <2>4. NumberIsOneError' /\ InHand' /\ Alerted' /\ PendingHasACaller'
    BY <2>1, NumberStep, InHandStep, AlertedStep, PendingStep DEF IInv
  <2>5. AllMet'
    BY <2>1, MetInHandStep, MetAlertsStep, MetFilesStep, MetDiagnosedStep, MetInLineStep,
       CalledStep DEF IInv, AllMet
  <2>6. Counted'
    BY <2>1, CountedStep DEF IInv, AllMet
  <2>7. Closing' /\ ActedOnce'
    BY <2>1, LineIsOpenStep, ActedInHandStep, ShowsStep, ActedOnceStep DEF IInv, Closing
  <2>8. QED
    BY <2>2, <2>3, <2>4, <2>5, <2>6, <2>7 DEF IInv
<1>3. QED
  BY <1>1, <1>2, PTL DEF Spec

\* Every variable of handlers and controller keeps its type.
THEOREM TypeCorrect == Spec => []TypeOK
<1>1. IInv => TypeOK
  BY DEF IInv
<1>2. QED
  BY <1>1, ErrorInvariant, PTL

\* A number stands for one error, and the owner is called again for it only when its
\* request was raised again (register_error_in_catalog, handle_server_error).
THEOREM NumbersHold == Spec => []NumbersAreKept
<1>1. IInv => NumbersAreKept
  <2> SUFFICES ASSUME IInv,
                      NEW i \in DOMAIN alerts, NEW j \in DOMAIN alerts,
                      i < j, alerts[i].number = alerts[j].number
               PROVE  alerts[i].request = alerts[j].request /\ Again(alerts[i].request)
    BY DEF NumbersAreKept, AlertsRepeatOnlyOnReraise, IInv, Again
  <2>1. PICK a \in DOMAIN catalog :
           /\ catalog[a].request = alerts[i].request
           /\ catalog[a].number = alerts[i].number /\ ~catalog[a].dup
    BY DEF IInv, Alerted, Listed
  <2>2. PICK b \in DOMAIN catalog :
           /\ catalog[b].request = alerts[j].request
           /\ catalog[b].number = alerts[j].number /\ ~catalog[b].dup
    BY DEF IInv, Alerted, Listed
  <2>3. /\ DOMAIN catalog \subseteq Nat
        /\ \A n \in DOMAIN catalog : catalog[n].number \in Nat
    <3>1. catalog \in Seq(CatalogRow)
      BY TypeFacts DEF IInv, Types
    <3>2. \A n \in DOMAIN catalog : catalog[n] \in CatalogRow
      BY <3>1
    <3>3. QED
      BY <3>1, <3>2 DEF CatalogRow
  <2>4. a = b
    BY <2>1, <2>2, <2>3 DEF IInv, NumberIsOneError
  <2>5. QED
    BY <2>1, <2>2, <2>4 DEF IInv, Counted, Repeated
<1>2. QED
  BY <1>1, ErrorInvariant, PTL

\* No diagnosis is left at "runner call pending" with nobody waiting for the runner,
\* unless who waited was killed (handle_server_error, run_agent_diagnosis).
THEOREM PendingIsWaitedFor == Spec => []PendingHasACaller
<1>1. IInv => PendingHasACaller
  BY DEF IInv
<1>2. QED
  BY <1>1, ErrorInvariant, PTL

\* Pushes and the restart are done once for a request, unless the controller died
\* between them and the receipt (close_agent_repair).
THEOREM RepairsAreActedOnOnce == Spec => []ActedOnce
<1>1. IInv => ActedOnce
  BY DEF IInv
<1>2. QED
  BY <1>1, ErrorInvariant, PTL

\* Evidence of success is there from the day an error was raised.
LEMMA EvidenceIsSuccess ==
    ASSUME Types, NEW r \in Request, Met(r), Evidence(r)
    PROVE  good[Fingerprint[r]] > 0
<1>1. /\ raised[r] \in Seq(1..MaxTime) /\ Len(raised[r]) > 0 /\ MaxTime \in Nat
      /\ good[Fingerprint[r]] \in 0..MaxTime
  BY Constants DEF Types, Met
<1>2. Last(raised[r]) \in 1..MaxTime
  BY <1>1 DEF Last
<1>3. good[Fingerprint[r]] > 0 \/ good[Fingerprint[r]] >= Last(raised[r])
  BY DEF Evidence
<1>4. QED
  BY <1>1, <1>2, <1>3

\* A receipt is written by the controller, on its verdict or after its actions.
ReceiptKept ==
    \/ UNCHANGED receipt
    \/ Judge
    \/ Close

\* Only the judge and a closure write a receipt.
LEMMA ReceiptStep == [Next]_vars => ReceiptKept
<1> SUFFICES ASSUME [Next]_vars PROVE ReceiptKept
  OBVIOUS
<1>1. \/ UNCHANGED receipt
      \/ Judge \/ Close
  BY DEF Next, Handle, Closure, vars, Register, WriteRequest, CallAgent, QueueOnly,
         AgentEnds, Notify, RetryEnds, Crash, StartClosure, Recover, RecoveryEnds,
         StartClosing, Act, CrashCloser, GrowOld, Succeed, TimePasses, world,
         artifacts, Put, Leave
<1>2. CASE UNCHANGED receipt
  BY <1>2 DEF ReceiptKept
<1>3. CASE Judge
  BY <1>3 DEF ReceiptKept
<1>4. CASE Close
  BY <1>4 DEF ReceiptKept
<1>5. QED
  BY <1>1, <1>2, <1>3, <1>4

\* A closed request has been acted upon, needed nothing, or its work has succeeded
\* (close_agent_repair).
THEOREM ClosuresHaveCause == Spec => ClosedHasCause
<1> DEFINE Caused ==
        \A r \in Request : (receipt[r] # "closed" /\ receipt'[r] = "closed") =>
            acted'[r] > 0 \/ good[Fingerprint[r]] > 0 \/ diagnosis[r] = "noaction"
<1>1. IInv /\ [Next]_vars => Caused
  <2> SUFFICES ASSUME IInv, [Next]_vars,
                      NEW r \in Request, receipt[r] # "closed", receipt'[r] = "closed"
               PROVE  acted'[r] > 0 \/ good[Fingerprint[r]] > 0 \/ diagnosis[r] = "noaction"
    OBVIOUS
  <2>1. Types /\ MetInLine /\ ActedInHand
    BY TypeFacts DEF IInv, AllMet, Closing
  <2>2. CASE Judge
    <3>1. PICK x \in closer.todo : receipt' = IF Verdict(x.request) = "pending" THEN receipt
                                       ELSE [receipt EXCEPT ![x.request] = Verdict(x.request)]
      BY <2>2 DEF Judge, InTurn
    <3>2. x.request = r /\ Verdict(r) = "closed"
      BY <2>1, <3>1 DEF Types
    <3>3. Met(r)
      BY <2>1, <3>2 DEF MetInLine
    <3>4. Evidence(r) \/ RegisterResolved(r) \/ diagnosis[r] = "noaction"
      BY <3>2 DEF Verdict
    <3>5. QED
      BY <2>1, <3>3, <3>4, EvidenceIsSuccess DEF RegisterResolved
  <2>3. CASE Close
    <3>1. PICK v : receipt' = [receipt EXCEPT ![closer.request] = v]
      BY <2>3 DEF Close
    <3>2. closer.request = r /\ closer.at = "acted" /\ acted' = acted
      BY <2>1, <2>3, <3>1 DEF Close, Types
    <3>3. QED
      BY <2>1, <3>2 DEF ActedInHand
  <2>4. QED
    BY <2>2, <2>3, ReceiptStep DEF ReceiptKept
<1>2. IInv /\ [Next]_vars => [Caused]_vars
  BY <1>1
<1> HIDE DEF Caused
<1>3. Spec => [][Caused]_vars
  BY <1>2, ErrorInvariant, PTL DEF Spec
<1>4. QED
  BY <1>3 DEF ClosedHasCause, Caused

\* The requests are finite.
LEMMA RequestsAreFinite == IsFiniteSet(Request)
<1> DEFINE f == [i \in 1..Len(Order) |-> Order[i]]
<1>1. Len(Order) \in Nat /\ DOMAIN Order = 1..Len(Order)
  BY Constants
<1>2. f \in Surjection(1..Len(Order), Request)
  BY <1>1 DEF Request, ToSet, Surjection
<1>3. IsFiniteSet(1..Len(Order))
  BY <1>1, FS_Interval
<1>4. QED
  BY <1>2, <1>3, FS_Surjection

\* A request that nobody is at work on waits for a run of the controller, or is one of
\* those the code forgets (discover_agent_diagnosis_candidates, discover_closure_candidates).
THEOREM OnlyTheForgottenWait == Spec => []OnlyForgottenWait
<1>1. IInv => OnlyForgottenWait
  <2> SUFFICES ASSUME IInv, NEW r \in Request, Waits(r), ~Forgotten(r)
               PROVE  \/ NeedsAgent(r)
                      \/ (\E x \in ClosureCandidates : x.request = r) /\ Verdict(r) # "pending"
    BY DEF OnlyForgottenWait
  <2>1. Filed(r) /\ receipt[r] = "none" /\ diagnosis[r] # "unanswered"
    BY DEF Waits, Forgotten
  <2>2. diagnosis[r] \in Outcome \union {"none", "pending"}
    BY DEF IInv, TypeOK
  <2>3. CASE diagnosis[r] \in {"none", "pending"}
    BY <2>1, <2>3 DEF Forgotten, NeedsAgent
  <2>4. CASE diagnosis[r] \in Completed
    <3> DEFINE line == {InLine(Order[i], i) : i \in {j \in DOMAIN Order : NeedsClosure(Order[j])}}
               sooner == {q \in Request : Before(q, r) /\ NeedsClosure(q)}
    <3>1. NeedsClosure(r)
      BY <2>1, <2>4 DEF NeedsClosure, Completed
    <3>2. PICK n \in DOMAIN Order : Order[n] = r
      BY DEF Request, ToSet
    <3>3. IsFiniteSet(sooner) /\ Cardinality(sooner) \in Nat /\ Cardinality(sooner) < Limit
      <4>1. IsFiniteSet(Request)
        BY RequestsAreFinite
      <4>2. IsFiniteSet(sooner)
        BY <4>1, FS_Subset
      <4>3. Cardinality(sooner) \in Nat
        BY <4>2, FS_CardinalityType
      <4>4. Cardinality(sooner) < Limit
        BY <4>3, Constants DEF Forgotten
      <4>5. QED
        BY <4>2, <4>3, <4>4
    <3>4. \A y \in line : \E i \in DOMAIN Order :
              /\ y = InLine(Order[i], i) /\ y.request = Order[i] /\ y.place = i
              /\ NeedsClosure(Order[i]) /\ Order[i] \in Request
      BY Constants DEF InLine
    <3> DEFINE x == InLine(r, n)
               ahead == {y \in line : y.place < x.place}
               who == [y \in ahead |-> y.request]
    <3>5. x \in line /\ x.request = r /\ x.place = n
      BY <3>1, <3>2 DEF InLine
    <3> HIDE DEF line
    <3>6. ASSUME NEW y \in ahead PROVE y.request \in sooner
      BY <3>2, <3>4, <3>5 DEF Before
    <3>7. ASSUME NEW y \in ahead, NEW z \in ahead, y.request = z.request PROVE y = z
      BY <3>4, <3>7, Constants
    <3> HIDE DEF ahead, sooner
    <3>8. who \in Injection(ahead, sooner)
      BY <3>6, <3>7 DEF Injection, IsInjective
    <3>9. IsFiniteSet(ahead) /\ Cardinality(ahead) <= Cardinality(sooner)
      BY <3>3, <3>8, FS_Injection
    <3>10. Cardinality(ahead) < Limit
      BY <3>3, <3>9, FS_CardinalityType, Constants
    <3>11. x \in ClosureCandidates
      BY <3>5, <3>10 DEF ClosureCandidates, FirstOf, line, ahead
    <3>12. Verdict(r) # "pending"
      BY <2>4 DEF Verdict
    <3>13. QED
      BY <3>5, <3>11, <3>12
  <2>5. QED
    BY <2>1, <2>2, <2>3, <2>4 DEF Outcome
<1>2. QED
  BY <1>1, ErrorInvariant, PTL

-----------------------------------------------------------------------------
\* The fold of sizes over no rows and over one.
LEMMA SizeOfNone == SizeOf(<<>>) = 0
<1> DEFINE S == DOMAIN <<>>
<1>0. S = {}
  OBVIOUS
<1> DEFINE G(f) == [s \in SUBSET S |-> IF s = {} THEN 0 ELSE <<>>[CHOOSE x \in s : TRUE].size + f[s \ {CHOOSE x \in s : TRUE}]]
           h == [s \in SUBSET S |-> 0]
           fold == CHOOSE f : f = G(f)
<1>1. h = G(h)
  BY <1>0
<1>2. SizeOf(<<>>) = fold[S]
  BY DEF SizeOf, FoldSeq, FoldFunction, FoldFunctionOnSet, MapThenFoldSet
<1>3. fold = G(fold)
  <2> HIDE DEF G, h
  <2> QED BY <1>1
<1> HIDE DEF fold
<1>4. G(fold)[S] = 0
  BY <1>0
<1>5. QED
  BY <1>2, <1>3, <1>4

\* The size of one row.
LEMMA SizeOfOne == ASSUME NEW r, r.size \in Nat PROVE SizeOf(<<r>>) = r.size
<1> DEFINE S == DOMAIN <<r>>
<1>0. S = {1} /\ SUBSET S = {{}, {1}} /\ <<r>>[1] = r
  OBVIOUS
<1> DEFINE G(f) == [s \in SUBSET S |-> IF s = {} THEN 0 ELSE <<r>>[CHOOSE x \in s : TRUE].size + f[s \ {CHOOSE x \in s : TRUE}]]
           h == [s \in SUBSET S |-> IF s = {} THEN 0 ELSE r.size]
           fold == CHOOSE f : f = G(f)
<1>c. (CHOOSE x \in {1} : TRUE) = 1 /\ {1} \ {1} = {}
  OBVIOUS
<1>1. h = G(h)
  <2>1. ASSUME NEW s \in SUBSET S PROVE h[s] = G(h)[s]
    <3>1. CASE s = {}
      BY <3>1
    <3>2. CASE s = {1}
      BY <3>2, <1>0, <1>c
    <3>3. QED
      BY <1>0, <3>1, <3>2
  <2>2. QED
    BY <2>1
<1>2. SizeOf(<<r>>) = fold[S]
  BY DEF SizeOf, FoldSeq, FoldFunction, FoldFunctionOnSet, MapThenFoldSet
<1>3. fold = G(fold)
  <2> HIDE DEF G, h
  <2> QED BY <1>1
<1> HIDE DEF fold
<1>4. G(fold)[{}] = 0 /\ G(fold)[{1}] = r.size + fold[{}]
  BY <1>0, <1>c
<1>5. QED
  BY <1>0, <1>2, <1>3, <1>4

\* TransitionLedger, for any months, sizes of a log, rows, deaths and months run by hand.
Statuses == {"none", "waiting", "selected", "completed", "failed"}
Reasons == {"none", "lane", "gap", "open", "first", "wait", "next"}
LedgerRow == [month : 0 .. MaxMonth, status : Statuses, from : {"select", "tick"},
              at : AllMonths, size : {1, MaxBytes}, id : Nat]
Memory == [month : AllMonths, reason : Reasons, complete : SUBSET AllMonths, open : SUBSET AllMonths]
Choice == [month : AllMonths, reason : Reasons]
Places ==
    [pc : {"down", "boot", "loop", "end", "save"}]
    \cup [pc : {"select"}, then : {"boot", "loop"}]
    \cup [pc : {"apply"}, then : {"boot", "loop"}, chosen : Choice]
    \cup [pc : {"line", "ledger", "latest"}, then : {"boot", "loop", "end", "save"}, row : LedgerRow]
Readers ==
    [pc : {"idle"}] \cup [pc : {"state"}, state : AllMonths]
    \cup [pc : {"rows"}, state : AllMonths, line : Statuses, row : LedgerRow \cup {None}]
    \cup [pc : {"shown"}, row : LedgerRow \cup {None}, month : AllMonths, blocked : BOOLEAN,
          complete : SUBSET AllMonths, chosen : AllMonths]

LedgerTypes ==
    /\ checkpoint \in [AllMonths -> {"absent", "open", "complete"}]
    /\ queued \in BOOLEAN /\ closed \in BOOLEAN
    /\ daemon \in Places /\ memory \in Memory /\ stored \in Memory
    /\ lastLine \in Statuses /\ ledger \in Seq(LedgerRow) /\ latest \in LedgerRow \cup {None}
    /\ reader \in Readers
    /\ written \in Nat /\ torn \in BOOLEAN /\ slipped \in BOOLEAN

\* What the places and readers have in hand, one kind at a time.
LEMMA InPlace ==
    ASSUME LedgerTypes
    PROVE  /\ daemon.pc = "select" => daemon.then \in {"boot", "loop"}
           /\ daemon.pc = "apply" =>
                /\ daemon.then \in {"boot", "loop"} /\ daemon.chosen \in Choice
           /\ daemon.pc \in {"line", "ledger", "latest"} =>
                /\ daemon.then \in {"boot", "loop", "end", "save"} /\ daemon.row \in LedgerRow
                /\ \A p : [daemon EXCEPT !.pc = p] = [pc |-> p, then |-> daemon.then, row |-> daemon.row]
           /\ daemon.pc \in {"down", "boot", "loop", "end", "save", "select", "apply", "line", "ledger", "latest"}
           /\ reader.pc \in {"idle", "state", "rows", "shown"}
           /\ reader.pc = "state" => reader.state \in AllMonths
           /\ reader.pc = "rows" =>
                reader.state \in AllMonths /\ reader.line \in Statuses /\ reader.row \in LedgerRow \cup {None}
           /\ reader.pc = "shown" => reader.row \in LedgerRow \cup {None} /\ reader.month \in AllMonths
  BY DEF LedgerTypes, Places, Readers

\* The months are the first MaxMonth numbers.
LEMMA Months ==
    /\ MaxMonth \in Nat /\ MaxMonth > 0 /\ 1 \in AllMonths /\ MaxMonth \in AllMonths
    /\ \A m \in AllMonths : m \in Nat /\ 1 <= m /\ m <= MaxMonth
    /\ MaxBytes \in Nat /\ MaxBytes > 1
  BY LedgerAssumption DEF AllMonths

\* The least and the last of some numbers.
LEMMA LeastOne ==
    ASSUME NEW S \in SUBSET Nat, S # {}
    PROVE  LeastOf(S) \in S /\ \A k \in S : LeastOf(S) <= k
<1>1. Min(S) \in S /\ \A k \in S : Min(S) <= k
  BY Least
<1>2. QED
  BY <1>1 DEF LeastOf

\* The last of some months.
LEMMA LastOne ==
    ASSUME NEW S \in SUBSET AllMonths, S # {}
    PROVE  LastOf(S) \in S /\ LastOf(S) \in AllMonths /\ \A k \in S : k <= LastOf(S)
<1>1. S \in SUBSET (0 .. MaxMonth)
  BY Months
<1>2. Max(S) \in S /\ \A k \in S : k <= Max(S)
  BY <1>1, Greatest, Months
<1>3. \A k \in S : Max(S) >= k
  BY <1>1, <1>2, Months
<1>4. QED
  BY <1>2, <1>3, Months DEF LastOf

\* The months by their checkpoints.
LEMMA ByState ==
    ASSUME LedgerTypes
    PROVE  /\ Is("complete") \in SUBSET AllMonths /\ Is("open") \in SUBSET AllMonths
           /\ Known \in SUBSET AllMonths
           /\ \A m \in AllMonths :
                /\ m \in Is("complete") <=> checkpoint[m] = "complete"
                /\ m \in Is("open") <=> checkpoint[m] = "open"
                /\ m \in Known <=> checkpoint[m] # "absent"
                /\ checkpoint[m] \in {"absent", "open", "complete"}
           /\ Known = Is("open") \cup Is("complete")
  BY DEF Is, Known, LedgerTypes

\* A missing month is reached: all before it are complete, or all are there and a later one too.
Reached(m) ==
    checkpoint[m] = "absent" =>
        \/ \A j \in AllMonths : j < m => checkpoint[j] = "complete"
        \/ /\ \A j \in AllMonths : j < m => checkpoint[j] # "absent"
           /\ \E k \in AllMonths : k > m /\ checkpoint[k] # "absent"

\* What select_next_historical_work can answer.
LEMMA Selected ==
    ASSUME LedgerTypes
    PROVE  /\ Selection \in Choice /\ Selection.reason # "none"
           /\ Reached(Selection.month)
           /\ LaneHolds => Selection.month = 1 /\ Selection.reason = "lane"
           /\ Selection.reason = "lane" => LaneHolds
           /\ Selection.reason = "wait" => Is("complete") = AllMonths /\ ~LaneHolds
           /\ Selection.reason \notin {"lane", "wait"} => checkpoint[Selection.month] # "complete"
           /\ Selection.reason = "open" =>
                /\ \A k \in Is("open") : Selection.month <= k
                /\ Selection.month \in Is("open")
           /\ Selection.reason = "gap" =>
                /\ checkpoint[Selection.month] = "absent"
                /\ \E k \in Known : k > Selection.month
           /\ Selection.reason = "open" =>
                \A m, k \in AllMonths : k \in Known /\ k > m => m \in Known
           /\ Selection.reason \in {"first", "next"} =>
                Is("open") = {} /\ checkpoint[Selection.month] = "absent"
<1> USE Months, ByState
<1>1. CASE LaneHolds
  <2>1. Selection = [month |-> 1, reason |-> "lane"]
    BY <1>1 DEF Selection
  <2>2. checkpoint[1] = "complete"
    BY <1>1 DEF LaneHolds
  <2>3. QED
    BY <1>1, <2>1, <2>2 DEF Choice, Reasons, Reached
<1>2. CASE ~LaneHolds /\ Gaps # {}
  <2>1. Selection = [month |-> LeastOf(Gaps), reason |-> "gap"]
    BY <1>2 DEF Selection
  <2>2. Known # {} /\ Gaps = {m \in AllMonths \ Known : m < LastOf(Known)}
    BY <1>2 DEF Gaps
  <2>3. LastOf(Known) \in Known
    BY <2>2, LastOne
  <2>4. Gaps \in SUBSET Nat
    BY <2>2
  <2>5. LeastOf(Gaps) \in Gaps /\ \A k \in Gaps : LeastOf(Gaps) <= k
    BY <1>2, <2>4, LeastOne
  <2>6. \A j \in AllMonths : j < LeastOf(Gaps) => j \in Known
    <3>1. SUFFICES ASSUME NEW j \in AllMonths, j < LeastOf(Gaps), j \notin Known PROVE FALSE
      OBVIOUS
    <3>2. PICK g \in AllMonths : g = LeastOf(Gaps) /\ g < LastOf(Known)
      BY <2>2, <2>5
    <3>3. PICK k \in AllMonths : k = LastOf(Known)
      BY <2>3
    <3>4. j \in Nat /\ g \in Nat /\ k \in Nat
      OBVIOUS
    <3>5. j < k
      BY <3>1, <3>2, <3>3, <3>4
    <3>6. j \in Gaps
      BY <2>2, <3>1, <3>3, <3>5
    <3>7. g <= j
      BY <2>5, <3>2, <3>6
    <3>8. QED
      BY <3>1, <3>2, <3>4, <3>7
  <2>7. /\ LeastOf(Gaps) \in AllMonths /\ LeastOf(Gaps) \notin Known
        /\ LastOf(Known) > LeastOf(Gaps)
    BY <2>2, <2>3, <2>5
  <2>8. Reached(LeastOf(Gaps))
    BY <2>3, <2>6, <2>7 DEF Reached
  <2>9. QED
    BY <1>2, <2>1, <2>3, <2>7, <2>8 DEF Choice, Reasons
<1>3. CASE ~LaneHolds /\ Gaps = {} /\ Is("open") # {}
  <2>1. Selection = [month |-> LeastOf(Is("open")), reason |-> "open"]
    BY <1>3 DEF Selection
  <2>2. Is("open") \in SUBSET Nat
    OBVIOUS
  <2>3. LeastOf(Is("open")) \in Is("open") /\ \A k \in Is("open") : LeastOf(Is("open")) <= k
    BY <1>3, <2>2, LeastOne
  <2>4. ASSUME NEW m \in AllMonths, NEW k \in AllMonths, k \in Known, k > m PROVE m \in Known
    <3>1. PICK last \in AllMonths : last = LastOf(Known) /\ k <= last
      BY <2>4, LastOne
    <3>2. m \in Nat /\ k \in Nat /\ last \in Nat
      OBVIOUS
    <3>3. m < last
      BY <2>4, <3>1, <3>2
    <3>4. QED
      BY <1>3, <2>4, <3>1, <3>3 DEF Gaps
  <2>5. QED
    BY <1>3, <2>1, <2>3, <2>4 DEF Choice, Reasons, Reached
<1>4. CASE ~LaneHolds /\ Gaps = {} /\ Is("open") = {} /\ Known = {}
  <2>1. Selection = [month |-> 1, reason |-> "first"]
    BY <1>4 DEF Selection
  <2>2. Reached(1) /\ checkpoint[1] # "complete"
    BY <1>4 DEF Reached
  <2>3. QED
    BY <1>4, <2>1, <2>2 DEF Choice, Reasons
<1>5. CASE ~LaneHolds /\ Gaps = {} /\ Is("open") = {} /\ Known # {} /\ Known = AllMonths
  <2>1. Selection = [month |-> MaxMonth, reason |-> "wait"]
    BY <1>5 DEF Selection
  <2>2. Is("complete") = AllMonths
    BY <1>5
  <2>3. QED
    BY <1>5, <2>1, <2>2 DEF Choice, Reasons, Reached
<1>6. CASE ~LaneHolds /\ Gaps = {} /\ Is("open") = {} /\ Known # {} /\ Known # AllMonths
  <2>1. Selection = [month |-> LastOf(Known) + 1, reason |-> "next"]
    BY <1>6 DEF Selection
  <2>2. LastOf(Known) \in Known /\ \A k \in Known : k <= LastOf(Known)
    BY <1>6, LastOne
  <2>3. \A j \in AllMonths : j < LastOf(Known) => j \in Known
    BY <1>6 DEF Gaps
  <2>4. LastOf(Known) # MaxMonth
    <3>1. SUFFICES ASSUME LastOf(Known) = MaxMonth PROVE \A j \in AllMonths : j \in Known
      BY <1>6
    <3>2. TAKE j \in AllMonths
    <3>3. j < MaxMonth \/ j = MaxMonth
      BY Months
    <3>4. QED
      BY <2>2, <2>3, <3>1, <3>3
  <2>a. PICK last \in AllMonths : last = LastOf(Known)
    BY <2>2
  <2>b. last \in Nat /\ last <= MaxMonth /\ 1 <= last
    BY <2>a
  <2>5. last + 1 \in AllMonths
    BY <2>4, <2>a, <2>b DEF AllMonths
  <2>6. last + 1 \notin Known
    BY <2>2, <2>a, <2>b
  <2>7. ASSUME NEW j \in AllMonths, j < last + 1 PROVE j \in Is("complete")
    <3>1. j \in Nat /\ (j < last \/ j = last)
      BY <2>7, <2>b
    <3>2. j \in Known
      BY <2>2, <2>3, <2>a, <3>1
    <3>3. QED
      BY <1>6, <3>2
  <2>8. Reached(LastOf(Known) + 1)
    BY <2>7, <2>a DEF Reached
  <2>9. QED
    BY <1>6, <2>1, <2>5, <2>6, <2>8, <2>a DEF Choice, Reasons
<1>7. QED
  BY <1>1, <1>2, <1>3, <1>4, <1>5, <1>6

\* The month that the workers work on is the one selected, and it is not complete.
LEMMA Ingested ==
    ASSUME LedgerTypes, NEW m \in IngestMonths
    PROVE  /\ m = Selection.month /\ m \in AllMonths /\ Selection.reason \notin {"lane", "wait"}
           /\ ~LaneHolds /\ checkpoint[m] # "complete"
  BY Selected DEF IngestMonths, Choice

-----------------------------------------------------------------------------
\* The types of the ledger are invariant.
LEMMA LedgerTypesInit == LedgerInit => LedgerTypes
<1>1. SUFFICES ASSUME LedgerInit PROVE LedgerTypes
  OBVIOUS
<1>2. checkpoint \in [AllMonths -> {"absent", "open", "complete"}]
  BY <1>1 DEF LedgerInit
<1>3. /\ queued \in BOOLEAN /\ closed \in BOOLEAN /\ torn \in BOOLEAN /\ slipped \in BOOLEAN
      /\ written \in Nat /\ ledger \in Seq(LedgerRow) /\ latest = None /\ lastLine \in Statuses
  <2>1. \A S : <<>> \in Seq(S)
    OBVIOUS
  <2>2. ledger = <<>> /\ written = 0 /\ latest = None /\ lastLine = "none"
    BY <1>1 DEF LedgerInit
  <2>3. queued \in BOOLEAN /\ closed \in BOOLEAN /\ torn \in BOOLEAN /\ slipped \in BOOLEAN
    BY <1>1 DEF LedgerInit
  <2>4. QED
    BY <2>1, <2>2, <2>3 DEF Statuses
<1>4. daemon \in Places /\ reader \in Readers
  BY <1>1 DEF LedgerInit, Places, Readers, Nothing
<1>5. memory \in Memory /\ stored \in Memory
  BY <1>1, Months DEF LedgerInit, Memory, Fresh, Reasons
<1>6. QED
  BY <1>2, <1>3, <1>4, <1>5 DEF LedgerTypes

\* A row is one of the ledger's.
LEMMA RowIsTyped ==
    ASSUME LedgerTypes, NEW month \in 0 .. MaxMonth, NEW at \in AllMonths, NEW status \in Statuses,
           NEW from \in {"select", "tick"}, NEW size \in {1, MaxBytes}
    PROVE  /\ Row(month, at, status, from, size) \in LedgerRow
           /\ Row(month, at, status, from, size) =
                [month |-> month, at |-> at, status |-> status, from |-> from, size |-> size, id |-> written + 1]
  BY DEF LedgerTypes, LedgerRow, Row

\* The cut leaves rows, and takes the last of them only if it is as long as a log may be.
LEMMA Cut ==
    ASSUME NEW rows \in Seq(LedgerRow), rows # <<>>
    PROVE  /\ CutTail(rows) \in Seq(LedgerRow)
           /\ \/ CutTail(rows) # <<>> /\ Last(CutTail(rows)) = Last(rows)
              \/ CutTail(rows) = <<>> /\ Last(rows).size = MaxBytes
<1> DEFINE n == Len(rows)
<1>1. n \in Nat /\ n >= 1 /\ Last(rows) = rows[n] /\ rows[n] \in LedgerRow
  BY DEF Last
<1>2. CASE SizeOf(rows) <= MaxBytes
  BY <1>2 DEF CutTail
<1>3. CASE ~(SizeOf(rows) <= MaxBytes)
  <2> DEFINE kept == {k \in 0 .. n : SizeOf(SubSeq(rows, k + 1, n)) < MaxBytes}
  <2>1. CutTail(rows) = SubSeq(rows, LeastOf(kept) + 1, n)
    BY <1>3 DEF CutTail
  <2>2. SubSeq(rows, n + 1, n) = <<>> /\ SubSeq(rows, (n - 1) + 1, n) = <<rows[n]>>
    <3>1. SubSeq(rows, n + 1, n) \in Seq(LedgerRow) /\ Len(SubSeq(rows, n + 1, n)) = 0
      BY <1>1
    <3>2. (n - 1) + 1 = n
      BY <1>1
    <3>3. /\ SubSeq(rows, n, n) \in Seq(LedgerRow) /\ Len(SubSeq(rows, n, n)) = 1
          /\ SubSeq(rows, n, n)[1] = rows[n]
      BY <1>1
    <3>4. \A s \in Seq(LedgerRow) : Len(s) = 1 => s = <<s[1]>>
      OBVIOUS
    <3>5. SubSeq(rows, n, n) = <<rows[n]>>
      BY <3>3, <3>4
    <3>6. SubSeq(rows, n + 1, n) = <<>>
      BY <3>1
    <3>7. QED
      BY <3>2, <3>5, <3>6
  <2>3. n \in kept
    <3>1. SizeOf(SubSeq(rows, n + 1, n)) = 0
      BY <2>2, SizeOfNone
    <3>2. QED
      BY <1>1, <3>1, Months
  <2>4. rows[n].size = 1 => n - 1 \in kept
    <3>1. rows[n].size = 1 => SizeOf(<<rows[n]>>) = 1
      BY SizeOfOne
    <3>2. n - 1 \in 0 .. n
      BY <1>1
    <3>3. QED
      BY <2>2, <3>1, <3>2, Months
  <2>5. kept \in SUBSET Nat /\ \A k \in kept : k <= n
    BY <1>1
  <2> HIDE DEF kept
  <2>6. PICK least \in kept : least = LeastOf(kept) /\ \A k \in kept : least <= k
    BY <2>3, <2>5, LeastOne
  <2>7. least \in Nat /\ least <= n
    BY <2>5
  <2>8. CASE least = n
    <3>1. CutTail(rows) = <<>>
      BY <2>1, <2>2, <2>6, <2>8
    <3>2. rows[n].size \in {1, MaxBytes}
      BY <1>1 DEF LedgerRow
    <3>3. ~(n - 1 \in kept)
      BY <1>1, <2>6, <2>8
    <3>4. <<>> \in Seq(LedgerRow)
      OBVIOUS
    <3>5. QED
      BY <1>1, <2>4, <3>1, <3>2, <3>3, <3>4
  <2>9. CASE least < n
    <3> DEFINE cut == SubSeq(rows, least + 1, n)
    <3>1. CutTail(rows) = cut
      BY <2>1, <2>6
    <3>2. cut \in Seq(LedgerRow) /\ Len(cut) = n - least
      BY <1>1, <2>7, <2>9
    <3>3. n - least \in 1 .. Len(cut) /\ cut[n - least] = rows[(least + 1) + (n - least) - 1]
      BY <1>1, <2>7, <2>9, <3>2
    <3>4. (least + 1) + (n - least) - 1 = n
      BY <1>1, <2>7
    <3>5. cut # <<>> /\ Last(cut) = rows[n]
      <4>1. cut[Len(cut)] = rows[n]
        BY <3>2, <3>3, <3>4
      <4>2. Len(cut) > 0
        BY <1>1, <2>7, <2>9, <3>2
      <4>3. QED
        BY <3>2, <4>1, <4>2 DEF Last
    <3>6. QED
      BY <1>1, <3>1, <3>2, <3>5
  <2>10. QED
    BY <1>1, <2>7, <2>8, <2>9
<1>4. QED
  BY <1>2, <1>3

\* What an action leaves of the types: it is enough to look at what it writes.
LEMMA LedgerTypesStep == LedgerTypes /\ [LedgerNext]_ledgerVars => LedgerTypes'
<1> SUFFICES ASSUME LedgerTypes, [LedgerNext]_ledgerVars PROVE LedgerTypes'
  OBVIOUS
<1> USE InPlace, Months
<1>s. Selection \in Choice /\ Selection.reason # "none"
  BY Selected
<1>b. Is("complete") \in SUBSET AllMonths /\ Is("open") \in SUBSET AllMonths
  BY ByState
<1>1. CASE UNCHANGED ledgerVars
  BY <1>1 DEF ledgerVars, LedgerTypes
<1>2. CASE Look
  BY <1>2 DEF Look, LedgerTypes, Readers, outside, logs, bounds, past
<1>3. CASE Start
  BY <1>3 DEF Start, LedgerTypes, Places, outside, logs, bounds, past
<1>4. CASE Select
  BY <1>4, <1>s DEF Select, LedgerTypes, Places, outside, logs, bounds, past
<1>5. CASE Apply
  <2>1. memory' \in Memory
    BY <1>5, <1>s, <1>b DEF Apply, Memory, Choice
  <2>2. SelectionRow(daemon.chosen) \in LedgerRow
    <3>1. daemon.chosen \in Choice
      BY <1>5 DEF Apply
    <3>2. daemon.chosen.month \in AllMonths /\ daemon.chosen.month \in 0 .. MaxMonth
      BY <3>1 DEF Choice
    <3>3. SelectionStatus(daemon.chosen.reason) \in Statuses
      BY DEF SelectionStatus, Statuses
    <3>4. QED
      BY <3>2, <3>3, RowIsTyped DEF SelectionRow
  <2>3. daemon' \in Places
    BY <1>5, <2>2 DEF Apply, Tell, Places
  <2>4. QED
    BY <1>5, <2>1, <2>3 DEF Apply, LedgerTypes, outside, logs, bounds, past
<1>6. CASE Bootstrap
  <2>1. memory.month \in AllMonths
    BY DEF LedgerTypes, Memory
  <2>2. checkpoint' \in [AllMonths -> {"absent", "open", "complete"}]
    BY <1>6, <2>1 DEF Bootstrap, LedgerTypes
  <2>3. QED
    BY <1>6, <2>2 DEF Bootstrap, LedgerTypes, Places, outside, logs, bounds, past
<1>d. ASSUME NEW row \in LedgerRow, NEW month \in AllMonths, Decide(row, month)
      PROVE  daemon' \in Places /\ memory' \in Memory
  <2>1. daemon' = [pc |-> "line", row |-> row, then |-> "end"] /\ memory' = [memory EXCEPT !.month = month]
    BY <1>d DEF Decide
  <2>2. QED
    BY <2>1 DEF Places, Memory, LedgerTypes
<1>w. "waiting" \in Statuses /\ "completed" \in Statuses /\ "failed" \in Statuses
  BY DEF Statuses
<1>m. memory.month \in AllMonths
  BY DEF LedgerTypes, Memory
<1>7. CASE Gate
  <2>1. PICK m \in IngestMonths : Decide(Row(0, m, "waiting", "tick", 1), m)
    BY <1>7 DEF Gate
  <2>2. m \in AllMonths
    BY Ingested
  <2>3. Row(0, m, "waiting", "tick", 1) \in LedgerRow
    <3>1. 0 \in 0 .. MaxMonth
      OBVIOUS
    <3>2. QED
      BY <1>w, <2>2, <3>1, RowIsTyped
  <2>4. QED
    BY <1>7, <1>d, <2>1, <2>2, <2>3 DEF Gate, LedgerTypes, outside, logs, bounds, past
<1>8. CASE Tick
  <2>1. PICK m \in IngestMonths, how \in {"complete", "open", "stuck"}, size \in {1, MaxBytes} :
           /\ checkpoint' = [checkpoint EXCEPT ![m] = IF how = "stuck" THEN @ ELSE how]
           /\ Decide(Row(m, m, IF how = "stuck" THEN "waiting" ELSE "completed", "tick", size), m)
    BY <1>8 DEF Tick
  <2>2. m \in AllMonths /\ m \in 0 .. MaxMonth
    BY Ingested
  <2>3. Row(m, m, IF how = "stuck" THEN "waiting" ELSE "completed", "tick", size) \in LedgerRow
    BY <1>w, <2>2, RowIsTyped
  <2>4. checkpoint' \in [AllMonths -> {"absent", "open", "complete"}]
    BY <2>1, <2>2 DEF LedgerTypes
  <2>5. daemon' \in Places /\ memory' \in Memory
    BY <1>d, <2>1, <2>2, <2>3
  <2>6. QED
    BY <1>8, <2>4, <2>5 DEF Tick, LedgerTypes, outside, logs, bounds, past
<1>9. CASE LaneInputs
  <2>1. PICK status \in {"completed", "waiting"} : Decide(Row(1, 1, status, "tick", 1), memory.month)
    BY <1>9 DEF LaneInputs
  <2>2. Row(1, 1, status, "tick", 1) \in LedgerRow
    BY <1>w, RowIsTyped
  <2>3. QED
    BY <1>9, <1>d, <1>m, <2>1, <2>2 DEF LaneInputs, LedgerTypes, outside, logs, bounds, past
<1>10. CASE LaneVerdict
  <2>1. Row(1, 1, "completed", "tick", 1) \in LedgerRow
    BY <1>w, RowIsTyped
  <2>2. daemon' \in Places /\ memory' \in Memory
    BY <1>10, <1>d, <1>m, <2>1 DEF LaneVerdict
  <2>3. QED
    BY <1>10, <2>2 DEF LaneVerdict, LedgerTypes, outside, logs, bounds, past
<1>11. CASE LaneWaits
  BY <1>11 DEF LaneWaits, LedgerTypes, Places, Memory, outside, logs, bounds, past
<1>12. CASE Raise
  <2>1. Selection.month \in AllMonths /\ memory.month \in 0 .. MaxMonth
    BY <1>m, <1>s DEF Choice
  <2>2. Row(memory.month, Selection.month, "failed", "tick", 1) \in LedgerRow
    BY <1>w, <2>1, RowIsTyped
  <2>3. daemon' \in Places
    BY <1>12, <2>2 DEF Raise, Places
  <2>4. QED
    BY <1>12, <2>3 DEF Raise, LedgerTypes, outside, logs, bounds, past
<1>13. CASE WriteLine
  <2>1. daemon' \in Places
    BY <1>13 DEF WriteLine, Places
  <2>2. lastLine' \in Statuses
    BY <1>13 DEF WriteLine, Statuses, LedgerRow
  <2>3. QED
    BY <1>13, <2>1, <2>2 DEF WriteLine, LedgerTypes, outside, logs, bounds, past
<1>14. CASE WriteLedger
  <2>1. daemon' \in Places
    BY <1>14 DEF WriteLedger, Places
  <2>2. ledger' \in Seq(LedgerRow) /\ written' \in Nat
    BY <1>14 DEF WriteLedger, LedgerTypes
  <2>3. QED
    BY <1>14, <2>1, <2>2 DEF WriteLedger, LedgerTypes, outside, logs, bounds, past
<1>15. CASE WriteLatest
  <2>1. daemon' \in Places /\ latest' \in LedgerRow
    BY <1>15 DEF WriteLatest, Places
  <2>2. CutTail(ledger) \in Seq(LedgerRow)
    <3>1. CASE ledger # <<>>
      BY <3>1, Cut DEF LedgerTypes
    <3>2. CASE ledger = <<>>
      <4>1. SizeOf(<<>>) <= MaxBytes
        BY SizeOfNone
      <4>2. QED
        BY <3>2, <4>1 DEF CutTail, LedgerTypes
    <3>3. QED
      BY <3>1, <3>2
  <2>3. QED
    BY <1>15, <2>1, <2>2 DEF WriteLatest, LedgerTypes, outside, logs, bounds, past
<1>16. CASE Save
  BY <1>16 DEF Save, LedgerTypes, Places, outside, logs, bounds, past
<1>17. CASE Perish
  <2>1. memory' \in Memory
    BY <1>17 DEF Perish, Fresh, Memory, Reasons
  <2>2. QED
    BY <1>17, <2>1 DEF Perish, LedgerTypes, Places, Nothing, outside, logs, bounds, past
<1>18. CASE \E m \in AllMonths : CompleteByHand(m)
  BY <1>18 DEF CompleteByHand, LedgerTypes, outside, logs, bounds, past
<1>19. CASE ReadState
  <2>1. reader' \in Readers
    BY <1>19 DEF ReadState, LedgerTypes, Memory, Readers
  <2>2. QED
    BY <1>19, <2>1 DEF ReadState, LedgerTypes, outside, logs, bounds, past
<1>20. CASE ReadRows
  <2>1. reader' \in Readers
    BY <1>20 DEF ReadRows, LedgerTypes, Readers
  <2>2. QED
    BY <1>20, <2>1 DEF ReadRows, LedgerTypes, outside, logs, bounds, past
<1>21. CASE Show
  <2> DEFINE month == MonthShown(reader.state, reader.row)
             blocked == ReasonShown(month, reader.line, reader.row)
  <2>1. reader.pc = "rows" /\ reader.state \in AllMonths /\ reader.row \in LedgerRow \cup {None}
    BY <1>21 DEF Show
  <2>2. month \in AllMonths
    BY <2>1, <1>s DEF MonthShown, StateMonth, LedgerRow, None, Choice, AllMonths
  <2>3. blocked \in BOOLEAN
    BY DEF ReasonShown
  <2> DEFINE shown == [pc |-> "shown", row |-> reader.row, month |-> month, blocked |-> blocked,
                       complete |-> Is("complete"), chosen |-> Selection.month]
  <2>4. reader' = shown
    BY <1>21 DEF Show
  <2> HIDE DEF month, blocked
  <2>5. shown \in Readers
    BY <2>1, <2>2, <2>3, <1>b, <1>s DEF Readers, Choice
  <2>6. QED
    BY <1>21, <2>4, <2>5 DEF Show, LedgerTypes, outside, logs, bounds, past
<1>22. QED
  BY <1>1, <1>2, <1>3, <1>4, <1>5, <1>6, <1>7, <1>8, <1>9, <1>10, <1>11, <1>12, <1>13, <1>14, <1>15,
     <1>16, <1>17, <1>18, <1>19, <1>20, <1>21
  DEF LedgerNext, DaemonStarts, DaemonDecides, DaemonWrites, StatusReads

\* What never goes back: a checkpoint is never lost, a complete month stays so, and so does a
\* closed model group.
Grows ==
    /\ \A m \in AllMonths : /\ checkpoint[m] = "complete" => checkpoint'[m] = "complete"
                            /\ checkpoint[m] # "absent" => checkpoint'[m] # "absent"
    /\ queued' = queued /\ (closed => closed')

\* A step that opens a month opens one that select_next_historical_work reached.
Opens ==
    \A m \in AllMonths :
        /\ checkpoint[m] # "open" /\ checkpoint'[m] = "open" => checkpoint[m] = "absent" /\ Reached(m)
        /\ checkpoint[m] = "absent" /\ checkpoint'[m] = "open" =>
             \A k \in AllMonths : k # m => checkpoint'[k] = checkpoint[k]

\* Neither the checkpoints nor the model group move.
Rests == checkpoint' = checkpoint /\ queued' = queued /\ closed' = closed

\* The outside moves in four actions.
LEMMA OutsideStep ==
    ASSUME LedgerTypes, [LedgerNext]_ledgerVars
    PROVE  \/ Rests
           \/ Bootstrap \/ Tick \/ LaneVerdict
           \/ \E m \in AllMonths : CompleteByHand(m)
  BY DEF Rests, LedgerNext, ledgerVars, DaemonStarts, DaemonDecides, DaemonWrites, StatusReads, outside,
         Look, Start, Select, Apply, Gate, LaneInputs, LaneWaits, Raise, WriteLine, WriteLedger,
         WriteLatest, Save, Perish, ReadState, ReadRows, Show

\* Where a month of the memory is reached, the step grows, and opens what is reached.
LEMMA OutsideGrows ==
    ASSUME LedgerTypes, Reached(memory.month), [LedgerNext]_ledgerVars
    PROVE  Grows /\ Opens
<1>1. CASE Rests
  BY <1>1 DEF Rests, Grows, Opens
<1>2. CASE Bootstrap
  <2>1. memory.month \in AllMonths
    BY DEF LedgerTypes, Memory
  <2>2. /\ checkpoint' \in {checkpoint, [checkpoint EXCEPT ![memory.month] = IF @ = "absent" THEN "open" ELSE @]}
        /\ queued' = queued /\ closed' = closed
    BY <1>2 DEF Bootstrap
  <2>3. QED
    BY <2>1, <2>2 DEF Grows, Opens, LedgerTypes
<1>3. CASE Tick
  <2>1. PICK m \in IngestMonths, how \in {"complete", "open", "stuck"} :
           checkpoint' = [checkpoint EXCEPT ![m] = IF how = "stuck" THEN @ ELSE how]
    BY <1>3 DEF Tick
  <2>2. queued' = queued /\ closed' = closed
    BY <1>3 DEF Tick
  <2>3. m \in AllMonths /\ checkpoint[m] # "complete" /\ m = Selection.month /\ Reached(m)
    BY Ingested, Selected
  <2>4. checkpoint[m] \in {"absent", "open", "complete"}
    BY <2>3, ByState
  <2>5. QED
    BY <2>1, <2>2, <2>3, <2>4 DEF Grows, Opens, LedgerTypes
<1>4. CASE LaneVerdict
  BY <1>4 DEF LaneVerdict, Grows, Opens
<1>5. CASE \E m \in AllMonths : CompleteByHand(m)
  BY <1>5 DEF CompleteByHand, Grows, Opens, LedgerTypes
<1>6. QED
  BY <1>1, <1>2, <1>3, <1>4, <1>5, OutsideStep

\* An open month has only complete ones before it, unless a later one was completed.
OpenInOrder ==
    \A m \in AllMonths : checkpoint[m] = "open" =>
        \/ \A j \in AllMonths : j < m => checkpoint[j] = "complete"
        \/ \E k \in AllMonths : k > m /\ checkpoint[k] = "complete"

\* A month that is opened behind a later one is opened behind a complete one.
LEMMA BehindComplete ==
    ASSUME LedgerTypes, OpenInOrder, NEW m \in AllMonths, checkpoint[m] = "absent",
           NEW k \in AllMonths, k > m, checkpoint[k] # "absent"
    PROVE  \E n \in AllMonths : n >= k /\ checkpoint[n] = "complete"
<1>1. checkpoint[k] \in {"open", "complete"}
  BY ByState
<1>2. CASE checkpoint[k] = "complete"
  BY <1>2, Months
<1>3. CASE checkpoint[k] = "open"
  BY <1>3, Months DEF OpenInOrder
<1>4. QED
  BY <1>1, <1>2, <1>3

\* OpenInOrder is kept by what grows and opens as above.
LEMMA OpenInOrderStep ==
    ASSUME LedgerTypes, LedgerTypes', OpenInOrder, Grows, Opens
    PROVE  OpenInOrder'
<1>1. SUFFICES ASSUME NEW m \in AllMonths, checkpoint'[m] = "open"
               PROVE  \/ \A j \in AllMonths : j < m => checkpoint'[j] = "complete"
                      \/ \E k \in AllMonths : k > m /\ checkpoint'[k] = "complete"
  BY DEF OpenInOrder, AllMonths
<1>2. CASE checkpoint[m] = "open"
  BY <1>2 DEF OpenInOrder, Grows
<1>3. CASE checkpoint[m] # "open"
  <2>1. checkpoint[m] = "absent" /\ Reached(m)
    BY <1>1, <1>3 DEF Opens
  <2>2. CASE \A j \in AllMonths : j < m => checkpoint[j] = "complete"
    BY <2>2 DEF Grows
  <2>3. CASE \E k \in AllMonths : k > m /\ checkpoint[k] # "absent"
    <3>1. PICK k \in AllMonths : k > m /\ checkpoint[k] # "absent"
      BY <2>3
    <3>2. PICK n \in AllMonths : n >= k /\ checkpoint[n] = "complete"
      BY <2>1, <3>1, BehindComplete
    <3>3. n > m
      BY <3>1, <3>2, Months
    <3>4. QED
      BY <3>2, <3>3 DEF Grows
  <2>4. QED
    BY <2>1, <2>2, <2>3 DEF Reached
<1>4. QED
  BY <1>2, <1>3

\* So is that a month is reached.
LEMMA ReachedStep ==
    ASSUME LedgerTypes, LedgerTypes', Grows, NEW m \in AllMonths, Reached(m)
    PROVE  Reached(m)'
  BY DEF Reached, Grows, LedgerTypes, AllMonths

\* The months that the daemon remembers are reached.
MemoryReached == Reached(memory.month) /\ Reached(stored.month)

\* What the daemon remembers or has stored after a step: what it did, or what it selected.
LEMMA MemoryMoves ==
    ASSUME LedgerTypes, [LedgerNext]_ledgerVars
    PROVE  /\ stored' \in {stored, memory}
           /\ memory'.month \in {memory.month, stored.month, 1, Selection.month}
<1>1. memory \in Memory /\ stored \in Memory
  BY DEF LedgerTypes
<1>2. ASSUME NEW row, NEW month, Decide(row, month)
      PROVE  memory'.month = month
  BY <1>1, <1>2 DEF Decide, Memory
<1>3. CASE memory' = memory
  BY <1>1, <1>3 DEF LedgerNext, ledgerVars, DaemonStarts, DaemonDecides, DaemonWrites, StatusReads, logs,
         Look, Start, Select, Apply, Bootstrap, Gate, Tick, LaneInputs, LaneVerdict, LaneWaits, Raise,
         WriteLine, WriteLedger, WriteLatest, Save, Perish, CompleteByHand, ReadState, ReadRows, Show
<1>4. CASE memory' # memory
  <2>1. Start \/ Apply \/ Gate \/ Tick \/ LaneInputs \/ LaneVerdict \/ LaneWaits \/ Perish
    BY <1>4 DEF LedgerNext, ledgerVars, DaemonStarts, DaemonDecides, DaemonWrites, StatusReads,
         Look, Select, Bootstrap, Raise,
         WriteLine, WriteLedger, WriteLatest, Save, CompleteByHand, ReadState, ReadRows, Show
  <2>2. stored' = stored
    BY <2>1 DEF Start, Apply, Gate, Tick, LaneInputs, LaneVerdict, LaneWaits, Perish, logs
  <2>3. CASE Start \/ Apply \/ LaneWaits \/ Perish
    <3>1. CASE Start
      BY <2>2, <3>1 DEF Start
    <3>2. CASE Apply
      <4>1. memory' = [month |-> Selection.month, reason |-> Selection.reason,
                       complete |-> Is("complete"), open |-> Is("open")]
        BY <3>2 DEF Apply
      <4>2. QED
        BY <2>2, <4>1
    <3>3. CASE LaneWaits
      BY <1>1, <2>2, <3>3 DEF LaneWaits, Memory
    <3>4. CASE Perish
      BY <2>2, <3>4 DEF Perish, Fresh
    <3>5. QED
      BY <2>3, <3>1, <3>2, <3>3, <3>4
  <2>4. CASE Gate
    <3>1. PICK m \in IngestMonths : Decide(Row(0, m, "waiting", "tick", 1), m)
      BY <2>4 DEF Gate
    <3>2. QED
      BY <1>2, <2>2, <3>1, Ingested
  <2>5. CASE Tick
    <3>1. PICK m \in IngestMonths, how \in {"complete", "open", "stuck"}, size \in {1, MaxBytes} :
             Decide(Row(m, m, IF how = "stuck" THEN "waiting" ELSE "completed", "tick", size), m)
      BY <2>5 DEF Tick
    <3>2. QED
      BY <1>2, <2>2, <3>1, Ingested
  <2>6. CASE LaneInputs
    <3>1. PICK status \in {"completed", "waiting"} : Decide(Row(1, 1, status, "tick", 1), memory.month)
      BY <2>6 DEF LaneInputs
    <3>2. QED
      BY <1>2, <2>2, <3>1
  <2>7. CASE LaneVerdict
    <3>1. Decide(Row(1, 1, "completed", "tick", 1), memory.month)
      BY <2>7 DEF LaneVerdict
    <3>2. QED
      BY <1>2, <2>2, <3>1
  <2>8. QED
    BY <2>1, <2>2, <2>3, <2>4, <2>5, <2>6, <2>7
<1>5. QED
  BY <1>3, <1>4

\* The months that the daemon remembers stay reached.
LEMMA MemoryReachedStep ==
    ASSUME LedgerTypes, LedgerTypes', MemoryReached, [LedgerNext]_ledgerVars
    PROVE  MemoryReached'
<1>1. Grows
  BY OutsideGrows DEF MemoryReached
<1>2. /\ memory.month \in AllMonths /\ stored.month \in AllMonths /\ Selection.month \in AllMonths
      /\ memory'.month \in AllMonths /\ 1 \in AllMonths
  BY Selected, Months DEF LedgerTypes, Memory, Choice, AllMonths
<1>3. Reached(1) /\ Reached(Selection.month)
  BY Selected, Months DEF Reached
<1>4. PICK m \in AllMonths : memory'.month = m /\ Reached(m)
  BY <1>2, <1>3, MemoryMoves DEF MemoryReached
<1>5. PICK s \in AllMonths : stored'.month = s /\ Reached(s)
  BY <1>2, MemoryMoves DEF MemoryReached
<1>6. Reached(m)' /\ Reached(s)'
  <2>1. Reached(m)'
    BY <1>1, <1>4, ReachedStep
  <2>2. Reached(s)'
    BY <1>1, <1>5, ReachedStep
  <2>3. QED
    BY <2>1, <2>2
<1>7. QED
  BY <1>4, <1>5, <1>6 DEF MemoryReached, Reached

-----------------------------------------------------------------------------
\* A failure is recorded under the month that failed, a complete one, or one before a complete one.
Excused(r) ==
    r.status = "failed" =>
        /\ r.month \in AllMonths
        /\ r.month # r.at =>
             \/ checkpoint[r.month] = "complete"
             \/ \E k \in AllMonths : checkpoint[k] = "complete" /\ r.month < k /\ r.at < k
FailuresExcused ==
    /\ daemon.pc \in {"line", "ledger", "latest"} => Excused(daemon.row)
    /\ Excused(latest)
    /\ reader.pc = "rows" => Excused(reader.row)

\* The month remembered and the month that fails.
LEMMA RaisedIsExcused ==
    ASSUME LedgerTypes, OpenInOrder, Reached(memory.month), IngestMonths # {} \/ LaneHolds
    PROVE  Excused(Row(memory.month, Selection.month, "failed", "tick", 1))
<1> USE Months, ByState
<1>1. PICK m \in AllMonths : m = memory.month
  BY DEF LedgerTypes, Memory
<1>2. PICK a \in AllMonths : a = Selection.month
  BY Selected DEF Choice
<1>3. m \in Nat /\ a \in Nat
  OBVIOUS
<1>4. SUFFICES ASSUME m # a, checkpoint[m] # "complete"
               PROVE  \E k \in AllMonths : checkpoint[k] = "complete" /\ m < k /\ a < k
  BY <1>1, <1>2 DEF Excused, Row
<1>5. ~LaneHolds
  BY <1>4 DEF LaneHolds
<1>6. Selection.reason \notin {"lane", "wait", "none"}
  BY <1>5, Selected DEF IngestMonths
<1>7. Selection.reason \in {"gap", "open", "first", "next"}
  BY <1>6, Selected DEF Choice, Reasons
<1>8. Reached(m) /\ Reached(a) /\ (m < a \/ a < m)
  BY <1>1, <1>2, <1>3, <1>4, Selected
<1>9. CASE checkpoint[m] = "absent"
  <2>1. CASE checkpoint[a] = "absent"
    BY <1>3, <1>8, <1>9, <2>1 DEF Reached
  <2>2. CASE checkpoint[a] # "absent"
    <3>1. Selection.reason = "open" /\ checkpoint[a] = "open"
      BY <1>2, <1>7, <2>2, Selected
    <3>2. \A k \in AllMonths : k > m => checkpoint[k] = "absent"
      BY <1>9, <3>1, Selected
    <3>3. a < m
      BY <1>8, <2>2, <3>2, <1>3
    <3>4. QED
      BY <1>8, <1>9, <3>1, <3>2, <3>3 DEF Reached
  <2>3. QED
    BY <2>1, <2>2
<1>10. CASE checkpoint[m] = "open"
  <2>1. Selection.reason \in {"gap", "open"}
    BY <1>7, <1>10, Selected
  <2>2. CASE a < m
    <3>1. checkpoint[a] # "complete"
      BY <1>2, <1>6, Selected
    <3>2. PICK k \in AllMonths : k > m /\ checkpoint[k] = "complete"
      BY <1>10, <2>2, <3>1 DEF OpenInOrder
    <3>3. QED
      BY <1>3, <2>2, <3>2
  <2>3. CASE m < a
    <3>1. Selection.reason = "gap" /\ checkpoint[a] = "absent"
      BY <1>2, <1>3, <1>10, <2>1, <2>3, Selected
    <3>2. PICK k \in AllMonths : k > a /\ checkpoint[k] # "absent"
      BY <1>2, <3>1, Selected
    <3>3. PICK n \in AllMonths : n >= k /\ checkpoint[n] = "complete"
      BY <3>1, <3>2, BehindComplete
    <3>4. QED
      BY <1>3, <2>3, <3>2, <3>3
  <2>4. QED
    BY <1>8, <2>2, <2>3
<1>11. QED
  BY <1>4, <1>9, <1>10

\* A row of another status needs no excuse.
LEMMA OtherRows ==
    ASSUME NEW month, NEW at, NEW status, NEW from, NEW size, status # "failed"
    PROVE  Excused(Row(month, at, status, from, size))
  BY DEF Excused, Row

\* A row stays excused.
LEMMA ExcusedStays ==
    ASSUME LedgerTypes, Grows, NEW r \in LedgerRow \cup {None}, Excused(r)
    PROVE  r.status = "failed" =>
             /\ r.month \in AllMonths
             /\ r.month # r.at =>
                  \/ checkpoint'[r.month] = "complete"
                  \/ \E k \in AllMonths : checkpoint'[k] = "complete" /\ r.month < k /\ r.at < k
  BY DEF Excused, Grows

\* The rows in hand after a step: those before it, the latest, or one that is made anew.
LEMMA RowsMove ==
    ASSUME LedgerTypes, OpenInOrder, Reached(memory.month), [LedgerNext]_ledgerVars
    PROVE  /\ daemon'.pc \in {"line", "ledger", "latest"} =>
                \/ daemon.pc \in {"line", "ledger", "latest"} /\ daemon'.row = daemon.row
                \/ daemon'.row \in LedgerRow /\ Excused(daemon'.row)
           /\ \/ latest' = latest
              \/ daemon.pc = "latest" /\ latest' = daemon.row
           /\ reader'.pc = "rows" =>
                \/ reader.pc = "rows" /\ reader'.row = reader.row
                \/ reader'.row = latest
<1> USE InPlace
<1>t. LedgerTypes'
  BY LedgerTypesStep
<1>d. ASSUME NEW row, NEW month, Decide(row, month), Excused(row)
      PROVE  daemon'.row = row /\ Excused(daemon'.row)
  BY <1>d DEF Decide, Excused
<1>m. daemon'.pc \in {"line", "ledger", "latest"} => daemon'.row \in LedgerRow
  BY <1>t DEF LedgerTypes, Places
<1>1. /\ \/ latest' = latest
         \/ daemon.pc = "latest" /\ latest' = daemon.row
      /\ reader'.pc = "rows" =>
           \/ reader.pc = "rows" /\ reader'.row = reader.row
           \/ reader'.row = latest
  <2>1. CASE WriteLatest
    BY <2>1 DEF WriteLatest
  <2>2. CASE Look \/ StatusReads
    BY <2>2 DEF Look, StatusReads, ReadState, ReadRows, Show, logs
  <2>3. CASE ~WriteLatest /\ ~Look /\ ~StatusReads
    BY <2>3 DEF LedgerNext, ledgerVars, DaemonStarts, DaemonDecides, DaemonWrites, logs,
         Start, Select, Apply, Bootstrap, Gate, Tick, LaneInputs, LaneVerdict, LaneWaits, Raise,
         WriteLine, WriteLedger, Save, Perish, CompleteByHand
  <2>4. QED
    BY <2>1, <2>2, <2>3
<1>2. CASE Apply
  <2>1. SelectionRow(daemon.chosen).status # "failed"
    BY DEF SelectionRow, SelectionStatus, Row
  <2>2. Excused(SelectionRow(daemon.chosen))
    BY <2>1 DEF Excused
  <2>3. daemon' = [pc |-> daemon.then] \/ daemon'.row = SelectionRow(daemon.chosen)
    BY <1>2 DEF Apply, Tell
  <2>4. daemon.then \in {"boot", "loop"}
    BY <1>2 DEF Apply
  <2>5. QED
    BY <1>1, <1>m, <2>2, <2>3, <2>4
<1>3. CASE Gate
  <2>1. PICK m \in IngestMonths : Decide(Row(0, m, "waiting", "tick", 1), m)
    BY <1>3 DEF Gate
  <2>2. QED
    BY <1>1, <1>d, <1>m, <2>1, OtherRows
<1>4. CASE Tick
  <2>1. PICK m \in IngestMonths, how \in {"complete", "open", "stuck"}, size \in {1, MaxBytes} :
           Decide(Row(m, m, IF how = "stuck" THEN "waiting" ELSE "completed", "tick", size), m)
    BY <1>4 DEF Tick
  <2>2. (IF how = "stuck" THEN "waiting" ELSE "completed") # "failed"
    OBVIOUS
  <2>3. Excused(Row(m, m, IF how = "stuck" THEN "waiting" ELSE "completed", "tick", size))
    BY <2>2, OtherRows
  <2>4. QED
    BY <1>1, <1>d, <1>m, <2>1, <2>3
<1>5. CASE LaneInputs
  <2>1. PICK status \in {"completed", "waiting"} : Decide(Row(1, 1, status, "tick", 1), memory.month)
    BY <1>5 DEF LaneInputs
  <2>2. Excused(Row(1, 1, status, "tick", 1))
    BY OtherRows
  <2>3. QED
    BY <1>1, <1>d, <1>m, <2>1, <2>2
<1>6. CASE LaneVerdict
  <2>1. Decide(Row(1, 1, "completed", "tick", 1), memory.month)
    BY <1>6 DEF LaneVerdict
  <2>2. QED
    BY <1>1, <1>d, <1>m, <2>1, OtherRows
<1>7. CASE Raise
  <2>1. IngestMonths # {} \/ LaneHolds
    BY <1>7 DEF Raise
  <2>2. Excused(Row(memory.month, Selection.month, "failed", "tick", 1))
    BY <2>1, RaisedIsExcused
  <2>3. daemon'.row = Row(memory.month, Selection.month, "failed", "tick", 1)
    BY <1>7 DEF Raise
  <2>4. QED
    BY <1>1, <1>m, <2>2, <2>3
<1>8. CASE WriteLine \/ WriteLedger
  BY <1>1, <1>8 DEF WriteLine, WriteLedger
<1>9. CASE WriteLatest
  <2>1. daemon'.pc = daemon.then /\ daemon.then \in {"boot", "loop", "end", "save"}
    BY <1>9 DEF WriteLatest
  <2>2. QED
    BY <1>1, <2>1
<1>10. CASE Start \/ Select \/ Bootstrap \/ LaneWaits \/ Save \/ Perish
  <2>1. ~(daemon'.pc \in {"line", "ledger", "latest"})
    BY <1>10 DEF Start, Select, Bootstrap, LaneWaits, Save, Perish, Nothing
  <2>2. QED
    BY <1>1, <2>1
<1>11. CASE Look \/ StatusReads \/ UNCHANGED ledgerVars \/ (\E m \in AllMonths : CompleteByHand(m))
  <2>1. daemon' = daemon
    BY <1>11 DEF Look, StatusReads, ReadState, ReadRows, Show, ledgerVars, CompleteByHand
  <2>2. QED
    BY <1>1, <2>1
<1>12. QED
  BY <1>2, <1>3, <1>4, <1>5, <1>6, <1>7, <1>8, <1>9, <1>10, <1>11
  DEF LedgerNext, DaemonStarts, DaemonDecides, DaemonWrites

\* Failures stay excused.
LEMMA FailuresExcusedStep ==
    ASSUME LedgerTypes, OpenInOrder, MemoryReached, FailuresExcused, [LedgerNext]_ledgerVars
    PROVE  FailuresExcused'
<1>1. LedgerTypes' /\ Grows /\ Reached(memory.month)
  BY LedgerTypesStep, OutsideGrows DEF MemoryReached
<1> USE InPlace
<1>2. ASSUME daemon'.pc \in {"line", "ledger", "latest"} PROVE Excused(daemon.row)'
  <2>1. PICK r \in LedgerRow \cup {None} : r = daemon'.row /\ Excused(r)
    BY <1>1, <1>2, RowsMove DEF FailuresExcused
  <2>2. QED
    BY <1>1, <2>1, ExcusedStays DEF Excused, AllMonths
<1>3. Excused(latest)'
  <2>1. PICK r \in LedgerRow \cup {None} : r = latest' /\ Excused(r)
    BY <1>1, RowsMove DEF FailuresExcused, LedgerTypes
  <2>2. QED
    BY <1>1, <2>1, ExcusedStays DEF Excused, AllMonths
<1>4. ASSUME reader'.pc = "rows" PROVE Excused(reader.row)'
  <2>1. PICK r \in LedgerRow \cup {None} : r = reader'.row /\ Excused(r)
    BY <1>1, <1>4, RowsMove DEF FailuresExcused, LedgerTypes
  <2>2. QED
    BY <1>1, <2>1, ExcusedStays DEF Excused, AllMonths
<1>5. QED
  BY <1>2, <1>3, <1>4 DEF FailuresExcused

-----------------------------------------------------------------------------
\* Between the line and the file of the latest transition, the line is the last of the ledger.
LineIsLast == daemon.pc = "latest" => ledger # <<>> /\ Last(ledger) = daemon.row

\* The ledger and the file of the latest transition are kept together.
LEMMA LatestStep ==
    ASSUME LedgerTypes, LineIsLast, LatestIsLast, [LedgerNext]_ledgerVars
    PROVE  LineIsLast' /\ LatestIsLast'
<1> USE InPlace
<1>1. CASE WriteLedger
  <2>1. daemon'.pc = "latest" /\ daemon'.row = daemon.row /\ ledger' = Append(ledger, daemon.row)
    BY <1>1 DEF WriteLedger
  <2>2. daemon.row \in LedgerRow /\ ledger \in Seq(LedgerRow)
    BY <1>1 DEF WriteLedger, LedgerTypes
  <2>3. ledger' # <<>> /\ Last(ledger') = daemon.row
    <3>1. Len(ledger') = Len(ledger) + 1 /\ ledger'[Len(ledger) + 1] = daemon.row /\ Len(ledger) \in Nat
      BY <2>1, <2>2
    <3>2. ledger' # <<>>
      BY <2>2, <3>1
    <3>3. QED
      BY <3>1, <3>2 DEF Last
  <2>4. QED
    BY <2>1, <2>3 DEF LineIsLast, LatestIsLast
<1>2. CASE WriteLatest
  <2>1. daemon.pc = "latest" /\ latest' = daemon.row /\ ledger' = CutTail(ledger)
    BY <1>2 DEF WriteLatest
  <2>2. ledger # <<>> /\ Last(ledger) = daemon.row /\ ledger \in Seq(LedgerRow)
    BY <2>1 DEF LineIsLast, LedgerTypes
  <2>3. \/ ledger' # <<>> /\ Last(ledger') = latest'
        \/ ledger' = <<>> /\ latest'.size = MaxBytes
    BY <2>1, <2>2, Cut
  <2>4. daemon'.pc # "latest"
    BY <1>2, <2>1 DEF WriteLatest
  <2>5. QED
    BY <2>3, <2>4 DEF LineIsLast, LatestIsLast
<1>3. CASE Perish
  <2>1. UNCHANGED <<ledger, latest>> /\ daemon'.pc # "latest"
    BY <1>3 DEF Perish, Nothing, logs
  <2>2. CASE daemon.pc = "latest"
    <3>1. torn' = TRUE
      BY <1>3, <2>2 DEF Perish
    <3>2. QED
      BY <2>1, <3>1 DEF LineIsLast, LatestIsLast
  <2>3. CASE daemon.pc # "latest"
    <3>1. torn' = torn
      BY <1>3, <2>3 DEF Perish, LedgerTypes
    <3>2. QED
      BY <2>1, <2>3, <3>1 DEF LineIsLast, LatestIsLast
  <2>4. QED
    BY <2>2, <2>3
<1>4. CASE DaemonStarts \/ DaemonDecides \/ WriteLine \/ Save
  <2>1. UNCHANGED <<ledger, latest, torn>> /\ daemon.pc # "latest"
    BY <1>4 DEF DaemonStarts, DaemonDecides, logs, past, Start, Select, Apply, Bootstrap, Gate, Tick,
         LaneInputs, LaneVerdict, LaneWaits, Raise, WriteLine, Save
  <2>2. daemon'.pc # "latest"
    <3>1. CASE Apply
      BY <3>1 DEF Apply, Tell
    <3>2. CASE DaemonDecides
      BY <3>2 DEF DaemonDecides, Gate, Tick, LaneInputs, LaneVerdict, LaneWaits, Raise, Decide
    <3>3. CASE Start \/ Select \/ Bootstrap \/ Save
      BY <3>3 DEF Start, Select, Bootstrap, Save
    <3>4. CASE WriteLine
      <4>1. daemon' = [pc |-> "ledger", then |-> daemon.then, row |-> daemon.row]
        BY <3>4 DEF WriteLine
      <4>2. QED
        BY <4>1
    <3>5. QED
      BY <1>4, <3>1, <3>2, <3>3, <3>4 DEF DaemonStarts
  <2>3. QED
    BY <2>1, <2>2 DEF LineIsLast, LatestIsLast
<1>5. CASE Look \/ StatusReads \/ UNCHANGED ledgerVars \/ (\E m \in AllMonths : CompleteByHand(m))
  <2>1. UNCHANGED <<ledger, latest, torn, daemon>>
    BY <1>5 DEF Look, StatusReads, ReadState, ReadRows, Show, ledgerVars, CompleteByHand, logs, past
  <2>2. QED
    BY <2>1 DEF LineIsLast, LatestIsLast
<1>6. QED
  BY <1>1, <1>2, <1>3, <1>4, <1>5 DEF LedgerNext, DaemonWrites

-----------------------------------------------------------------------------
\* Only the status command writes what is shown, and until the next one nothing else moves.
LEMMA ShownStep ==
    ASSUME [LedgerNext]_ledgerVars, reader'.pc = "shown"
    PROVE  Show \/ (reader' = reader /\ queued' = queued)
<1>1. CASE StatusReads
  BY <1>1 DEF StatusReads, ReadState, ReadRows
<1>2. CASE ~StatusReads
  BY <1>2 DEF LedgerNext, ledgerVars, DaemonStarts, DaemonDecides, DaemonWrites, outside,
         Look, Start, Select, Apply, Bootstrap, Gate, Tick, LaneInputs, LaneVerdict, LaneWaits, Raise,
         WriteLine, WriteLedger, WriteLatest, Save, Perish, CompleteByHand
<1>3. QED
  BY <1>1, <1>2

\* What the status shows is explained by what it read.
LEMMA ShownExplainedStep ==
    ASSUME LedgerTypes, FailuresExcused, ShownIsExplained, FailureIsShown, [LedgerNext]_ledgerVars
    PROVE  ShownIsExplained' /\ FailureIsShown'
<1> USE InPlace
<1>1. SUFFICES ASSUME reader'.pc = "shown" PROVE ShownIsExplained' /\ FailureIsShown'
  BY DEF ShownIsExplained, FailureIsShown
<1>2. CASE reader' = reader /\ queued' = queued
  BY <1>2 DEF ShownIsExplained, FailureIsShown
<1>3. CASE Show
  <2> DEFINE month == MonthShown(reader.state, reader.row)
             blocked == ReasonShown(month, reader.line, reader.row)
  <2>1. reader.pc = "rows" /\ reader.state \in AllMonths /\ reader.row \in LedgerRow \cup {None}
    BY <1>3 DEF Show
  <2>2. /\ reader'.row = reader.row /\ reader'.month = month /\ reader'.complete = Is("complete")
        /\ reader'.chosen = Selection.month /\ queued' = queued
    BY <1>3 DEF Show, outside
  <2>3. reader'.blocked <=> blocked
    BY <1>3 DEF Show
  <2>4. ShownIsExplained'
    <3>1. SUFFICES ASSUME month \in Is("complete") PROVE month \in {reader.row.month, Selection.month}
      BY <2>2 DEF ShownIsExplained
    <3>2. CASE reader.row.month # 0
      BY <3>2 DEF MonthShown
    <3>3. CASE reader.row.month = 0 /\ (checkpoint[reader.state] = "complete" \/ LaneHolds)
      BY <3>3 DEF MonthShown, StateMonth
    <3>4. CASE reader.row.month = 0 /\ ~(checkpoint[reader.state] = "complete" \/ LaneHolds)
      <4>1. month = reader.state
        BY <3>4 DEF MonthShown, StateMonth
      <4>2. QED
        BY <2>1, <3>1, <3>4, <4>1, ByState
    <3>5. QED
      BY <3>2, <3>3, <3>4
  <2>5. FailureIsShown'
    <3>1. SUFFICES ASSUME reader.row.status = "failed"
                   PROVE  /\ reader.row.month # reader.row.at =>
                               \/ reader.row.month \in Is("complete")
                               \/ \E k \in Is("complete") : reader.row.month < k /\ reader.row.at < k
                          /\ ~reader'.blocked <=> queued /\ reader.row.month \in Is("complete")
      BY <1>1, <2>2 DEF FailureIsShown
    <3>2. Excused(reader.row)
      BY <2>1 DEF FailuresExcused
    <3>3. reader.row.month \in AllMonths /\ reader.row # None
      BY <3>1, <3>2 DEF Excused, None
    <3>4. /\ reader.row.month # reader.row.at =>
               \/ reader.row.month \in Is("complete")
               \/ \E k \in Is("complete") : reader.row.month < k /\ reader.row.at < k
      BY <3>1, <3>2, <3>3, ByState DEF Excused
    <3>5. month = reader.row.month
      BY <3>3, Months DEF MonthShown
    <3>6. blocked <=> ~(queued /\ checkpoint[reader.row.month] = "complete")
      BY <3>1, <3>3, <3>5 DEF ReasonShown
    <3>7. QED
      BY <2>3, <3>3, <3>4, <3>6, ByState
  <2>6. QED
    BY <2>4, <2>5
<1>4. QED
  BY <1>1, <1>2, <1>3, ShownStep

-----------------------------------------------------------------------------
\* The memory that an iteration would begin with now.
Current == [month |-> Selection.month, reason |-> Selection.reason,
            complete |-> Is("complete"), open |-> Is("open")]

\* A memory was current when it was made: it knows nothing that is not so, and if it is of all
\* months and the model group holds the lane now, it held it then.
WasCurrent(s) ==
    /\ \A m \in s.complete : checkpoint[m] = "complete"
    /\ \A m \in s.open : checkpoint[m] # "absent"
    /\ s.reason = "wait" => closed \/ ~queued
    /\ s.complete = AllMonths /\ queued /\ ~closed => s.month = 1
MemoryIsPast == WasCurrent(memory) /\ WasCurrent(stored)

\* What is current is past.
LEMMA CurrentIsPast == ASSUME LedgerTypes PROVE WasCurrent(Current) /\ Current \in Memory
<1>1. Current \in Memory
  BY Selected, ByState DEF Current, Memory, Choice
<1>2. /\ Current.complete = Is("complete") /\ Current.open = Is("open")
      /\ Current.reason = Selection.reason /\ Current.month = Selection.month
  BY DEF Current
<1>3. /\ \A m \in Is("complete") : checkpoint[m] = "complete"
      /\ \A m \in Is("open") : checkpoint[m] # "absent"
  BY ByState
<1>4. Selection.reason = "wait" => closed \/ ~queued
  BY Selected DEF LaneHolds
<1>5. Is("complete") = AllMonths /\ queued /\ ~closed => Selection.month = 1
  BY Selected DEF LaneHolds
<1>6. QED
  BY <1>1, <1>2, <1>3, <1>4, <1>5 DEF WasCurrent

\* What is past stays so.
LEMMA PastStays ==
    ASSUME LedgerTypes, LedgerTypes', Grows, NEW s \in Memory, WasCurrent(s)
    PROVE  WasCurrent(s)'
<1>1. s.complete \in SUBSET AllMonths /\ s.open \in SUBSET AllMonths
  BY DEF Memory
<1>2. (\A m \in s.complete : checkpoint[m] = "complete")'
  BY <1>1 DEF WasCurrent, Grows
<1>3. (\A m \in s.open : checkpoint[m] # "absent")'
  BY <1>1 DEF WasCurrent, Grows
<1>4. (s.reason = "wait" => closed \/ ~queued)'
  BY DEF WasCurrent, Grows
<1>5. (s.complete = AllMonths /\ queued /\ ~closed => s.month = 1)'
  BY DEF WasCurrent, Grows, AllMonths
<1>6. QED
  BY <1>2, <1>3, <1>4, <1>5 DEF WasCurrent

\* A past memory that is no longer current never is again.
LEMMA OutdatedStays ==
    ASSUME LedgerTypes, LedgerTypes', Grows, NEW s \in Memory, WasCurrent(s), s # Current
    PROVE  s # Current'
<1>1. SUFFICES ASSUME s = Current' PROVE FALSE
  OBVIOUS
<1>2. /\ s.complete = Is("complete")' /\ s.open = Is("open")' /\ s.reason = Selection.reason'
  BY <1>1 DEF Current
<1>3. ASSUME NEW m \in AllMonths PROVE checkpoint'[m] = checkpoint[m]
  <2>1. /\ checkpoint[m] \in {"absent", "open", "complete"}
        /\ checkpoint'[m] \in {"absent", "open", "complete"}
    BY DEF LedgerTypes, AllMonths
  <2>2. CASE checkpoint'[m] = "complete"
    <3>1. m \in s.complete
      BY <1>2, <2>2 DEF Is, AllMonths
    <3>2. QED
      BY <2>2, <3>1 DEF WasCurrent
  <2>3. CASE checkpoint'[m] = "open"
    <3>1. m \in s.open
      BY <1>2, <2>3 DEF Is, AllMonths
    <3>2. checkpoint[m] # "absent"
      BY <3>1 DEF WasCurrent
    <3>3. QED
      BY <2>1, <2>3, <3>2 DEF Grows
  <2>4. CASE checkpoint'[m] = "absent"
    BY <2>1, <2>4 DEF Grows
  <2>5. QED
    BY <2>1, <2>2, <2>3, <2>4
<1>4. checkpoint' = checkpoint /\ queued' = queued
  <2>1. checkpoint \in [AllMonths -> {"absent", "open", "complete"}]
    BY DEF LedgerTypes
  <2>2. checkpoint' \in [AllMonths -> {"absent", "open", "complete"}]
    BY DEF LedgerTypes, AllMonths
  <2>3. checkpoint' = checkpoint
    BY <1>3, <2>1, <2>2
  <2>4. QED
    BY <2>3 DEF Grows
<1>5. closed' # closed
  <2>1. SUFFICES ASSUME closed' = closed PROVE Current' = Current
    BY <1>1
  <2>2. QED
    BY <1>4, <2>1 DEF Current, Selection, LaneHolds, Gaps, Known, Is, AllMonths
<1>6. ~closed /\ closed'
  BY <1>5 DEF Grows, LedgerTypes
<1>7. ~LaneHolds'
  BY <1>6 DEF LaneHolds
<1>8. CASE ~LaneHolds
  <2>1. Current' = Current
    BY <1>4, <1>7, <1>8 DEF Current, Selection, Gaps, Known, Is, AllMonths
  <2>2. QED
    BY <1>1, <2>1
<1>9. CASE LaneHolds
  <2>1. Is("complete") = AllMonths /\ queued
    BY <1>9 DEF LaneHolds
  <2>2. \A m \in AllMonths : checkpoint[m] = "complete"
    BY <2>1, ByState
  <2>3. Is("open")' = {} /\ Known' = AllMonths
    <3>1. \A m \in AllMonths : checkpoint'[m] = "complete"
      BY <1>4, <2>2
    <3>2. Is("open")' = {}
      BY <3>1 DEF Is, AllMonths
    <3>3. Is("complete")' = AllMonths
      BY <3>1 DEF Is, AllMonths
    <3>4. QED
      BY <3>2, <3>3 DEF Known
  <2>4. Gaps' = {}
    BY <2>3 DEF Gaps, AllMonths
  <2>5. Selection'.reason = "wait"
    <3>1. AllMonths # {} /\ AllMonths' = AllMonths
      BY Months DEF AllMonths
    <3>2. Selection' = [month |-> MaxMonth, reason |-> "wait"]
      BY <1>7, <2>3, <2>4, <3>1 DEF Selection
    <3>3. QED
      BY <3>2
  <2>6. QED
    BY <1>2, <1>6, <2>1, <2>5 DEF WasCurrent
<1>10. QED
  BY <1>8, <1>9

\* A memory that only takes another month stays past if the month is 1 or none is left to ingest.
LEMMA PastWithMonth ==
    ASSUME LedgerTypes, NEW s \in Memory, WasCurrent(s), NEW m \in AllMonths, m = 1 \/ m \in IngestMonths
    PROVE  WasCurrent([s EXCEPT !.month = m]) /\ [s EXCEPT !.month = m] \in Memory
<1> DEFINE t == [s EXCEPT !.month = m]
<1>1. /\ t \in Memory /\ t.month = m /\ t.complete = s.complete /\ t.open = s.open
      /\ t.reason = s.reason
  BY DEF Memory
<1>2. ASSUME s.complete = AllMonths, queued, ~closed PROVE m = 1
  <2>1. Is("complete") = AllMonths
    BY <1>2, ByState DEF WasCurrent
  <2>2. IngestMonths = {}
    BY <1>2, <2>1 DEF IngestMonths, LaneHolds
  <2>3. QED
    BY <2>2
<1>3. QED
  BY <1>1, <1>2 DEF WasCurrent

\* What the daemon remembers and has stored stays past.
LEMMA MemoryIsPastStep ==
    ASSUME LedgerTypes, LedgerTypes', Grows, MemoryIsPast, [LedgerNext]_ledgerVars
    PROVE  MemoryIsPast'
<1>1. memory \in Memory /\ stored \in Memory /\ memory.month \in AllMonths /\ 1 \in AllMonths
  BY Months DEF LedgerTypes, Memory
<1>2. \E s \in Memory : WasCurrent(s) /\ stored' = s
  BY <1>1, MemoryMoves DEF MemoryIsPast
<1>3. \E s \in Memory : WasCurrent(s) /\ memory' = s
  <2>d. ASSUME NEW row, NEW month \in AllMonths, Decide(row, month), month \in IngestMonths \/ month = 1
        PROVE  \E s \in Memory : WasCurrent(s) /\ memory' = s
    <3>1. memory' = [memory EXCEPT !.month = month]
      BY <2>d DEF Decide
    <3>2. QED
      BY <1>1, <2>d, <3>1, PastWithMonth DEF MemoryIsPast
  <2>e. ASSUME NEW row, Decide(row, memory.month)
        PROVE  \E s \in Memory : WasCurrent(s) /\ memory' = s
    <3>1. memory' = [memory EXCEPT !.month = memory.month]
      BY <2>e DEF Decide
    <3>2. memory' = memory
      BY <1>1, <3>1 DEF Memory
    <3>3. QED
      BY <1>1, <3>2 DEF MemoryIsPast
  <2>1. CASE memory' = memory
    BY <1>1, <2>1 DEF MemoryIsPast
  <2>2. CASE Start
    BY <1>1, <2>2 DEF Start, MemoryIsPast
  <2>3. CASE Apply
    <3>1. memory' = Current
      BY <2>3 DEF Apply, Current
    <3>2. QED
      BY <3>1, CurrentIsPast
  <2>4. CASE Gate
    <3>1. PICK m \in IngestMonths : Decide(Row(0, m, "waiting", "tick", 1), m)
      BY <2>4 DEF Gate
    <3>2. m \in AllMonths
      BY Ingested
    <3>3. QED
      BY <2>d, <3>1, <3>2
  <2>5. CASE Tick
    <3>1. PICK m \in IngestMonths, how \in {"complete", "open", "stuck"}, size \in {1, MaxBytes} :
             Decide(Row(m, m, IF how = "stuck" THEN "waiting" ELSE "completed", "tick", size), m)
      BY <2>5 DEF Tick
    <3>2. m \in AllMonths
      BY Ingested
    <3>3. QED
      BY <2>d, <3>1, <3>2
  <2>6. CASE LaneInputs
    <3>1. PICK status \in {"completed", "waiting"} : Decide(Row(1, 1, status, "tick", 1), memory.month)
      BY <2>6 DEF LaneInputs
    <3>2. QED
      BY <2>e, <3>1
  <2>7. CASE LaneVerdict
    <3>1. Decide(Row(1, 1, "completed", "tick", 1), memory.month)
      BY <2>7 DEF LaneVerdict
    <3>2. QED
      BY <2>e, <3>1
  <2>8. CASE LaneWaits
    <3>1. memory' = [memory EXCEPT !.month = 1]
      BY <2>8 DEF LaneWaits
    <3>2. QED
      BY <1>1, <3>1, PastWithMonth DEF MemoryIsPast
  <2>9. CASE Perish
    <3>1. memory' = Fresh
      BY <2>9 DEF Perish
    <3>2. Fresh \in Memory /\ WasCurrent(Fresh)
      BY <1>1 DEF Fresh, Memory, WasCurrent, Reasons
    <3>3. QED
      BY <3>1, <3>2
  <2>10. CASE memory' # memory
    <3>1. Start \/ Apply \/ Gate \/ Tick \/ LaneInputs \/ LaneVerdict \/ LaneWaits \/ Perish
      BY <2>10 DEF LedgerNext, ledgerVars, DaemonStarts, DaemonDecides, DaemonWrites, StatusReads,
         Look, Select, Bootstrap, Raise,
         WriteLine, WriteLedger, WriteLatest, Save, CompleteByHand, ReadState, ReadRows, Show
    <3>2. QED
      BY <3>1, <2>2, <2>3, <2>4, <2>5, <2>6, <2>7, <2>8, <2>9
  <2>11. QED
    BY <2>1, <2>10
<1>4. PICK s \in Memory : WasCurrent(s) /\ stored' = s
  BY <1>2
<1>5. PICK t \in Memory : WasCurrent(t) /\ memory' = t
  BY <1>3
<1>6. WasCurrent(s)' /\ WasCurrent(t)'
  <2>1. WasCurrent(s)'
    BY <1>4, PastStays
  <2>2. WasCurrent(t)'
    BY <1>5, PastStays
  <2>3. QED
    BY <2>1, <2>2
<1>7. QED
  BY <1>4, <1>5, <1>6 DEF MemoryIsPast, WasCurrent

\* The selection told and the selection applied are one, unless a month slipped between them.
ChosenIsSelected ==
    daemon.pc = "apply" => slipped \/ daemon.chosen.month = Selection.month
StartsFromStored ==
    daemon.pc \in {"select", "apply"} /\ daemon.then = "boot" => memory = stored
KeptOrOutdated ==
    daemon.pc \in {"select", "apply", "boot"} => memory = stored \/ stored # Current
RowOfSelection ==
    daemon.pc \in {"line", "ledger", "latest"} =>
        /\ daemon.row.id = IF daemon.pc = "latest" THEN written ELSE written + 1
        /\ daemon.row.from = "select" =>
             /\ daemon.pc # "line" /\ stored # Current /\ daemon.then \in {"boot", "loop"}
             /\ daemon.then = "boot" => daemon.row.month = memory.month \/ slipped
        /\ daemon.row.from = "tick" => daemon.then \in {"end", "save"}
\* The latest transition is the selection that was told last.
ToldLast == latest.from = "select" /\ latest.id = written
LatestOutdates ==
    /\ latest.id <= written
    /\ ToldLast => stored # Current
    /\ ToldLast /\ daemon.pc \in {"end", "save"} => memory # Current
    /\ ToldLast /\ daemon.pc = "boot" => latest.month = memory.month \/ slipped
Selecting == ChosenIsSelected /\ StartsFromStored /\ KeptOrOutdated /\ RowOfSelection /\ LatestOutdates

\* Where the outside rests, the same is selected and the same is current.
LEMMA SameSelection == ASSUME Rests PROVE Selection' = Selection /\ Current' = Current
  BY DEF Rests, Current, Selection, LaneHolds, Gaps, Known, Is, AllMonths

\* The daemon stays where it is, and so do the latest transition and what is remembered.
LEMMA SelectingRests ==
    ASSUME LedgerTypes, LedgerTypes', Grows, MemoryIsPast, Selecting,
           UNCHANGED <<daemon, memory, stored, latest, written>>, slipped => slipped',
           daemon.pc = "apply" => slipped' \/ Rests
    PROVE  Selecting'
<1>1. memory \in Memory /\ stored \in Memory
  BY DEF LedgerTypes
<1>2. stored # Current => stored # Current'
  BY <1>1, OutdatedStays DEF MemoryIsPast
<1>3. memory # Current => memory # Current'
  BY <1>1, OutdatedStays DEF MemoryIsPast
<1>4. ChosenIsSelected'
  BY SameSelection DEF Selecting, ChosenIsSelected
<1>5. StartsFromStored' /\ KeptOrOutdated'
  BY <1>2 DEF Selecting, StartsFromStored, KeptOrOutdated
<1>6. RowOfSelection'
  BY <1>2 DEF Selecting, RowOfSelection
<1>7. LatestOutdates'
  BY <1>2, <1>3 DEF Selecting, LatestOutdates, ToldLast
<1>8. QED
  BY <1>4, <1>5, <1>6, <1>7 DEF Selecting

\* A decision brings a row of a tick.
LEMMA SelectingDecides ==
    ASSUME LedgerTypes, LedgerTypes', Grows, MemoryIsPast, Selecting,
           NEW m, NEW at, NEW status, NEW size, NEW month,
           Decide(Row(m, at, status, "tick", size), month),
           UNCHANGED <<stored, latest, written>>
    PROVE  Selecting'
<1>1. stored # Current => stored # Current'
  BY OutdatedStays DEF MemoryIsPast, LedgerTypes
<1>2. daemon' = [pc |-> "line", row |-> Row(m, at, status, "tick", size), then |-> "end"]
  BY DEF Decide
<1>3. /\ daemon'.pc = "line" /\ daemon'.then = "end"
      /\ daemon'.row.from = "tick" /\ daemon'.row.id = written + 1
  BY <1>2 DEF Row
<1>4. ChosenIsSelected' /\ StartsFromStored' /\ KeptOrOutdated'
  BY <1>3 DEF ChosenIsSelected, StartsFromStored, KeptOrOutdated
<1>5. RowOfSelection'
  BY <1>3 DEF RowOfSelection
<1>6. LatestOutdates'
  BY <1>1, <1>3 DEF Selecting, LatestOutdates, ToldLast
<1>7. QED
  BY <1>4, <1>5, <1>6 DEF Selecting

\* What is told of the selections stays so in every step.
LEMMA SelectingStep ==
    ASSUME LedgerTypes, LedgerTypes', Grows, MemoryIsPast, Selecting, [LedgerNext]_ledgerVars
    PROVE  Selecting'
<1> USE InPlace
<1>m. memory \in Memory /\ stored \in Memory /\ written \in Nat
  BY DEF LedgerTypes
<1>s. stored # Current => stored # Current'
  BY <1>m, OutdatedStays DEF MemoryIsPast
<1>i. /\ latest.id \in Nat
      /\ daemon.pc \in {"line", "ledger", "latest"} => daemon.row.id \in Nat /\ daemon.row.from \in {"select", "tick"}
  BY DEF LedgerTypes, LedgerRow, None
<1>1. CASE Start
  <2>1. /\ daemon' = [pc |-> "select", then |-> "boot"] /\ memory' = stored
        /\ UNCHANGED <<stored, latest, written>>
    BY <1>1 DEF Start, logs, bounds
  <2>2. QED
    BY <1>s, <2>1 DEF Selecting, ChosenIsSelected, StartsFromStored, KeptOrOutdated, RowOfSelection,
       LatestOutdates, ToldLast
<1>2. CASE Select
  <2>1. /\ daemon.pc = "select" /\ daemon' = [pc |-> "apply", then |-> daemon.then, chosen |-> Selection]
        /\ UNCHANGED <<memory, stored, latest, written>> /\ Rests
    BY <1>2 DEF Select, logs, bounds, outside, Rests
  <2>2. daemon'.pc = "apply" /\ daemon'.then = daemon.then /\ daemon'.chosen = Selection
    BY <2>1
  <2>3. Selection' = Selection /\ Current' = Current
    BY <2>1, SameSelection
  <2>4. ChosenIsSelected' /\ StartsFromStored' /\ KeptOrOutdated'
    BY <2>1, <2>2, <2>3 DEF Selecting, ChosenIsSelected, StartsFromStored, KeptOrOutdated
  <2>5. RowOfSelection' /\ LatestOutdates'
    BY <2>1, <2>2, <2>3 DEF Selecting, RowOfSelection, LatestOutdates, ToldLast
  <2>6. QED
    BY <2>4, <2>5 DEF Selecting
<1>3. CASE Apply
  <2>1. /\ daemon.pc = "apply" /\ memory' = Current /\ Tell(Current)
        /\ UNCHANGED <<stored, latest, written, slipped>> /\ Rests
    BY <1>3 DEF Apply, Current, logs, bounds, outside, past, Rests
  <2>2. Current' = Current /\ daemon.then \in {"boot", "loop"}
    BY <2>1, SameSelection
  <2>3. daemon'.pc \in {"boot", "loop", "ledger"}
    BY <2>1, <2>2 DEF Tell
  <2>4. ChosenIsSelected' /\ StartsFromStored'
    BY <2>3 DEF ChosenIsSelected, StartsFromStored
  <2>5. CASE memory = Current
    <3>1. daemon' = [pc |-> daemon.then] /\ memory' = memory
      BY <2>1, <2>5 DEF Tell
    <3>2. daemon'.pc = daemon.then
      BY <3>1
    <3>3. daemon.then = "boot" => ~ToldLast
      <4>1. daemon.then = "boot" => stored = Current
        BY <2>1, <2>5 DEF Selecting, StartsFromStored
      <4>2. QED
        BY <4>1 DEF Selecting, LatestOutdates
    <3>4. KeptOrOutdated'
      BY <2>1, <2>2, <3>1, <3>2 DEF Selecting, KeptOrOutdated
    <3>5. RowOfSelection'
      BY <2>2, <3>2 DEF RowOfSelection
    <3>6. LatestOutdates'
      BY <2>1, <2>2, <3>1, <3>2, <3>3 DEF Selecting, LatestOutdates, ToldLast
    <3>7. QED
      BY <2>4, <3>4, <3>5, <3>6 DEF Selecting
  <2>6. CASE memory # Current
    <3>1. daemon' = [pc |-> "ledger", then |-> daemon.then, row |-> SelectionRow(daemon.chosen)]
      BY <2>1, <2>6 DEF Tell
    <3>2. /\ daemon'.pc = "ledger" /\ daemon'.then = daemon.then
          /\ daemon'.row = SelectionRow(daemon.chosen)
      BY <3>1
    <3>3. /\ daemon'.row.from = "select" /\ daemon'.row.id = written + 1
          /\ daemon'.row.month = daemon.chosen.month
      BY <3>2 DEF SelectionRow, Row
    <3>4. stored # Current
      BY <2>1, <2>6 DEF Selecting, KeptOrOutdated
    <3>5. daemon.chosen.month = Current.month \/ slipped
      BY <2>1 DEF Selecting, ChosenIsSelected, Current
    <3>6. RowOfSelection'
      BY <2>1, <2>2, <3>2, <3>3, <3>4, <3>5 DEF RowOfSelection
    <3>7. KeptOrOutdated'
      BY <3>2 DEF KeptOrOutdated
    <3>8. LatestOutdates'
      BY <2>1, <2>2, <3>2 DEF Selecting, LatestOutdates, ToldLast
    <3>9. QED
      BY <2>4, <3>6, <3>7, <3>8 DEF Selecting
  <2>7. QED
    BY <2>5, <2>6
<1>4. CASE Bootstrap
  <2>1. /\ daemon.pc = "boot" /\ daemon' = [pc |-> "select", then |-> "loop"]
        /\ UNCHANGED <<memory, stored, latest, written>>
    BY <1>4 DEF Bootstrap, logs, bounds
  <2>2. daemon'.pc = "select" /\ daemon'.then = "loop"
    BY <2>1
  <2>3. ChosenIsSelected' /\ StartsFromStored' /\ RowOfSelection'
    BY <2>2 DEF ChosenIsSelected, StartsFromStored, RowOfSelection
  <2>4. KeptOrOutdated' /\ LatestOutdates'
    BY <1>s, <2>1, <2>2 DEF Selecting, KeptOrOutdated, LatestOutdates, ToldLast
  <2>5. QED
    BY <2>3, <2>4 DEF Selecting
<1>5. CASE Gate
  <2>1. PICK m \in IngestMonths : Decide(Row(0, m, "waiting", "tick", 1), m)
    BY <1>5 DEF Gate
  <2>2. UNCHANGED <<stored, latest, written>>
    BY <1>5 DEF Gate, logs, bounds
  <2>3. QED
    BY <2>1, <2>2, SelectingDecides
<1>6. CASE Tick
  <2>1. PICK m \in IngestMonths, how \in {"complete", "open", "stuck"}, size \in {1, MaxBytes} :
           Decide(Row(m, m, IF how = "stuck" THEN "waiting" ELSE "completed", "tick", size), m)
    BY <1>6 DEF Tick
  <2>2. UNCHANGED <<stored, latest, written>>
    BY <1>6 DEF Tick, logs, bounds
  <2>3. QED
    BY <2>1, <2>2, SelectingDecides
<1>7. CASE LaneInputs
  <2>1. PICK status \in {"completed", "waiting"} : Decide(Row(1, 1, status, "tick", 1), memory.month)
    BY <1>7 DEF LaneInputs
  <2>2. UNCHANGED <<stored, latest, written>>
    BY <1>7 DEF LaneInputs, logs, bounds
  <2>3. QED
    BY <2>1, <2>2, SelectingDecides
<1>8. CASE LaneVerdict
  <2>1. Decide(Row(1, 1, "completed", "tick", 1), memory.month) /\ UNCHANGED <<stored, latest, written>>
    BY <1>8 DEF LaneVerdict, logs, bounds
  <2>2. QED
    BY <2>1, SelectingDecides
<1>9. CASE LaneWaits
  <2>1. /\ LaneHolds /\ memory.month # 1 /\ memory' = [memory EXCEPT !.month = 1]
        /\ daemon' = [pc |-> "end"] /\ UNCHANGED <<stored, latest, written>> /\ Rests
    BY <1>9 DEF LaneWaits, logs, bounds, outside, Rests
  <2>2. memory'.complete = memory.complete
    BY <1>m, <2>1 DEF Memory
  <2>3. memory.complete # AllMonths
    BY <2>1 DEF LaneHolds, MemoryIsPast, WasCurrent
  <2>4. Current' = Current /\ Current.complete = AllMonths
    BY <2>1, SameSelection DEF Current, LaneHolds
  <2>5. memory' # Current'
    BY <2>2, <2>3, <2>4
  <2>6. daemon'.pc = "end"
    BY <2>1
  <2>7. LatestOutdates'
    BY <1>s, <2>1, <2>5, <2>6 DEF Selecting, LatestOutdates, ToldLast
  <2>8. QED
    BY <2>6, <2>7 DEF Selecting, ChosenIsSelected, StartsFromStored, KeptOrOutdated, RowOfSelection
<1>10. CASE Raise
  <2>1. /\ daemon' = [pc |-> "ledger", then |-> "save",
                      row |-> Row(memory.month, Selection.month, "failed", "tick", 1)]
        /\ UNCHANGED <<stored, latest, written>>
    BY <1>10 DEF Raise, logs, bounds
  <2>2. /\ daemon'.pc = "ledger" /\ daemon'.then = "save"
        /\ daemon'.row.from = "tick" /\ daemon'.row.id = written + 1
    BY <2>1 DEF Row
  <2>3. RowOfSelection'
    BY <2>1, <2>2 DEF RowOfSelection
  <2>4. LatestOutdates'
    BY <1>s, <2>1, <2>2 DEF Selecting, LatestOutdates, ToldLast
  <2>5. QED
    BY <2>2, <2>3, <2>4 DEF Selecting, ChosenIsSelected, StartsFromStored, KeptOrOutdated
<1>11. CASE WriteLine
  <2>1. /\ daemon.pc = "line" /\ UNCHANGED <<memory, stored, latest, written, slipped>>
        /\ daemon' = [pc |-> "ledger", then |-> daemon.then, row |-> daemon.row]
    BY <1>11 DEF WriteLine, bounds, past
  <2>2. daemon'.pc = "ledger" /\ daemon'.then = daemon.then /\ daemon'.row = daemon.row
    BY <2>1
  <2>3. RowOfSelection'
    BY <1>i, <2>1, <2>2 DEF Selecting, RowOfSelection
  <2>4. LatestOutdates'
    BY <1>s, <2>1, <2>2 DEF Selecting, LatestOutdates, ToldLast
  <2>5. QED
    BY <2>2, <2>3, <2>4 DEF Selecting, ChosenIsSelected, StartsFromStored, KeptOrOutdated
<1>12. CASE WriteLedger
  <2>1. /\ daemon.pc = "ledger" /\ UNCHANGED <<memory, stored, latest, slipped>> /\ written' = written + 1
        /\ daemon' = [pc |-> "latest", then |-> daemon.then, row |-> daemon.row]
    BY <1>12 DEF WriteLedger, past
  <2>2. daemon'.pc = "latest" /\ daemon'.then = daemon.then /\ daemon'.row = daemon.row
    BY <2>1
  <2>3. RowOfSelection'
    BY <1>s, <2>1, <2>2 DEF Selecting, RowOfSelection
  <2>4. latest'.id <= written' /\ ~ToldLast'
    BY <1>m, <1>i, <2>1 DEF Selecting, LatestOutdates, ToldLast
  <2>5. QED
    BY <2>2, <2>3, <2>4
    DEF Selecting, ChosenIsSelected, StartsFromStored, KeptOrOutdated, LatestOutdates
<1>13. CASE WriteLatest
  <2>1. /\ daemon.pc = "latest" /\ UNCHANGED <<memory, stored, written, slipped>>
        /\ latest' = daemon.row /\ daemon' = [pc |-> daemon.then]
    BY <1>13 DEF WriteLatest, bounds
  <2>2. daemon'.pc = daemon.then /\ daemon.then \in {"boot", "loop", "end", "save"}
    BY <2>1
  <2>3. latest'.id = written'
    BY <2>1 DEF Selecting, RowOfSelection
  <2>4. ToldLast' => /\ stored' # Current' /\ daemon.then \in {"boot", "loop"}
                     /\ (daemon.then = "boot" => latest'.month = memory'.month \/ slipped')
    BY <1>s, <2>1 DEF Selecting, RowOfSelection, ToldLast
  <2>5. daemon.then = "boot" => stored # Current
    BY <1>i, <2>1 DEF Selecting, RowOfSelection
  <2>6. LatestOutdates'
    <3>1. latest'.id <= written'
      BY <1>m, <2>1, <2>3
    <3>2. ToldLast' => ~(daemon'.pc \in {"end", "save"})
      BY <2>2, <2>4
    <3>3. QED
      BY <2>2, <2>4, <3>1, <3>2 DEF LatestOutdates, ToldLast
  <2>7. KeptOrOutdated'
    BY <1>s, <2>1, <2>2, <2>5 DEF KeptOrOutdated
  <2>8. QED
    BY <2>2, <2>6, <2>7 DEF Selecting, ChosenIsSelected, StartsFromStored, RowOfSelection
<1>14. CASE Save
  <2>1. /\ daemon.pc \in {"end", "save"} /\ stored' = memory /\ daemon' = [pc |-> "loop"]
        /\ UNCHANGED <<memory, latest, written>> /\ Rests
    BY <1>14 DEF Save, bounds, outside, Rests
  <2>2. Current' = Current /\ daemon'.pc = "loop"
    BY <2>1, SameSelection
  <2>3. LatestOutdates'
    BY <2>1, <2>2 DEF Selecting, LatestOutdates, ToldLast
  <2>4. QED
    BY <2>2, <2>3 DEF Selecting, ChosenIsSelected, StartsFromStored, KeptOrOutdated, RowOfSelection
<1>15. CASE Perish
  <2>1. daemon'.pc = "down" /\ UNCHANGED <<stored, latest, written>>
    BY <1>15 DEF Perish, Nothing, logs
  <2>2. LatestOutdates'
    BY <1>s, <2>1 DEF Selecting, LatestOutdates, ToldLast
  <2>3. QED
    BY <2>1, <2>2 DEF Selecting, ChosenIsSelected, StartsFromStored, KeptOrOutdated, RowOfSelection
<1>16. CASE \E m \in AllMonths : CompleteByHand(m)
  <2>1. /\ UNCHANGED <<daemon, memory, stored, latest, written>>
    BY <1>16 DEF CompleteByHand, logs
  <2>2. slipped => slipped'
    BY <1>16 DEF CompleteByHand
  <2>3. daemon.pc = "apply" => slipped'
    BY <1>16 DEF CompleteByHand
  <2>4. QED
    BY <2>1, <2>2, <2>3, SelectingRests
<1>17. CASE Look \/ StatusReads \/ UNCHANGED ledgerVars
  <2>1. UNCHANGED <<daemon, memory, stored, latest, written, slipped>> /\ Rests
    BY <1>17 DEF Look, StatusReads, ReadState, ReadRows, Show, ledgerVars, logs, bounds, past, outside, Rests
  <2>2. QED
    BY <2>1, SelectingRests
<1>18. QED
  BY <1>1, <1>2, <1>3, <1>4, <1>5, <1>6, <1>7, <1>8, <1>9, <1>10, <1>11, <1>12, <1>13, <1>14, <1>15,
     <1>16, <1>17
  DEF LedgerNext, DaemonStarts, DaemonDecides, DaemonWrites

-----------------------------------------------------------------------------
\* All that is kept of the ledger and of what is shown.
LedgerInv ==
    /\ LedgerTypes /\ OpenInOrder /\ MemoryReached /\ FailuresExcused /\ LineIsLast
    /\ MemoryIsPast /\ Selecting /\ LatestIsLast /\ ShownIsExplained /\ FailureIsShown

\* It holds at first.
LEMMA LedgerInvInit == LedgerInit => LedgerInv
<1> SUFFICES ASSUME LedgerInit PROVE LedgerInv
  OBVIOUS
<1>1. LedgerTypes
  BY LedgerTypesInit
<1>2. /\ \A m \in AllMonths : checkpoint[m] = "absent"
      /\ daemon.pc = "down" /\ memory = Fresh /\ stored = Fresh /\ ledger = <<>> /\ latest = None
      /\ reader.pc = "idle" /\ written = 0
  BY DEF LedgerInit, Nothing
<1>3. OpenInOrder /\ LineIsLast /\ LatestIsLast /\ ShownIsExplained /\ FailureIsShown
  BY <1>2 DEF OpenInOrder, LineIsLast, LatestIsLast, ShownIsExplained, FailureIsShown
<1>4. MemoryReached
  BY <1>2, Months DEF MemoryReached, Reached, Fresh
<1>5. FailuresExcused
  BY <1>2 DEF FailuresExcused, Excused, None
<1>6. MemoryIsPast
  BY <1>2 DEF MemoryIsPast, WasCurrent, Fresh
<1>7. Selecting
  BY <1>2 DEF Selecting, ChosenIsSelected, StartsFromStored, KeptOrOutdated, RowOfSelection,
     LatestOutdates, ToldLast, None
<1>8. QED
  BY <1>1, <1>3, <1>4, <1>5, <1>6, <1>7 DEF LedgerInv

\* Every step keeps it.
LEMMA LedgerInvStep == LedgerInv /\ [LedgerNext]_ledgerVars => LedgerInv'
<1> SUFFICES ASSUME LedgerInv, [LedgerNext]_ledgerVars PROVE LedgerInv'
  OBVIOUS
<1>1. /\ LedgerTypes /\ OpenInOrder /\ MemoryReached /\ FailuresExcused /\ LineIsLast
      /\ MemoryIsPast /\ Selecting /\ LatestIsLast /\ ShownIsExplained /\ FailureIsShown
  BY DEF LedgerInv
<1>2. LedgerTypes'
  BY <1>1, LedgerTypesStep
<1>3. Grows /\ Opens
  BY <1>1, OutsideGrows DEF MemoryReached
<1>4. OpenInOrder'
  BY <1>1, <1>2, <1>3, OpenInOrderStep
<1>5. MemoryReached'
  BY <1>1, <1>2, MemoryReachedStep
<1>6. FailuresExcused'
  BY <1>1, FailuresExcusedStep
<1>7. LineIsLast' /\ LatestIsLast'
  BY <1>1, LatestStep
<1>8. MemoryIsPast'
  BY <1>1, <1>2, <1>3, MemoryIsPastStep
<1>9. Selecting'
  BY <1>1, <1>2, <1>3, SelectingStep
<1>10. ShownIsExplained' /\ FailureIsShown'
  BY <1>1, ShownExplainedStep
<1>11. QED
  BY <1>2, <1>4, <1>5, <1>6, <1>7, <1>8, <1>9, <1>10 DEF LedgerInv

\* The file of the latest transition and the ledger agree, a selection told is the one applied,
\* and the month and the reason shown have the causes named in StatusIsExplained.
THEOREM StatusHolds == LedgerSpec => []StatusIsExplained
<1>1. LedgerInv => StatusIsExplained
  <2>1. SUFFICES ASSUME LedgerInv PROVE SelectionIsApplied
    BY DEF LedgerInv, StatusIsExplained
  <2>2. QED
    BY <2>1 DEF LedgerInv, Selecting, LatestOutdates, ToldLast, SelectionIsApplied
<1>2. QED
  BY <1>1, LedgerInvInit, LedgerInvStep, PTL DEF LedgerSpec
=============================================================================
