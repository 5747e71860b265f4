------------------------- MODULE StageProcessProofs -------------------------
(* StageProcess for any set of executors and any bounds: its types, and that  *)
(* the receipts, the survivors and the progress file an execution leaves are  *)
(* accounted for.  ReplayInputs for any signals, sizes of batches and bounds: *)
(* what a refusal of the provider costs and what the word of a drain is worth.*)
EXTENDS StageProcess, ReplayInputs, TLAPS, FiniteSetTheorems, FunctionTheorems,
        WellFoundedInduction

\* The types of what the argument below reads.
Types ==
    /\ pc \in [Executor -> {"idle", "guard", "stop", "kill", "verdict", "recorded"}]
    /\ attempt \in [Executor -> {1, 2}]
    /\ leader \in [Executor -> {"none"} \union Alive \union Ended]
    /\ helper \in [Executor -> {"gone", "lives", "deaf"}]
    /\ orphans \in [Executor -> {"none"} \union Alive]
    /\ file \in Executor \union {NoExecutor}
    /\ verdict \in [Executor -> {"none", "succeeded", "failed"}]
    /\ receipts \in [Executor -> SUBSET {"succeeded", "failed"}]
    /\ finished \in [Executor -> BOOLEAN]
    /\ lapsed \in SUBSET Executor

\* Where an executor stands says what its child, its verdict and its receipts are.
\* OneStory alone is not inductive: it does not say that a child which has yet to be
\* judged has no receipt, nor that one which is judged has ended.
Guarding(e) ==
    pc[e] \in {"guard", "stop", "kill"} =>
        verdict[e] = "none" /\ receipts[e] = {} /\ leader[e] \in Alive \union {"ok", "error"}
Judged(e) ==
    pc[e] \in {"verdict", "recorded"} =>
        /\ leader[e] \in Ended /\ verdict[e] \in {"succeeded", "failed"}
        /\ receipts[e] = IF pc[e] = "verdict" THEN {} ELSE {verdict[e]}
        /\ helper[e] = "lives" => leader[e] \in {"ok", "error"}
Settled(e) ==
    /\ leader[e] \in Alive => pc[e] \in {"guard", "stop", "kill"}
    /\ receipts[e] \in {{}, {"succeeded"}, {"failed"}}
    /\ leader[e] = "ok" /\ verdict[e] = "failed" => finished[e]
    /\ verdict[e] # "none" => leader[e] \in Ended
Stages == \A e \in Executor : Guarding(e) /\ Judged(e) /\ Settled(e)

\* A child that outlives its executor is one of a lapsed executor, which is why
\* EntryIsOfARun survives its reports.
OrphansAreLapsed == \A e \in Executor : orphans[e] # "none" => e \in lapsed

IInv == Types /\ Stages /\ OrphansAreLapsed /\ EntryIsOfARun

-----------------------------------------------------------------------------
\* Every step keeps the types.
LEMMA TypesStep == Types /\ Stages /\ [Next]_vars => Types'
<1> SUFFICES ASSUME Types, Stages, [Next]_vars PROVE Types'
  OBVIOUS
<1> USE DEF Types, Alive, Ended
<1>1. ASSUME NEW e \in Executor, Start(e) PROVE Types'
  BY <1>1 DEF Start, Launch, Goto
<1>2. ASSUME NEW e \in Executor, Poll(e) PROVE Types'
  BY <1>2 DEF Poll, Goto, child, history
<1>3. ASSUME NEW e \in Executor, Stop(e) PROVE Types'
  BY <1>3 DEF Stop, Goto, child, Signalled
<1>4. ASSUME NEW e \in Executor, Kill(e) PROVE Types'
  BY <1>4 DEF Kill, Goto
<1>5. ASSUME NEW e \in Executor, Conclude(e) PROVE Types'
  <2>1. verdict[e] \in {"succeeded", "failed"}
    BY <1>5 DEF Conclude, Stages, Judged
  <2>2. CASE Record(e)
    BY <2>1, <2>2 DEF Record, Goto, child
  <2>3. CASE Repaired(e) /\ Launch(e, 2) /\ UNCHANGED <<orphans, receipts, bounds, lapsed>>
    BY <2>3 DEF Launch, Goto
  <2>4. QED
    BY <1>5, <2>2, <2>3 DEF Conclude
<1>6. ASSUME NEW e \in Executor, Finish(e) PROVE Types'
  BY <1>6 DEF Finish, Goto, child, history
<1>7. ASSUME NEW e \in Executor, Crash(e) PROVE Types'
  BY <1>7 DEF Crash, Goto
<1>8. ASSUME NEW e \in Executor, ChildReports(e) PROVE Types'
  BY <1>8 DEF ChildReports, Written, Child, child, history
<1>9. ASSUME NEW e \in Executor, ChildMoves(e) PROVE Types'
  BY <1>9 DEF ChildMoves, Child, clock, history
<1>10. ASSUME NEW e \in Executor, OrphanReports(e) PROVE Types'
  BY <1>10 DEF OrphanReports, Written, Child, child, clock, history
<1>11. ASSUME NEW e \in Executor, OrphanEnds(e) PROVE Types'
  BY <1>11 DEF OrphanEnds, child, history
<1>12. ASSUME NEW e \in Executor, WindowPasses(e) PROVE Types'
  BY <1>12 DEF WindowPasses, child, history
<1>13. ASSUME NEW e \in Executor, TimeoutPasses(e) PROVE Types'
  BY <1>13 DEF TimeoutPasses, child, history
<1>14. CASE UNCHANGED vars
  BY <1>14 DEF vars
<1>15. QED
  BY <1>1, <1>2, <1>3, <1>4, <1>5, <1>6, <1>7, <1>8, <1>9,
     <1>10, <1>11, <1>12, <1>13, <1>14 DEF Next

\* Every step keeps what the stages of an execution say.
LEMMA StagesStep == Types /\ Stages /\ [Next]_vars => Stages'
<1> SUFFICES ASSUME Types, Stages, [Next]_vars, NEW x \in Executor
             PROVE  Guarding(x)' /\ Judged(x)' /\ Settled(x)'
  BY DEF Stages
<1> USE DEF Types, Stages, Guarding, Judged, Settled, Alive, Ended
<1>1. ASSUME NEW e \in Executor, Start(e) PROVE Guarding(x)' /\ Judged(x)' /\ Settled(x)'
  BY <1>1 DEF Start, Launch, Goto
<1>2. ASSUME NEW e \in Executor, Poll(e) PROVE Guarding(x)' /\ Judged(x)' /\ Settled(x)'
  BY <1>2 DEF Poll, Goto, child, history
<1>3. ASSUME NEW e \in Executor, Stop(e) PROVE Guarding(x)' /\ Judged(x)' /\ Settled(x)'
  <2>1. CASE x # e
    BY <1>3, <2>1 DEF Stop, Goto, child
  <2>2. CASE x = e /\ leader[e] \in Ended
    BY <1>3, <2>2, ZenonT(60) DEF Stop, Goto, child
  <2>3. CASE x = e /\ leader[e] \in Alive
    <3>1. helper'[e] # "lives"
      BY <1>3, <2>3 DEF Stop, Signalled
    <3>2. QED
      BY <1>3, <2>3, <3>1 DEF Stop, Goto, child
  <2>4. QED
    BY <1>3, <2>1, <2>2, <2>3 DEF Stop
<1>4. ASSUME NEW e \in Executor, Kill(e) PROVE Guarding(x)' /\ Judged(x)' /\ Settled(x)'
  BY <1>4 DEF Kill, Goto
<1>5. ASSUME NEW e \in Executor, Conclude(e) PROVE Guarding(x)' /\ Judged(x)' /\ Settled(x)'
  <2>1. receipts[e] = {} /\ leader[e] \in Ended /\ pc[e] = "verdict"
    BY <1>5 DEF Conclude
  <2>2. CASE Record(e)
    <3>1. receipts'[e] = {verdict[e]} /\ verdict[e] \in {"succeeded", "failed"}
      BY <1>5, <2>1, <2>2 DEF Record, Conclude
    <3>2. CASE x = e
      BY <2>1, <2>2, <3>1, <3>2 DEF Record, Goto, child
    <3>3. CASE x # e
      BY <2>2, <3>3 DEF Record, Goto, child
    <3>4. QED
      BY <3>2, <3>3
  <2>3. CASE Repaired(e) /\ Launch(e, 2) /\ UNCHANGED <<orphans, receipts, bounds, lapsed>>
    BY <2>1, <2>3 DEF Launch, Goto
  <2>4. QED
    BY <1>5, <2>2, <2>3 DEF Conclude
<1>6. ASSUME NEW e \in Executor, Finish(e) PROVE Guarding(x)' /\ Judged(x)' /\ Settled(x)'
  BY <1>6 DEF Finish, Goto, child, history
<1>7. ASSUME NEW e \in Executor, Crash(e) PROVE Guarding(x)' /\ Judged(x)' /\ Settled(x)'
  BY <1>7 DEF Crash, Goto
<1>8. ASSUME NEW e \in Executor, ChildReports(e) PROVE Guarding(x)' /\ Judged(x)' /\ Settled(x)'
  BY <1>8 DEF ChildReports, Written, Child, child, history
<1>9. ASSUME NEW e \in Executor, ChildMoves(e) PROVE Guarding(x)' /\ Judged(x)' /\ Settled(x)'
  BY <1>9 DEF ChildMoves, Child, clock, history
<1>10. ASSUME NEW e \in Executor, OrphanReports(e) PROVE Guarding(x)' /\ Judged(x)' /\ Settled(x)'
  BY <1>10 DEF OrphanReports, Written, Child, child, clock, history
<1>11. ASSUME NEW e \in Executor, OrphanEnds(e) PROVE Guarding(x)' /\ Judged(x)' /\ Settled(x)'
  BY <1>11 DEF OrphanEnds, child, history
<1>12. ASSUME NEW e \in Executor, WindowPasses(e) PROVE Guarding(x)' /\ Judged(x)' /\ Settled(x)'
  BY <1>12 DEF WindowPasses, child, history
<1>13. ASSUME NEW e \in Executor, TimeoutPasses(e) PROVE Guarding(x)' /\ Judged(x)' /\ Settled(x)'
  BY <1>13 DEF TimeoutPasses, child, history
<1>14. CASE UNCHANGED vars
  BY <1>14 DEF vars
<1>15. QED
  BY <1>1, <1>2, <1>3, <1>4, <1>5, <1>6, <1>7, <1>8, <1>9,
     <1>10, <1>11, <1>12, <1>13, <1>14 DEF Next

\* Only a crash leaves an orphan, and a lapse is forgotten only when none is left.
LEMMA OrphansStep == Types /\ OrphansAreLapsed /\ [Next]_vars => OrphansAreLapsed'
<1> SUFFICES ASSUME Types, OrphansAreLapsed, [Next]_vars PROVE OrphansAreLapsed'
  OBVIOUS
<1> USE DEF Types, OrphansAreLapsed, Alive, Ended
<1>1. ASSUME NEW e \in Executor, Start(e) PROVE OrphansAreLapsed'
  BY <1>1 DEF Start, Launch, Goto
<1>2. ASSUME NEW e \in Executor, Poll(e) PROVE OrphansAreLapsed'
  BY <1>2 DEF Poll, Goto, child, history
<1>3. ASSUME NEW e \in Executor, Stop(e) PROVE OrphansAreLapsed'
  BY <1>3 DEF Stop, Goto, child, Signalled
<1>4. ASSUME NEW e \in Executor, Kill(e) PROVE OrphansAreLapsed'
  BY <1>4 DEF Kill, Goto
<1>5. ASSUME NEW e \in Executor, Conclude(e) PROVE OrphansAreLapsed'
  BY <1>5 DEF Conclude, Record, Launch, Repaired, Goto, child
<1>6. ASSUME NEW e \in Executor, Finish(e) PROVE OrphansAreLapsed'
  BY <1>6 DEF Finish, Goto, child, history
<1>7. ASSUME NEW e \in Executor, Crash(e) PROVE OrphansAreLapsed'
  BY <1>7 DEF Crash, Goto
<1>8. ASSUME NEW e \in Executor, ChildReports(e) PROVE OrphansAreLapsed'
  BY <1>8 DEF ChildReports, Written, Child, child, history
<1>9. ASSUME NEW e \in Executor, ChildMoves(e) PROVE OrphansAreLapsed'
  BY <1>9 DEF ChildMoves, Child, clock, history
<1>10. ASSUME NEW e \in Executor, OrphanReports(e) PROVE OrphansAreLapsed'
  BY <1>10 DEF OrphanReports, Written, Child, child, clock, history
<1>11. ASSUME NEW e \in Executor, OrphanEnds(e) PROVE OrphansAreLapsed'
  BY <1>11 DEF OrphanEnds, child, history
<1>12. ASSUME NEW e \in Executor, WindowPasses(e) PROVE OrphansAreLapsed'
  BY <1>12 DEF WindowPasses, child, history
<1>13. ASSUME NEW e \in Executor, TimeoutPasses(e) PROVE OrphansAreLapsed'
  BY <1>13 DEF TimeoutPasses, child, history
<1>14. CASE UNCHANGED vars
  BY <1>14 DEF vars
<1>15. QED
  BY <1>1, <1>2, <1>3, <1>4, <1>5, <1>6, <1>7, <1>8, <1>9,
     <1>10, <1>11, <1>12, <1>13, <1>14 DEF Next

\* The entry is written by a child under guard or by an orphan, and outlives its
\* execution only in a lapse.
LEMMA EntryStep ==
    Types /\ Stages /\ OrphansAreLapsed /\ EntryIsOfARun /\ [Next]_vars => EntryIsOfARun'
<1> SUFFICES ASSUME Types, Stages, OrphansAreLapsed, EntryIsOfARun, [Next]_vars PROVE EntryIsOfARun'
  OBVIOUS
<1> USE DEF Types, Stages, Guarding, Judged, Settled, OrphansAreLapsed, EntryIsOfARun, Running,
            Alive, Ended
<1>1. ASSUME NEW e \in Executor, Start(e) PROVE EntryIsOfARun'
  BY <1>1 DEF Start, Launch, Goto
<1>2. ASSUME NEW e \in Executor, Poll(e) PROVE EntryIsOfARun'
  BY <1>2 DEF Poll, Goto, child, history
<1>3. ASSUME NEW e \in Executor, Stop(e) PROVE EntryIsOfARun'
  BY <1>3 DEF Stop, Goto, child, Signalled
<1>4. ASSUME NEW e \in Executor, Kill(e) PROVE EntryIsOfARun'
  BY <1>4, SMTT(30) DEF Kill, Goto
<1>5. ASSUME NEW e \in Executor, Conclude(e) PROVE EntryIsOfARun'
  BY <1>5 DEF Conclude, Record, Launch, Repaired, Goto, child
<1>6. ASSUME NEW e \in Executor, Finish(e) PROVE EntryIsOfARun'
  BY <1>6 DEF Finish, Goto, child, history
<1>7. ASSUME NEW e \in Executor, Crash(e) PROVE EntryIsOfARun'
  BY <1>7 DEF Crash, Goto
<1>8. ASSUME NEW e \in Executor, ChildReports(e) PROVE EntryIsOfARun'
  BY <1>8 DEF ChildReports, Written, Child, child, history
<1>9. ASSUME NEW e \in Executor, ChildMoves(e) PROVE EntryIsOfARun'
  BY <1>9 DEF ChildMoves, Child, clock, history
<1>10. ASSUME NEW e \in Executor, OrphanReports(e) PROVE EntryIsOfARun'
  BY <1>10 DEF OrphanReports, Written, Child, child, clock, history
<1>11. ASSUME NEW e \in Executor, OrphanEnds(e) PROVE EntryIsOfARun'
  BY <1>11 DEF OrphanEnds, child, history
<1>12. ASSUME NEW e \in Executor, WindowPasses(e) PROVE EntryIsOfARun'
  BY <1>12 DEF WindowPasses, child, history
<1>13. ASSUME NEW e \in Executor, TimeoutPasses(e) PROVE EntryIsOfARun'
  BY <1>13 DEF TimeoutPasses, child, history
<1>14. CASE UNCHANGED vars
  BY <1>14 DEF vars
<1>15. QED
  BY <1>1, <1>2, <1>3, <1>4, <1>5, <1>6, <1>7, <1>8, <1>9,
     <1>10, <1>11, <1>12, <1>13, <1>14 DEF Next

-----------------------------------------------------------------------------
\* The inductive invariant.
THEOREM ExecutionInvariant == Spec => []IInv
<1>1. Init => IInv
  BY DEF Init, IInv, Types, Stages, Guarding, Judged, Settled, OrphansAreLapsed,
         EntryIsOfARun, Alive, Ended
<1>2. IInv /\ [Next]_vars => IInv'
  BY TypesStep, StagesStep, OrphansStep, EntryStep DEF IInv
<1>3. QED
  BY <1>1, <1>2, PTL DEF Spec

\* Every reachable state has the types of TypeOK.
THEOREM TypeCorrect == Spec => []TypeOK
<1>1. IInv => TypeOK
  BY DEF IInv, Types, Stages, Settled, TypeOK
<1>2. QED
  BY <1>1, ExecutionInvariant, PTL

\* At most one receipt: the sets of receipts that occur.
LEMMA OneReceipt == ASSUME NEW R, R \in {{}, {"succeeded"}, {"failed"}}
                    PROVE  Cardinality(R) <= 1
<1>1. Cardinality({}) = 0
  BY FS_EmptySet
<1>2. Cardinality({"succeeded"}) = 1 /\ Cardinality({"failed"}) = 1
  BY FS_Singleton
<1>3. QED
  BY <1>1, <1>2

\* ExecutionsAreAccountedFor, for every set of executors: the receipts of an execution
\* tell one story, and what it leaves behind is there for a reason
\* (execute_stage_process, _stop_stage_process, clear_worker_task_progress).
THEOREM AccountedFor == Spec => []ExecutionsAreAccountedFor
<1>1. IInv => OneStory
  <2> SUFFICES ASSUME IInv, NEW e \in Executor
               PROVE  /\ Cardinality(receipts[e]) <= 1
                      /\ pc[e] = "recorded" => receipts[e] = {verdict[e]}
                      /\ leader[e] = "ok" /\ verdict[e] = "failed" => finished[e]
    BY DEF OneStory
  <2>1. Judged(e) /\ Settled(e)
    BY DEF IInv, Stages
  <2>2. Cardinality(receipts[e]) <= 1
    BY <2>1, OneReceipt DEF Settled
  <2>3. QED
    BY <2>1, <2>2 DEF Judged, Settled
<1>2. IInv => SurvivorHasCause
  BY DEF IInv, Types, Stages, Judged, SurvivorHasCause
<1>3. IInv => ExecutionsAreAccountedFor
  BY <1>1, <1>2 DEF IInv, TracesHaveCause, ExecutionsAreAccountedFor
<1>4. QED
  BY <1>3, ExecutionInvariant, PTL

-----------------------------------------------------------------------------
(* ReplayInputs: counting.                                                    *)

\* A set whose values are bounded has a greatest.
LEMMA Greatest ==
    ASSUME NEW S, S # {}, NEW f, \A x \in S : f[x] \in Nat, NEW b \in Nat, \A x \in S : f[x] <= b
    PROVE  \E x \in S : \A y \in S : f[y] <= f[x]
<1> DEFINE R == {ss \in Nat \X Nat : ss[1] < ss[2]}
           T == {b - f[x] : x \in S}
<1>1. IsWellFoundedOn(R, Nat)
  BY NatLessThanWellFounded DEF OpToRel
<1>2. T \in SUBSET Nat /\ T # {} /\ \A y \in S : b - f[y] \in T
  OBVIOUS
<1>3. \A x, y \in Nat : x < y => <<x, y>> \in R
  OBVIOUS
<1>4. \A k \in T : \E x \in S : k = b - f[x]
  OBVIOUS
<1> HIDE DEF R, T
<1>5. PICK m \in T : \A k \in T : ~(<<k, m>> \in R)
  BY <1>1, <1>2, WFMin
<1>6. PICK x \in S : m = b - f[x]
  BY <1>4
<1>7. ASSUME NEW y \in S PROVE f[y] <= f[x]
  <2>1. ~(b - f[y] < m)
    BY <1>2, <1>3, <1>5
  <2>2. f[x] \in Nat /\ f[y] \in Nat
    OBVIOUS
  <2>3. QED
    BY <1>6, <2>1, <2>2
<1>8. QED
  BY <1>7

\* The sets of a family, one for each element of D and none greater than k, have at
\* most k elements for each of D together.
LEMMA FamilySize ==
    ASSUME NEW D, IsFiniteSet(D), NEW C \in [D -> SUBSET Signal], IsFiniteSet(Signal), NEW k \in Nat,
           \A d \in D : Cardinality(C[d]) <= k,
           NEW S, S \subseteq UNION {C[d] : d \in D}
    PROVE  IsFiniteSet(S) /\ Cardinality(S) <= Cardinality((1 .. k) \X D)
<1> DEFINE N == (1 .. k) \X D
<1>1. IsFiniteSet(1 .. k) /\ IsFiniteSet(N)
  <2>1. 1 \in Int /\ k \in Int
    OBVIOUS
  <2>2. IsFiniteSet(1 .. k)
    BY <2>1, FS_Interval
  <2>3. QED
    BY <2>2, FS_Product
<1>2. \A d \in D : IsFiniteSet(C[d]) /\ Cardinality(C[d]) \in Nat
                   /\ ExistsBijection(1 .. Cardinality(C[d]), C[d])
  <2>1. SUFFICES ASSUME NEW d \in D
                 PROVE  IsFiniteSet(C[d]) /\ Cardinality(C[d]) \in Nat
                        /\ ExistsBijection(1 .. Cardinality(C[d]), C[d])
    OBVIOUS
  <2>2. C[d] \in SUBSET Signal
    OBVIOUS
  <2>3. IsFiniteSet(C[d])
    BY <2>2, FS_Subset
  <2>4. QED
    BY <2>3, FS_CardinalityType
<1> DEFINE g == [d \in D |-> CHOOSE f : f \in Bijection(1 .. Cardinality(C[d]), C[d])]
<1>3. \A d \in D : g[d] \in Bijection(1 .. Cardinality(C[d]), C[d])
  BY <1>2 DEF ExistsBijection
<1> HIDE DEF g
<1>4. \A d \in D : \A x \in C[d] : \E i \in 1 .. Cardinality(C[d]) : g[d][i] = x
  BY <1>3 DEF Bijection, Surjection
<1>5. \A x \in S : \E n \in N : g[n[2]][n[1]] = x
  <2>1. SUFFICES ASSUME NEW x \in S PROVE \E n \in N : g[n[2]][n[1]] = x
    OBVIOUS
  <2>2. PICK d \in D : x \in C[d]
    OBVIOUS
  <2>3. PICK i \in 1 .. Cardinality(C[d]) : g[d][i] = x
    BY <1>4, <2>2
  <2>4. Cardinality(C[d]) \in Nat /\ Cardinality(C[d]) <= k
    BY <1>2
  <2>5. i \in 1 .. k
    BY <2>3, <2>4
  <2>6. <<i, d>> \in N /\ g[<<i, d>>[2]][<<i, d>>[1]] = x
    BY <2>3, <2>5
  <2>7. QED
    BY <2>6
<1> HIDE DEF N
<1> DEFINE h == [x \in S |-> CHOOSE n \in N : g[n[2]][n[1]] = x]
<1>6. \A x \in S : h[x] \in N /\ g[h[x][2]][h[x][1]] = x
  BY <1>5
<1> HIDE DEF h
<1>7. h \in [S -> N]
  BY <1>6 DEF h
<1>8. h \in Injection(S, N)
  BY <1>6, <1>7 DEF Injection, IsInjective
<1>9. QED
  BY <1>1, <1>8, FS_Injection DEF N

-----------------------------------------------------------------------------
(* ReplayInputs: the order of the rows.                                       *)

\* What the assumption says of the order and of the limits.
LEMMA Constants ==
    /\ Order \in Seq(Signal) /\ DOMAIN Order = 1 .. Len(Order) /\ Len(Order) \in Nat
    /\ \A x \in Signal : \E i \in DOMAIN Order : Order[i] = x
    /\ ProviderLimit \in Nat \ {0} /\ FeatureLimit \in Nat \ {0}
  BY InputAssumption DEF Signal, ToSet

\* A signal has one place.
LEMMA Places ==
    \A x \in Signal : Place(Order, x) \in 1 .. Len(Order) /\ Order[Place(Order, x)] = x
  BY Constants DEF Place

\* There are finitely many signals and drainers.
LEMMA SignalsAreFinite == IsFiniteSet(Signal) /\ IsFiniteSet(Drainer)
<1>1. IsFiniteSet(1 .. Len(Order))
  BY Constants, FS_Interval
<1>2. Order \in Surjection(1 .. Len(Order), Signal)
  BY Constants DEF Surjection
<1>3. IsFiniteSet({"daemon"}) /\ Drainer = {"daemon"} \cup {"operator"}
  BY FS_Singleton DEF Drainer
<1>4. QED
  BY <1>1, <1>2, <1>3, FS_Surjection, FS_AddElement

\* The first n of a set of signals are at most n.
LEMMA FirstAreFew ==
    ASSUME NEW S \in SUBSET Signal, NEW n \in Nat \ {0}
    PROVE  /\ First(S, n) \subseteq S
           /\ IsFiniteSet(First(S, n)) /\ Cardinality(First(S, n)) <= n
<1> DEFINE F == First(S, n)
           Earlier(x) == {y \in S : Place(Order, y) < Place(Order, x)}
           place == [x \in F |-> Place(Order, x)]
<1>1. F = {x \in S : Cardinality(Earlier(x)) < n}
  BY DEF First, Foremost
<1>2. F \subseteq S /\ IsFiniteSet(F) /\ Cardinality(F) \in Nat
  BY <1>1, SignalsAreFinite, FS_Subset, FS_CardinalityType
<1>3. CASE F = {}
  BY <1>2, <1>3, FS_EmptySet
<1>4. CASE F # {}
  <2> HIDE DEF F
  <2>1. \A x \in F : place[x] \in Nat /\ place[x] <= Len(Order)
    BY <1>2, Places, Constants
  <2>2. PICK x \in F : \A y \in F : place[y] <= place[x]
    <3> HIDE DEF place
    <3>1. QED
      BY <1>4, <2>1, Greatest, Constants
  <2>3. \A y \in F : y # x => y \in Earlier(x)
    <3>1. SUFFICES ASSUME NEW y \in F, y # x PROVE y \in Earlier(x)
      OBVIOUS
    <3>2. Place(Order, y) # Place(Order, x)
      BY <1>2, <3>1, Places
    <3>3. Place(Order, y) \in Nat /\ Place(Order, x) \in Nat
      BY <1>2, Places, Constants
    <3>4. Place(Order, y) <= Place(Order, x)
      BY <2>2
    <3>5. QED
      BY <1>2, <3>2, <3>3, <3>4
  <2>4. x \in S /\ Cardinality(Earlier(x)) < n
    BY <1>1
  <2>5. Earlier(x) \in SUBSET S /\ IsFiniteSet(S)
    BY SignalsAreFinite, FS_Subset
  <2>6. IsFiniteSet(Earlier(x)) /\ Cardinality(Earlier(x)) \in Nat
    BY <2>5, FS_Subset, FS_CardinalityType
  <2> HIDE DEF Earlier
  <2>7. F \ {x} \in SUBSET Earlier(x)
    BY <2>3
  <2>8. Cardinality(F \ {x}) <= Cardinality(Earlier(x))
    BY <2>6, <2>7, FS_Subset
  <2>9. Cardinality(F \ {x}) = Cardinality(F) - 1
    BY <1>2, FS_RemoveElement
  <2>10. Cardinality(F) <= n
    BY <1>2, <2>4, <2>6, <2>8, <2>9
  <2>11. QED
    BY <1>2, <2>10 DEF F
<1>5. QED
  BY <1>3, <1>4

\* Of a set of signals that is not empty there is a first.
LEMMA FirstAreSome ==
    ASSUME NEW S \in SUBSET Signal, S # {}, NEW n \in Nat \ {0} PROVE First(S, n) # {}
<1> DEFINE after == [x \in S |-> Len(Order) - Place(Order, x)]
<1>1. \A x \in S : Place(Order, x) \in 1 .. Len(Order) /\ after[x] = Len(Order) - Place(Order, x)
  BY Places
<1>2. \A x \in S : after[x] \in Nat /\ after[x] <= Len(Order)
  BY <1>1, Constants
<1> HIDE DEF after
<1>3. PICK x \in S : \A y \in S : after[y] <= after[x]
  BY <1>2, Greatest, Constants
<1>4. \A y \in S : ~(Place(Order, y) < Place(Order, x))
  BY <1>1, <1>3, Constants
<1>5. {y \in S : Place(Order, y) < Place(Order, x)} = {}
  BY <1>4
<1>6. Cardinality({y \in S : Place(Order, y) < Place(Order, x)}) < n
  BY <1>5, FS_EmptySet
<1>7. QED
  BY <1>6 DEF First, Foremost

-----------------------------------------------------------------------------
(* ReplayInputs: what a step does.                                            *)

Points == {"plan", "replay", "path", "read", "lock", "ask", "settle", "generate", "report", "close"}
Critical == {"ask", "settle", "generate"}
Groups == {Group(r) : r \in Signal}
Job == [at : Points, artifact : SUBSET Signal, batch : SUBSET Signal, ask : SUBSET Signal,
        defer : SUBSET Signal, todo : SUBSET Signal, gen : SUBSET Groups, allowed : BOOLEAN,
        pending : BOOLEAN, verdict : Verdicts]

DataTypes ==
    /\ source \subseteq receipt /\ receipt \subseteq Signal /\ feature \subseteq source
    /\ marker \subseteq Signal /\ refused \subseteq Signal /\ artifact \subseteq Signal
    /\ status \in {"ready", "ready of another", "other"}
    /\ lock \in Drainer \union {"free"}
    /\ path \subseteq ToSet(Contracts) /\ barren \subseteq ToSet(Contracts)

\* A batch asks for few signals of its artifact, and only while it is under way; those
\* whose month is no longer to be sent have their receipt.
Fits(j, given) ==
    /\ j.batch \union j.ask \union j.defer \subseteq j.artifact
    /\ j.at \notin Critical \union {"lock"} => j.ask = {}
    /\ j.at \in {"ask", "settle"} => j.ask \ j.todo \subseteq given
    /\ j.at = "settle" => j.todo = {}
    /\ Cardinality(j.ask) <= ProviderLimit

InputInv ==
    /\ DataTypes /\ job \in [Drainer -> Job]
    /\ \A p \in Drainer : Fits(job[p], receipt) /\ (job[p].at \in Critical <=> lock = p)

\* A step moves one job.  It marks what has a receipt and no rows, or all that a refused
\* batch had asked for; what a batch begins to ask for is not marked.
StepOf(p, j) ==
    /\ j \in Job /\ job' = [job EXCEPT ![p] = j]
    /\ Fits(j, receipt') /\ (j.at \in Critical <=> lock' = p)
    /\ \A q \in Drainer \ {p} : lock' = q <=> lock = q
    /\ DataTypes'
    /\ marker \subseteq marker' /\ refused \subseteq refused' /\ receipt \subseteq receipt'
    /\ feature \subseteq feature' /\ receipt \ source \subseteq receipt' \ source'
    /\ \/ /\ j.ask \subseteq job[p].ask \union (Signal \ marker)
          /\ marker' \subseteq marker \union (receipt' \ source')
       \/ /\ j.ask = {} /\ marker' = marker \union job[p].ask
          /\ \E q \in job[p].ask : q \in refused'

\* Nothing is marked in a step that leaves the database alone.
LEMMA CalmStep ==
    ASSUME InputInv, NEW p \in Drainer, NEW j \in Job, UNCHANGED database, Set(p, j),
           Fits(j, receipt), j.at \in Critical <=> lock' = p,
           \A q \in Drainer \ {p} : lock' = q <=> lock = q,
           lock' \in Drainer \union {"free"}, artifact' \subseteq Signal,
           status' \in {"ready", "ready of another", "other"},
           path' \subseteq ToSet(Contracts), barren' \subseteq ToSet(Contracts),
           j.ask \subseteq job[p].ask \union (Signal \ marker)
    PROVE  StepOf(p, j)
  BY DEF InputInv, StepOf, DataTypes, database, Set

\* A drainer at rest fits whatever has been given.
LEMMA NoJobFits ==
    /\ NoJob \in Job /\ NoJob.at = "plan" /\ NoJob.ask = {} /\ NoJob.batch = {}
    /\ NoJob.defer = {} /\ NoJob.todo = {} /\ IsFiniteSet({}) /\ Cardinality({}) = 0
    /\ \A given : Fits(NoJob, given)
<1>1. IsFiniteSet({}) /\ Cardinality({}) = 0
  BY FS_EmptySet
<1>2. NoJob \in Job
  BY DEF NoJob, Job, Points, Verdicts
<1>3. QED
  BY <1>1, <1>2, Constants DEF NoJob, Fits, Critical

\* A batch that begins asks for signals that are not marked.
LEMMA BeginStep ==
    ASSUME InputInv, NEW p \in Drainer, Begin(p) PROVE \E j : StepOf(p, j)
<1> DEFINE k == job[p]
           batch == First(k.artifact \ Covered, FeatureLimit)
           missing == batch \ source
           ask == First(missing, ProviderLimit)
           gen == {Group(r) : r \in batch \cap source}
           j == IF batch = {}
                THEN [k EXCEPT !.at = "report"]
                ELSE [k EXCEPT !.at = "lock", !.batch = batch, !.ask = ask, !.defer = missing \ ask,
                               !.gen = gen]
<1>1. k \in Job /\ k.at = "read" /\ Fits(k, receipt) /\ Set(p, j)
      /\ UNCHANGED <<database, outcome, status, lock>>
  BY DEF Begin, InputInv
<1>2. k.artifact \ Covered \in SUBSET Signal
  BY <1>1 DEF Job
<1>3. batch \subseteq k.artifact \ Covered
  BY <1>2, Constants, FirstAreFew
<1>4. missing \in SUBSET Signal
  BY <1>2, <1>3
<1>5. ask \subseteq missing /\ Cardinality(ask) <= ProviderLimit
  BY <1>4, Constants, FirstAreFew
<1> HIDE DEF ask, batch
<1>6. gen \in SUBSET Groups
  BY <1>2, <1>3 DEF Groups
<1> HIDE DEF gen
<1>7. k.ask = {}
  BY <1>1 DEF Fits, Critical
<1>8. j \in Job
  BY <1>1, <1>2, <1>3, <1>5, <1>6 DEF Job, Points
<1>9. Fits(j, receipt) /\ j.at \notin Critical /\ j.ask \subseteq Signal \ marker
  <2>1. CASE batch = {}
    <3>1. j = [k EXCEPT !.at = "report"]
      BY <2>1
    <3>2. j.at = "report" /\ j.ask = {} /\ j.batch = k.batch /\ j.defer = k.defer /\ j.artifact = k.artifact
      BY <1>1, <1>7, <3>1 DEF Job
    <3>3. QED
      BY <1>1, <1>7, <3>2 DEF Fits, Critical
  <2>2. CASE batch # {}
    <3>1. /\ j.at = "lock" /\ j.ask = ask /\ j.batch = batch /\ j.defer = missing \ ask
          /\ j.artifact = k.artifact
      BY <1>1, <2>2 DEF Job
    <3>2. QED
      BY <1>2, <1>3, <1>5, <3>1 DEF Fits, Critical, Covered
  <2>3. QED
    BY <2>1, <2>2
<1>10. k.at \notin Critical
  BY <1>1 DEF Critical
<1> HIDE DEF j, k
<1>11. StepOf(p, j)
  BY <1>1, <1>8, <1>9, <1>10, CalmStep DEF k, InputInv, DataTypes, outcome
<1>12. QED
  BY <1>11

\* What ends a batch asks for nothing more.
LEMMA Concluded ==
    ASSUME NEW k \in Job, Fits(k, receipt), NEW v \in Verdicts
    PROVE  LET j == [k EXCEPT !.at = "report", !.verdict = v, !.batch = {}, !.ask = {},
                              !.defer = {}, !.todo = {}, !.gen = {}]
           IN  /\ j \in Job /\ j.at \notin Critical /\ j.ask = {} /\ j.at = "report" /\ j.verdict = v
               /\ \A given : Fits(j, given)
<1> DEFINE j == [k EXCEPT !.at = "report", !.verdict = v, !.batch = {}, !.ask = {},
                          !.defer = {}, !.todo = {}, !.gen = {}]
<1>1. j \in Job
  BY DEF Job, Points
<1>2. /\ j.at = "report" /\ j.ask = {} /\ j.batch = {} /\ j.defer = {} /\ j.todo = {}
      /\ j.verdict = v
  BY DEF Job
<1> HIDE DEF j
<1>3. j.at \notin Critical
  BY <1>2 DEF Critical
<1>4. \A given : Fits(j, given)
  BY <1>2, NoJobFits, Constants DEF Fits, Critical
<1>5. QED
  BY <1>1, <1>2, <1>3, <1>4 DEF j

\* Taking the lock, or giving the batch up, marks nothing.
LEMMA EnterStep ==
    ASSUME InputInv, NEW p \in Drainer, Enter(p) PROVE \E j : StepOf(p, j)
<1> DEFINE k == job[p]
<1>1. k \in Job /\ k.at = "lock" /\ Fits(k, receipt) /\ lock # p
      /\ UNCHANGED <<database, outcome, status>>
  BY DEF Enter, InputInv, Critical
<1>2. ASSUME NEW v \in {"lock_active", "required"}, EndBatch(p, v), UNCHANGED lock
      PROVE  \E j : StepOf(p, j)
  <2> DEFINE j == [k EXCEPT !.at = "report", !.verdict = v, !.batch = {}, !.ask = {},
                          !.defer = {}, !.todo = {}, !.gen = {}]
  <2>1. Set(p, j)
    BY <1>2 DEF EndBatch
  <2>2. v \in Verdicts
    BY DEF Verdicts
  <2>3. j \in Job /\ j.at \notin Critical /\ j.ask = {} /\ Fits(j, receipt)
    BY <1>1, <2>2, Concluded
  <2> HIDE DEF j
  <2>4. StepOf(p, j)
    BY <1>1, <1>2, <2>1, <2>3, CalmStep DEF InputInv, DataTypes, outcome
  <2>5. QED
    BY <2>4
<1> DEFINE e == [k EXCEPT !.at = IF k.ask # {} /\ k.allowed THEN "ask" ELSE "generate",
                          !.todo = k.ask]
<1>3. ASSUME lock = "free", lock' = p, Set(p, e)
      PROVE  \E j : StepOf(p, j)
  <2>1. e \in Job /\ e.at \in {"ask", "generate"} /\ e.ask = k.ask /\ e.todo = k.ask
        /\ e.batch = k.batch /\ e.defer = k.defer /\ e.artifact = k.artifact
    BY <1>1 DEF Job, Points
  <2>2. Fits(e, receipt) /\ e.at \in Critical
    BY <1>1, <2>1 DEF Fits, Critical
  <2>3. "free" \notin Drainer
    BY DEF Drainer
  <2> HIDE DEF e
  <2>4. StepOf(p, e)
    BY <1>1, <1>3, <2>1, <2>2, <2>3, CalmStep DEF InputInv, DataTypes, outcome
  <2>5. QED
    BY <2>4
<1>4. \/ \E v \in {"lock_active", "required"} : EndBatch(p, v) /\ UNCHANGED lock
      \/ lock = "free" /\ lock' = p /\ Set(p, e)
  BY DEF Enter
<1>5. QED
  BY <1>2, <1>3, <1>4

\* The answers to the requests of a month that were sent.
LEMMA SentAreFresh ==
    ASSUME NEW p, NEW due, NEW answer PROVE Sent(p, due, answer) \subseteq due
  BY DEF Sent

\* A month of requests is answered: nothing is marked, or all the refused batch asked for.
LEMMA AskStep ==
    ASSUME InputInv, NEW p \in Drainer, Ask(p) PROVE \E j : StepOf(p, j)
<1> DEFINE k == job[p]
<1>1. PICK answer \in [k.ask \ receipt -> Answers] : k.at = "ask" /\ Dispatch(p, answer)
  BY DEF Ask
<1> DEFINE m == FirstMonth(k.todo)
           due == {r \in k.ask \ receipt : Month[r] = m}
           left == {r \in k.todo : Month[r] # m}
           sent == Sent(p, due, answer)
           good == {r \in sent : answer[r] \in {"rows", "empty"}}
           rows == {r \in good : answer[r] = "rows"}
           g == [k EXCEPT !.todo = left, !.at = IF left = {} THEN "settle" ELSE "ask"]
<1>2. k \in Job /\ Fits(k, receipt) /\ lock = p /\ DataTypes
  BY <1>1 DEF InputInv, Critical
<1>3. /\ receipt' = receipt \union good /\ source' = source \union rows
      /\ refused' = refused \union {r \in sent : answer[r] = "refused"}
      /\ UNCHANGED <<feature, outcome, status, budget>>
      /\ \/ good = due /\ Set(p, g) /\ UNCHANGED <<marker, lock>>
         \/ \E r \in sent \ good : marker' = MarkRefused(p, answer[r])
                                  /\ Release(p, Failed(answer[r]))
  BY <1>1 DEF Dispatch
<1>4. due \subseteq k.ask \ receipt /\ \A r \in k.ask \ receipt : r \notin due => Month[r] # m
  OBVIOUS
<1>5. sent \subseteq due
  BY SentAreFresh
<1>6. good \subseteq sent /\ rows \subseteq good
  OBVIOUS
<1>7. left \subseteq k.todo /\ \A r \in k.todo : r \notin left => Month[r] = m
  OBVIOUS
<1>8. k.ask \subseteq Signal /\ k.todo \subseteq Signal
  BY <1>2 DEF Job
<1> DEFINE bad == {r \in sent : answer[r] = "refused"}
<1>9. bad \subseteq sent
  OBVIOUS
<1>10. \A r \in sent \ good : answer[r] \in Answers /\ (answer[r] = "refused" => r \in bad)
  BY <1>4, <1>5
<1>11. /\ receipt' = receipt \union good /\ source' = source \union rows
       /\ refused' = refused \union bad
  BY <1>3
<1> HIDE DEF m, due, sent, good, rows, bad, left
<1>12. /\ refused \subseteq refused' /\ receipt \subseteq receipt' /\ feature \subseteq feature'
       /\ receipt \ source \subseteq receipt' \ source'
  BY <1>3, <1>4, <1>5, <1>6, <1>11
<1>13. /\ source' \subseteq receipt' /\ receipt' \subseteq Signal /\ feature' \subseteq source'
       /\ refused' \subseteq Signal
  BY <1>2, <1>3, <1>4, <1>5, <1>6, <1>8, <1>9, <1>11 DEF DataTypes
<1>14. /\ artifact' \subseteq Signal /\ status' \in {"ready", "ready of another", "other"}
       /\ path' \subseteq ToSet(Contracts) /\ barren' \subseteq ToSet(Contracts)
  BY <1>2, <1>3 DEF DataTypes, outcome
<1>15. ASSUME good = due, Set(p, g), UNCHANGED <<marker, lock>>
       PROVE  \E j : StepOf(p, j)
  <2>1. g \in Job /\ g.at = (IF left = {} THEN "settle" ELSE "ask") /\ g.todo = left /\ g.ask = k.ask
        /\ g.batch = k.batch /\ g.defer = k.defer /\ g.artifact = k.artifact
    BY <1>2, <1>7, <1>8 DEF Job, Points
  <2>2. k.ask \ left \subseteq receipt'
    <3>1. k.ask \ k.todo \subseteq receipt
      BY <1>1, <1>2 DEF Fits
    <3>2. SUFFICES ASSUME NEW r \in k.ask, r \notin left, r \notin receipt PROVE r \in good
      BY <1>11
    <3>3. r \in k.todo
      BY <3>1, <3>2
    <3>4. Month[r] = m
      BY <1>7, <3>2, <3>3
    <3>5. QED
      BY <1>4, <1>15, <3>2, <3>4
  <2>3. Fits(g, receipt') /\ g.at \in Critical
    BY <1>2, <2>1, <2>2 DEF Fits, Critical
  <2>4. DataTypes'
    BY <1>2, <1>13, <1>14, <1>15 DEF DataTypes
  <2> HIDE DEF g
  <2>5. StepOf(p, g)
    BY <1>2, <1>12, <1>15, <2>1, <2>3, <2>4 DEF StepOf, Set
  <2>6. QED
    BY <2>5
<1>16. ASSUME NEW r \in sent \ good, marker' = MarkRefused(p, answer[r]), Release(p, Failed(answer[r]))
       PROVE  \E j : StepOf(p, j)
  <2> DEFINE v == Failed(answer[r])
             e == [k EXCEPT !.at = "report", !.verdict = v, !.batch = {}, !.ask = {},
                            !.defer = {}, !.todo = {}, !.gen = {}]
  <2>1. v \in Verdicts
    BY <1>10 DEF Failed, Verdicts, Answers
  <2>2. Set(p, e) /\ lock' = "free"
    BY <1>16 DEF Release, EndBatch
  <2>3. e \in Job /\ e.at \notin Critical /\ e.ask = {} /\ Fits(e, receipt')
    BY <1>2, <2>1, Concluded
  <2>4. \/ marker' = marker
        \/ marker' = marker \union k.ask /\ r \in bad
    BY <1>10, <1>16 DEF MarkRefused
  <2>5. marker \subseteq marker' /\ marker' \subseteq Signal
    BY <1>2, <1>8, <2>4 DEF DataTypes
  <2>6. DataTypes'
    BY <1>13, <1>14, <2>2, <2>5 DEF DataTypes
  <2>7. r \in k.ask /\ (r \in bad => r \in refused')
    BY <1>4, <1>5, <1>11, <1>16
  <2>8. "free" \notin Drainer
    BY DEF Drainer
  <2> HIDE DEF e, v
  <2>9. \/ /\ e.ask \subseteq job[p].ask \union (Signal \ marker)
           /\ marker' \subseteq marker \union (receipt' \ source')
        \/ /\ e.ask = {} /\ marker' = marker \union job[p].ask
           /\ \E q \in job[p].ask : q \in refused'
    BY <2>3, <2>4, <2>7
  <2>10. /\ e.at \in Critical <=> lock' = p
         /\ \A q \in Drainer \ {p} : lock' = q <=> lock = q
    BY <1>2, <2>2, <2>3, <2>8
  <2>11. job' = [job EXCEPT ![p] = e]
    BY <2>2 DEF Set
  <2>12. StepOf(p, e)
    BY <1>12, <2>3, <2>5, <2>6, <2>9, <2>10, <2>11 DEF StepOf
  <2>13. QED
    BY <2>12
<1>17. QED
  BY <1>3, <1>15, <1>16 DEF g, good, due, left, sent, m

\* What is marked when the requests went through has a receipt and no rows.
LEMMA SettleStep ==
    ASSUME InputInv, NEW p \in Drainer, Settle(p) PROVE \E j : StepOf(p, j)
<1> DEFINE k == job[p]
           still == k.ask \ source
           gen == k.gen \union {Group(r) : r \in k.ask \cap source}
           g == [k EXCEPT !.at = "generate", !.gen = gen]
<1>1. k.at = "settle" /\ k \in Job /\ Fits(k, receipt) /\ lock = p /\ DataTypes
  BY DEF InputInv, Critical, Settle
<1>2. k.ask \subseteq receipt /\ k.ask \subseteq Signal
  BY <1>1 DEF Fits, Job
<1>3. marker' = marker \union still /\ UNCHANGED <<source, feature, receipt, refused, outcome, status>>
      /\ \/ Set(p, g) /\ UNCHANGED lock
         \/ \E v \in {"unavailable_more", "unavailable"} : Release(p, v)
  BY DEF Settle
<1>4. still \subseteq receipt \ source /\ still \subseteq Signal
  BY <1>2
<1>5. gen \in SUBSET Groups
  BY <1>1, <1>2 DEF Groups, Job
<1> HIDE DEF still, gen
<1>6. ASSUME NEW j \in Job, Set(p, j), Fits(j, receipt), j.ask \subseteq k.ask,
             j.at \in Critical <=> lock' = p, \A q \in Drainer \ {p} : lock' = q <=> lock = q,
             lock' \in Drainer \union {"free"}
      PROVE  StepOf(p, j)
  <2>1. DataTypes'
    BY <1>1, <1>3, <1>4, <1>6 DEF DataTypes, outcome
  <2>2. QED
    BY <1>3, <1>4, <1>6, <2>1 DEF StepOf, Set
<1>7. ASSUME Set(p, g), UNCHANGED lock PROVE \E j : StepOf(p, j)
  <2>1. g \in Job /\ g.at = "generate" /\ g.ask = k.ask /\ g.batch = k.batch /\ g.defer = k.defer
        /\ g.artifact = k.artifact
    BY <1>1, <1>5 DEF Job, Points
  <2>2. Fits(g, receipt) /\ g.at \in Critical
    BY <1>1, <2>1 DEF Fits, Critical
  <2> HIDE DEF g
  <2>3. StepOf(p, g)
    BY <1>1, <1>6, <1>7, <2>1, <2>2
  <2>4. QED
    BY <2>3
<1>8. ASSUME NEW v \in {"unavailable_more", "unavailable"}, Release(p, v) PROVE \E j : StepOf(p, j)
  <2> DEFINE e == [k EXCEPT !.at = "report", !.verdict = v, !.batch = {}, !.ask = {},
                            !.defer = {}, !.todo = {}, !.gen = {}]
  <2>1. Set(p, e) /\ lock' = "free"
    BY <1>8 DEF Release, EndBatch
  <2>2. v \in Verdicts
    BY DEF Verdicts
  <2>3. e \in Job /\ e.at \notin Critical /\ e.ask = {} /\ Fits(e, receipt)
    BY <1>1, <2>2, Concluded
  <2>4. "free" \notin Drainer
    BY DEF Drainer
  <2> HIDE DEF e
  <2>5. StepOf(p, e)
    BY <1>1, <1>6, <2>1, <2>3, <2>4
  <2>6. QED
    BY <2>5
<1>9. QED
  BY <1>3, <1>7, <1>8

\* The generator marks nothing and ends the batch.
LEMMA GenerateStep ==
    ASSUME InputInv, NEW p \in Drainer, Generate(p) PROVE \E j : StepOf(p, j)
<1> DEFINE k == job[p]
<1>1. k.at = "generate" /\ k \in Job /\ Fits(k, receipt) /\ lock = p /\ DataTypes
  BY DEF InputInv, Critical, Generate
<1>2. PICK v : /\ v \in Verdicts /\ Release(p, v)
               /\ feature \subseteq feature' /\ feature' \subseteq feature \union source
               /\ UNCHANGED <<source, marker, receipt, refused, outcome, status>>
  BY DEF Generate, Verdicts
<1> DEFINE e == [k EXCEPT !.at = "report", !.verdict = v, !.batch = {}, !.ask = {},
                          !.defer = {}, !.todo = {}, !.gen = {}]
<1>3. Set(p, e) /\ lock' = "free"
  BY <1>2 DEF Release, EndBatch
<1>4. e \in Job /\ e.at \notin Critical /\ e.ask = {} /\ Fits(e, receipt)
  BY <1>1, <1>2, Concluded
<1>5. "free" \notin Drainer
  BY DEF Drainer
<1> HIDE DEF e
<1>6. DataTypes'
  BY <1>1, <1>2, <1>3 DEF DataTypes, outcome
<1>7. StepOf(p, e)
  BY <1>1, <1>2, <1>3, <1>4, <1>5, <1>6 DEF StepOf, Set
<1>8. QED
  BY <1>7

\* What ends or begins a round asks for nothing.
LEMMA AtRest ==
    ASSUME NEW j, j.at \notin Critical \union {"lock"}, j.ask = {}, j.batch \union j.defer \subseteq j.artifact
    PROVE  j.at \notin Critical /\ \A given : Fits(j, given)
  BY NoJobFits, Constants DEF Fits, Critical

\* A signal with no chain is a signal.
LEMMA FrontiersAreSignals == \A frontier \in Frontiers : frontier \subseteq Signal
<1>1. ASSUME NEW n \in Reach PROVE First(Signal \ Covered, n) \subseteq Signal
  <2>1. n \in Nat \ {0} /\ Signal \ Covered \in SUBSET Signal
    BY InputAssumption
  <2>2. QED
    BY <2>1, FirstAreFew
<1>2. QED
  BY <1>1 DEF Frontiers

\* The steps of the daemon outside a batch.
LEMMA DaemonStep ==
    ASSUME InputInv,
           \/ Plan \/ Replay \/ Report \/ DaemonDies
           \/ \E ok \in BOOLEAN : FetchPaths(ok)
    PROVE  \E j : StepOf("daemon", j)
<1> DEFINE k == job["daemon"]
<1>1. k \in Job /\ Fits(k, receipt) /\ (k.at \in Critical <=> lock = "daemon") /\ DataTypes
      /\ "daemon" \in Drainer /\ "free" \notin Drainer
  BY DEF InputInv, Drainer
<1>2. ASSUME NEW j \in Job, Set("daemon", j), j.at \notin Critical \union {"lock"}, j.ask = {},
             j.batch = {}, j.defer = {}, UNCHANGED database,
             lock' = IF lock = "daemon" THEN "free" ELSE lock,
             artifact' \subseteq Signal, status' \in {"ready", "ready of another", "other"},
             path' \subseteq ToSet(Contracts), barren' \subseteq ToSet(Contracts)
      PROVE  StepOf("daemon", j)
  <2>1. Fits(j, receipt) /\ j.at \notin Critical
    BY <1>2, AtRest
  <2>2. lock' # "daemon" /\ lock' \in Drainer \union {"free"}
        /\ \A q \in Drainer \ {"daemon"} : lock' = q <=> lock = q
    BY <1>1, <1>2 DEF DataTypes
  <2>3. QED
    BY <1>1, <1>2, <2>1, <2>2, CalmStep
<1>3. CASE Plan
  <2> DEFINE j == IF AlreadyCleared THEN [NoJob EXCEPT !.at = "replay"] ELSE Drain(TRUE)
  <2>1. Set("daemon", j) /\ UNCHANGED <<database, outcome, status, lock>> /\ k.at \notin Critical
    BY <1>3 DEF Plan, Critical
  <2>2. /\ j \in Job /\ j.at \in {"replay", "read"} /\ j.ask = {} /\ j.batch = {} /\ j.defer = {}
    BY <1>1 DEF Drain, NoJob, Job, Points, Verdicts, DataTypes
  <2> HIDE DEF j
  <2>3. StepOf("daemon", j)
    BY <1>1, <1>2, <2>1, <2>2 DEF DataTypes, Critical, outcome
  <2>4. QED
    BY <2>3
<1>4. CASE Replay
  <2>1. k.at \notin Critical /\ UNCHANGED <<database, path, barren, lock>>
    BY <1>4 DEF Replay, Critical
  <2>2. ASSUME NEW frontier \in Frontiers, NewArtifact(frontier),
               Set("daemon", [Drain(FALSE) EXCEPT !.artifact = frontier])
        PROVE  \E j : StepOf("daemon", j)
    <3> DEFINE j == [Drain(FALSE) EXCEPT !.artifact = frontier]
    <3>1. frontier \subseteq Signal
      BY FrontiersAreSignals
    <3>2. /\ j \in Job /\ j.at = "read" /\ j.ask = {} /\ j.batch = {} /\ j.defer = {}
      BY <1>1, <3>1 DEF Drain, NoJob, Job, Points, Verdicts, DataTypes
    <3>3. Set("daemon", j)
      BY <2>2
    <3> HIDE DEF j
    <3>4. StepOf("daemon", j)
      BY <1>1, <1>2, <2>1, <2>2, <3>1, <3>2, <3>3 DEF DataTypes, Critical, NewArtifact
    <3>5. QED
      BY <3>4
  <2>3. ASSUME NEW at \in {"plan", "path"}, Set("daemon", [NoJob EXCEPT !.at = at]),
               UNCHANGED <<artifact, status>>
        PROVE  \E j : StepOf("daemon", j)
    <3> DEFINE j == [NoJob EXCEPT !.at = at]
    <3>1. /\ j \in Job /\ j.at = at /\ j.ask = {} /\ j.batch = {} /\ j.defer = {}
      BY DEF NoJob, Job, Points, Verdicts
    <3>2. Set("daemon", j)
      BY <2>3
    <3> HIDE DEF j
    <3>3. StepOf("daemon", j)
      BY <1>1, <1>2, <2>1, <2>3, <3>1, <3>2 DEF DataTypes, Critical
    <3>4. QED
      BY <3>3
  <2>4. NoJob = [NoJob EXCEPT !.at = "plan"]
    BY DEF NoJob
  <2>5. QED
    BY <1>4, <2>2, <2>3, <2>4 DEF Replay
<1>5. CASE Report
  <2>1. k.at = "report" /\ UNCHANGED <<database, outcome, lock>> /\ status' = Says(k)
    BY <1>5 DEF Report
  <2>2. status' \in {"ready", "ready of another", "other"}
    BY <2>1 DEF Says
  <2>3. k.at \notin Critical
    BY <2>1 DEF Critical
  <2>4. PICK j : /\ Set("daemon", j)
                 /\ \/ j = [Drain(k.pending) EXCEPT !.artifact = k.artifact]
                    \/ \E at \in {"plan", "replay"} : j = [NoJob EXCEPT !.at = at]
    BY <1>5 DEF Report
  <2>5. j \in Job /\ j.at \in {"plan", "replay", "read"} /\ j.ask = {} /\ j.batch = {} /\ j.defer = {}
    <3>1. CASE j = [Drain(k.pending) EXCEPT !.artifact = k.artifact]
      BY <1>1, <3>1 DEF Drain, NoJob, Job, Points, Verdicts, DataTypes
    <3>2. ASSUME NEW at \in {"plan", "replay"}, j = [NoJob EXCEPT !.at = at]
          PROVE  j \in Job /\ j.at = at /\ j.ask = {} /\ j.batch = {} /\ j.defer = {}
      BY <3>2 DEF NoJob, Job, Points, Verdicts
    <3>3. QED
      BY <2>4, <3>1, <3>2
  <2>6. StepOf("daemon", j)
    BY <1>1, <1>2, <2>1, <2>2, <2>3, <2>4, <2>5 DEF DataTypes, Critical, outcome
  <2>7. QED
    BY <2>6
<1>6. CASE DaemonDies
  <2>1. StepOf("daemon", NoJob)
    BY <1>1, <1>2, <1>6, NoJobFits DEF DaemonDies, DataTypes, Critical, outcome
  <2>2. QED
    BY <2>1
<1>7. ASSUME NEW ok \in BOOLEAN, FetchPaths(ok) PROVE \E j : StepOf("daemon", j)
  <2>1. AskPaths \subseteq ToSet(Contracts)
    BY DEF AskPaths, Foremost, MissingPaths
  <2>2. path' \subseteq ToSet(Contracts) /\ barren' \subseteq ToSet(Contracts)
    BY <1>1, <1>7, <2>1 DEF FetchPaths, DataTypes
  <2>3. k.at \notin Critical /\ Set("daemon", NoJob) /\ UNCHANGED <<database, artifact, status, lock>>
    BY <1>7 DEF FetchPaths, Critical
  <2>4. StepOf("daemon", NoJob)
    BY <1>1, <1>2, <2>2, <2>3, NoJobFits DEF DataTypes, Critical
  <2>5. QED
    BY <2>4
<1>8. QED
  BY <1>3, <1>4, <1>5, <1>6, <1>7

\* The steps of the operator outside a batch.
LEMMA OperatorStep ==
    ASSUME InputInv, OperatorDrain \/ OperatorReplay \/ OperatorReport
    PROVE  \E j : StepOf("operator", j)
<1> DEFINE k == job["operator"]
<1>1. k \in Job /\ Fits(k, receipt) /\ (k.at \in Critical <=> lock = "operator") /\ DataTypes
      /\ "operator" \in Drainer /\ job \in [Drainer -> Job]
  BY DEF InputInv, Drainer
<1>2. CASE OperatorDrain
  <2>1. PICK allowed \in BOOLEAN : Set("operator", [Drain(FALSE) EXCEPT !.allowed = allowed])
    BY <1>2 DEF OperatorDrain
  <2> DEFINE j == [Drain(FALSE) EXCEPT !.allowed = allowed]
  <2>2. /\ k.at = "plan" /\ UNCHANGED <<database, outcome, status, lock>>
    BY <1>2 DEF OperatorDrain
  <2>3. j \in Job /\ j.at = "read" /\ j.ask = {} /\ j.batch = {} /\ j.defer = {}
    BY <1>1 DEF Drain, NoJob, Job, Points, Verdicts, DataTypes
  <2>4. Set("operator", j)
    BY <2>1
  <2> HIDE DEF j
  <2>5. Fits(j, receipt) /\ j.at \notin Critical /\ k.at \notin Critical
    BY <2>2, <2>3, AtRest DEF Critical
  <2>6. StepOf("operator", j)
    BY <1>1, <2>2, <2>3, <2>4, <2>5, CalmStep DEF DataTypes, outcome
  <2>7. QED
    BY <2>6
<1>3. CASE OperatorReplay
  <2>1. PICK frontier \in Frontiers : NewArtifact(frontier)
    BY <1>3 DEF OperatorReplay
  <2>2. artifact' \subseteq Signal /\ status' = "other"
    BY <2>1, FrontiersAreSignals DEF NewArtifact
  <2>3. UNCHANGED <<database, path, barren, lock, job>>
    BY <1>3 DEF OperatorReplay
  <2>4. Set("operator", k)
    BY <1>1, <2>3 DEF Set
  <2>5. StepOf("operator", k)
    BY <1>1, <2>2, <2>3, <2>4, CalmStep DEF DataTypes
  <2>6. QED
    BY <2>5
<1>4. CASE OperatorReport
  <2>1. /\ k.at \in {"report", "close"} /\ UNCHANGED <<database, outcome, lock>>
        /\ status' \in {Says(k), "other", status}
    BY <1>4 DEF OperatorReport
  <2>2. status' \in {"ready", "ready of another", "other"}
    BY <1>1, <2>1 DEF Says, DataTypes
  <2>3. PICK j : /\ Set("operator", j)
                 /\ \/ j = NoJob
                    \/ \E at \in {"read", "close"} : j = [k EXCEPT !.at = at, !.verdict = "ready"]
    BY <1>4 DEF OperatorReport
  <2>4. k.ask = {} /\ k.batch \union k.defer \subseteq k.artifact /\ k.at \notin Critical
    BY <1>1, <2>1 DEF Fits, Critical
  <2>5. j \in Job /\ j.at \in {"plan", "read", "close"} /\ j.ask = {}
        /\ j.batch \union j.defer \subseteq j.artifact
    BY <1>1, <2>3, <2>4, NoJobFits DEF Job, Points, Verdicts
  <2>6. Fits(j, receipt) /\ j.at \notin Critical
    BY <2>5, AtRest DEF Critical
  <2>7. StepOf("operator", j)
    BY <1>1, <2>1, <2>2, <2>3, <2>4, <2>5, <2>6, CalmStep DEF DataTypes, outcome
  <2>8. QED
    BY <2>7
<1>5. QED
  BY <1>2, <1>3, <1>4

\* Every step of the specification moves the job of one drainer.
LEMMA EveryStep ==
    ASSUME InputInv, InputNext PROVE \E p \in Drainer : \E j : StepOf(p, j)
<1>1. "daemon" \in Drainer /\ "operator" \in Drainer
  BY DEF Drainer
<1>2. ASSUME NEW p \in Drainer, Batch(p) PROVE \E j : StepOf(p, j)
  BY <1>2, BeginStep, EnterStep, AskStep, SettleStep, GenerateStep DEF Batch
<1>3. CASE Daemon
  BY <1>1, <1>2, <1>3, DaemonStep DEF Daemon
<1>4. CASE Operator
  BY <1>1, <1>2, <1>4, OperatorStep DEF Operator
<1>5. CASE DaemonDies \/ OperatorDrain \/ OperatorReplay
  BY <1>1, <1>5, DaemonStep, OperatorStep
<1>6. QED
  BY <1>3, <1>4, <1>5 DEF InputNext

\* The other drainer's job fits what it fitted before.
LEMMA StepKeepsInv ==
    ASSUME InputInv, NEW p \in Drainer, NEW j, StepOf(p, j) PROVE InputInv'
<1>1. job' = [job EXCEPT ![p] = j] /\ j \in Job /\ job \in [Drainer -> Job] /\ job' \in [Drainer -> Job]
  BY DEF InputInv, StepOf
<1>2. Fits(job'[p], receipt') /\ (job'[p].at \in Critical <=> lock' = p)
  BY <1>1 DEF StepOf
<1>3. ASSUME NEW q \in Drainer, q # p
      PROVE  Fits(job'[q], receipt') /\ (job'[q].at \in Critical <=> lock' = q)
  <2>1. job'[q] = job[q]
    BY <1>1, <1>3
  <2>2. receipt \subseteq receipt' /\ (lock' = q <=> lock = q)
    BY <1>3 DEF StepOf
  <2>3. Fits(job[q], receipt) /\ (job[q].at \in Critical <=> lock = q)
    BY DEF InputInv
  <2>4. Fits(job[q], receipt')
    BY <2>2, <2>3 DEF Fits
  <2>5. QED
    BY <2>1, <2>2, <2>3, <2>4
<1>4. DataTypes'
  BY DEF StepOf
<1>5. QED
  BY <1>1, <1>2, <1>3, <1>4 DEF InputInv

-----------------------------------------------------------------------------
(* ReplayInputs: the marks a refusal brought are charged to the signal that   *)
(* was refused and to the drainer that met the refusal.  Each pays once: what  *)
(* is marked is no longer missing, so no batch begins to ask for it.          *)

Charges(C) ==
    /\ C \in [Signal \X Drainer -> SUBSET Signal]
    /\ \A q \in Signal, p \in Drainer :
          /\ C[<<q, p>>] # {} => q \in refused \intersect marker /\ q \notin job[p].ask
          /\ Cardinality(C[<<q, p>>]) <= ProviderLimit - 1
    /\ marker \subseteq refused \union (receipt \ source) \union UNION {C[d] : d \in Signal \X Drainer}

ChargeInv == InputInv /\ \E C : Charges(C)

\* Each step charges what it marks, to a pair that has not paid yet.
LEMMA StepKeepsCharges ==
    ASSUME ChargeInv, NEW p \in Drainer, NEW j, StepOf(p, j) PROVE \E C : Charges(C)'
<1>1. PICK C : Charges(C)
  BY DEF ChargeInv
<1>2. InputInv /\ job' = [job EXCEPT ![p] = j] /\ job \in [Drainer -> Job] /\ j \in Job
  BY DEF ChargeInv, InputInv, StepOf
<1>3. /\ marker \subseteq marker' /\ refused \subseteq refused'
      /\ receipt \ source \subseteq receipt' \ source'
  BY DEF StepOf
<1>4. job'[p] = j /\ \A q \in Drainer \ {p} : job'[q] = job[q]
  BY <1>2
<1>5. ASSUME j.ask \subseteq job[p].ask \union (Signal \ marker),
             marker' \subseteq marker \union (receipt' \ source')
      PROVE  \E D : Charges(D)'
  <2>1. ASSUME NEW q \in Signal, NEW o \in Drainer, C[<<q, o>>] # {}
        PROVE  q \in refused' \intersect marker' /\ q \notin job'[o].ask
    <3>1. q \in refused \intersect marker /\ q \notin job[o].ask
      BY <1>1, <2>1 DEF Charges
    <3>2. QED
      BY <1>3, <1>4, <1>5, <3>1
  <2>2. marker' \subseteq refused' \union (receipt' \ source') \union UNION {C[d] : d \in Signal \X Drainer}
    BY <1>1, <1>3, <1>5 DEF Charges
  <2>3. \A q \in Signal, o \in Drainer : Cardinality(C[<<q, o>>]) <= ProviderLimit - 1
    BY <1>1 DEF Charges
  <2>4. C \in [Signal \X Drainer -> SUBSET Signal]
    BY <1>1 DEF Charges
  <2>5. Charges(C)'
    BY <2>1, <2>2, <2>3, <2>4 DEF Charges
  <2>6. QED
    BY <2>5
<1>6. ASSUME j.ask = {}, marker' = marker \union job[p].ask, NEW s \in job[p].ask, s \in refused'
      PROVE  \E D : Charges(D)'
  <2> DEFINE new == job[p].ask \ {s}
  <2> PICK D : D = [C EXCEPT ![<<s, p>>] = new]
    OBVIOUS
  <2>1. s \in Signal /\ job[p].ask \in SUBSET Signal /\ new \in SUBSET Signal
    BY <1>2 DEF Job
  <2>2. C \in [Signal \X Drainer -> SUBSET Signal] /\ <<s, p>> \in Signal \X Drainer
    BY <1>1, <2>1 DEF Charges
  <2>3. D \in [Signal \X Drainer -> SUBSET Signal] /\ D[<<s, p>>] = new
        /\ \A d \in Signal \X Drainer : d # <<s, p>> => D[d] = C[d]
    BY <2>1, <2>2
  <2>4. Cardinality(new) <= ProviderLimit - 1
    <3>1. IsFiniteSet(job[p].ask)
      BY <2>1, SignalsAreFinite, FS_Subset
    <3>2. Cardinality(new) = Cardinality(job[p].ask) - 1 /\ Cardinality(job[p].ask) \in Nat
      BY <1>6, <3>1, FS_RemoveElement, FS_CardinalityType
    <3>3. Cardinality(job[p].ask) <= ProviderLimit
      BY <1>2 DEF InputInv, Fits
    <3>4. QED
      BY <3>2, <3>3, Constants
  <2>5. C[<<s, p>>] = {}
    BY <1>1, <1>6, <2>1 DEF Charges
  <2> HIDE DEF new
  <2>6. ASSUME NEW q \in Signal, NEW o \in Drainer
        PROVE  /\ D[<<q, o>>] # {} => q \in refused' \intersect marker' /\ q \notin job'[o].ask
               /\ Cardinality(D[<<q, o>>]) <= ProviderLimit - 1
    <3>1. CASE q = s /\ o = p
      BY <1>4, <1>6, <2>3, <2>4, <3>1
    <3>2. CASE ~(q = s /\ o = p)
      <4>1. D[<<q, o>>] = C[<<q, o>>]
        BY <2>3, <3>2
      <4>2. /\ C[<<q, o>>] # {} => q \in refused \intersect marker /\ q \notin job[o].ask
            /\ Cardinality(C[<<q, o>>]) <= ProviderLimit - 1
        BY <1>1 DEF Charges
      <4>3. job'[o].ask \subseteq job[o].ask
        BY <1>4, <1>6
      <4>4. QED
        BY <1>3, <4>1, <4>2, <4>3
    <3>3. QED
      BY <3>1, <3>2
  <2>7. marker' \subseteq refused' \union (receipt' \ source') \union UNION {D[d] : d \in Signal \X Drainer}
    <3>1. SUFFICES ASSUME NEW r \in marker', r \notin refused', r \notin receipt' \ source'
                   PROVE  \E d \in Signal \X Drainer : r \in D[d]
      OBVIOUS
    <3>2. CASE r \in job[p].ask
      <4>1. r \in D[<<s, p>>]
        BY <1>6, <2>3, <3>1, <3>2 DEF new
      <4>2. QED
        BY <2>2, <4>1
    <3>3. CASE r \in marker
      <4>1. PICK d \in Signal \X Drainer : r \in C[d]
        BY <1>1, <1>3, <3>1, <3>3 DEF Charges
      <4>2. d # <<s, p>>
        BY <2>5, <4>1
      <4>3. QED
        BY <2>3, <4>1, <4>2
    <3>4. QED
      BY <1>6, <3>2, <3>3
  <2>8. Charges(D)'
    BY <2>3, <2>6, <2>7 DEF Charges
  <2>9. QED
    BY <2>8
<1>7. \/ /\ j.ask \subseteq job[p].ask \union (Signal \ marker)
         /\ marker' \subseteq marker \union (receipt' \ source')
      \/ /\ j.ask = {} /\ marker' = marker \union job[p].ask
         /\ \E q \in job[p].ask : q \in refused'
  BY DEF StepOf
<1>8. QED
  BY <1>5, <1>6, <1>7

\* What a refusal costs, counted from the charges.
LEMMA ChargesAreBounded == ChargeInv => RefusalCostsItsBatch
<1>1. SUFFICES ASSUME ChargeInv PROVE RefusalCostsItsBatch
  OBVIOUS
<1>2. PICK C : Charges(C)
  BY <1>1 DEF ChargeInv
<1> DEFINE S == marker \ (refused \union (receipt \ source))
           D == refused \X Drainer
           F == [d \in D |-> C[d]]
           k == ProviderLimit - 1
<1>3. refused \in SUBSET Signal /\ D \subseteq Signal \X Drainer
  BY <1>1 DEF ChargeInv, InputInv, DataTypes
<1>4. IsFiniteSet(refused) /\ Cardinality(refused) \in Nat
  BY <1>3, SignalsAreFinite, FS_Subset, FS_CardinalityType
<1>5. Cardinality(Drainer) = 2
  <2>1. IsFiniteSet({"daemon"}) /\ Cardinality({"daemon"}) = 1
    BY FS_Singleton
  <2>2. Drainer = {"daemon"} \union {"operator"} /\ "operator" \notin {"daemon"}
    BY DEF Drainer
  <2>3. QED
    BY <2>1, <2>2, FS_AddElement
<1>6. IsFiniteSet(D) /\ Cardinality(D) = Cardinality(refused) * Cardinality(Drainer)
  BY <1>4, SignalsAreFinite, FS_Product
<1>7. k \in Nat
  BY Constants
<1>8. F \in [D -> SUBSET Signal] /\ \A d \in D : F[d] = C[d]
  BY <1>2, <1>3 DEF Charges
<1>9. \A d \in D : Cardinality(F[d]) <= k
  BY <1>2, <1>3, <1>8 DEF Charges
<1>10. S \subseteq UNION {F[d] : d \in D}
  <2>1. SUFFICES ASSUME NEW r \in S PROVE \E d \in D : r \in F[d]
    OBVIOUS
  <2>2. PICK q \in Signal, p \in Drainer : r \in C[<<q, p>>]
    <3>1. PICK d \in Signal \X Drainer : r \in C[d]
      BY <1>2 DEF Charges
    <3>2. QED
      BY <3>1
  <2>3. q \in refused
    BY <1>2, <2>2 DEF Charges
  <2>4. <<q, p>> \in D
    BY <2>3
  <2>5. QED
    BY <1>8, <2>2, <2>4
<1> HIDE DEF F
<1>11. Cardinality(S) <= Cardinality((1 .. k) \X D)
  <2> HIDE DEF S, D, k
  <2>1. QED
    BY <1>6, <1>7, <1>8, <1>9, <1>10, SignalsAreFinite, FamilySize
<1>12. IsFiniteSet(1 .. k) /\ Cardinality(1 .. k) = k
  <2>1. 1 \in Int /\ k \in Int
    BY <1>7
  <2>2. IsFiniteSet(1 .. k) /\ Cardinality(1 .. k) = IF 1 > k THEN 0 ELSE k - 1 + 1
    BY <2>1, FS_Interval
  <2>3. QED
    BY <1>7, <2>2
<1>13. Cardinality((1 .. k) \X D) = k * Cardinality(D)
  <2> HIDE DEF D, k
  <2>1. Cardinality((1 .. k) \X D) = Cardinality(1 .. k) * Cardinality(D)
    BY <1>6, <1>12, FS_Product
  <2>2. QED
    BY <1>12, <2>1
<1>14. k * (Cardinality(refused) * 2) = k * Cardinality(refused) * 2
  <2> HIDE DEF k
  <2>1. \A a, b \in Nat : a * (b * 2) = a * b * 2
    OBVIOUS
  <2>2. QED
    BY <1>4, <1>7, <2>1
<1>15. Cardinality(S) <= k * Cardinality(refused) * Cardinality(Drainer)
  BY <1>5, <1>6, <1>11, <1>13, <1>14
<1>16. QED
  BY <1>15 DEF RefusalCostsItsBatch

\* What a refusal costs, for every number of signals, size of batch and run of steps:
\* the signals marked for nothing of their own are at most the rest of a batch for each
\* refused signal and each drainer.
THEOREM RefusalsCostTheirBatches == InputSpec => [](InputInv /\ RefusalCostsItsBatch)
<1>1. InputInit => ChargeInv
  <2>1. SUFFICES ASSUME InputInit PROVE ChargeInv
    OBVIOUS
  <2>2. InputInv
    <3>1. DataTypes
      BY <2>1 DEF InputInit, DataTypes
    <3>2. job = [p \in Drainer |-> NoJob] /\ lock = "free" /\ "free" \notin Drainer
      BY <2>1 DEF InputInit, Drainer
    <3>3. QED
      BY <3>1, <3>2, NoJobFits DEF InputInv, Critical
  <2> DEFINE C == [d \in Signal \X Drainer |-> {}]
  <2>3. Charges(C)
    <3>1. marker = {}
      BY <2>1 DEF InputInit
    <3>2. Cardinality({}) <= ProviderLimit - 1
      BY NoJobFits, Constants
    <3>3. QED
      BY <3>1, <3>2 DEF Charges
  <2>4. QED
    BY <2>2, <2>3 DEF ChargeInv
<1>2. ChargeInv /\ [InputNext]_inputVars => ChargeInv'
  <2>1. SUFFICES ASSUME ChargeInv, [InputNext]_inputVars PROVE ChargeInv'
    OBVIOUS
  <2>2. CASE InputNext
    <3>1. PICK p \in Drainer : \E j : StepOf(p, j)
      BY <2>1, <2>2, EveryStep DEF ChargeInv
    <3>2. PICK j : StepOf(p, j)
      BY <3>1
    <3>3. InputInv'
      BY <2>1, <3>2, StepKeepsInv DEF ChargeInv
    <3>4. \E C : Charges(C)'
      BY <2>1, <3>2, StepKeepsCharges
    <3>5. QED
      BY <3>3, <3>4 DEF ChargeInv
  <2>3. CASE UNCHANGED inputVars
    <3>1. InputInv'
      BY <2>1, <2>3 DEF ChargeInv, InputInv, DataTypes, inputVars
    <3>2. PICK C : Charges(C)
      BY <2>1 DEF ChargeInv
    <3>3. Charges(C)'
      BY <2>3, <3>2 DEF Charges, inputVars
    <3>4. QED
      BY <3>1, <3>3 DEF ChargeInv
  <2>4. QED
    BY <2>1, <2>2, <2>3
<1>3. ChargeInv => InputInv
  BY DEF ChargeInv
<1>4. QED
  BY <1>1, <1>2, <1>3, ChargesAreBounded, PTL DEF InputSpec

\* The types, for every number of signals.
THEOREM InputTypes == InputSpec => []InputTypeOK
<1>1. InputInv => InputTypeOK
  <2>1. SUFFICES ASSUME InputInv PROVE InputTypeOK
    OBVIOUS
  <2>2. ASSUME NEW p \in Drainer
        PROVE  /\ job[p].at \in Points /\ job[p].verdict \in Verdicts
               /\ job[p].at \in Critical <=> lock = p
               /\ job[p].batch \union job[p].ask \union job[p].defer \subseteq job[p].artifact
    BY <2>1 DEF InputInv, Job, Fits
  <2>3. QED
    BY <2>1, <2>2 DEF InputTypeOK, InputInv, DataTypes, Points, Critical
<1>2. QED
  BY <1>1, RefusalsCostTheirBatches, PTL

-----------------------------------------------------------------------------
(* ReplayInputs: what the word of a drain is worth.                           *)

\* A drain says that an artifact needs nothing when every signal of it is covered.
Drained(j) == j.at = "report" /\ j.verdict \in {"ready", "repaired"} => j.artifact \subseteq Covered

DrainInv ==
    /\ InputInv
    /\ status = "ready" => artifact \subseteq Covered
    /\ \A p \in Drainer : Drained(job[p])

\* What is covered stays covered.
LEMMA CoverGrows == ASSUME InputInv, InputNext PROVE Covered \subseteq Covered'
<1>1. PICK p \in Drainer : \E j : StepOf(p, j)
  BY EveryStep
<1>2. QED
  BY <1>1 DEF StepOf, Covered

\* A batch that says so has looked at the whole artifact.
LEMMA BatchIsDrained ==
    ASSUME DrainInv, InputNext, NEW p \in Drainer, Batch(p)
    PROVE  /\ \A q \in Drainer : Drained(job[q])'
           /\ UNCHANGED <<artifact, status>>
           /\ job'["daemon"].at # "replay" \/ job["daemon"].at = "replay"
<1> DEFINE k == job[p]
<1>1. Covered \subseteq Covered' /\ job \in [Drainer -> Job] /\ k \in Job /\ Drained(k)
  BY CoverGrows DEF DrainInv, InputInv
<1>2. ASSUME NEW j, Set(p, j), j.at # "replay",
             j.at = "report" /\ j.verdict \in {"ready", "repaired"} => j.artifact \subseteq Covered'
      PROVE  /\ \A q \in Drainer : Drained(job[q])'
             /\ job'["daemon"].at # "replay" \/ job["daemon"].at = "replay"
  <2>1. job'[p] = j /\ \A q \in Drainer \ {p} : job'[q] = job[q]
    BY <1>1, <1>2 DEF Set
  <2>2. \A q \in Drainer : Drained(job[q])
    BY DEF DrainInv
  <2>3. QED
    BY <1>1, <1>2, <2>1, <2>2 DEF Drained, Drainer
<1>3. ASSUME NEW v, EndBatch(p, v), v \in {"ready", "repaired"} => k.artifact \subseteq Covered'
      PROVE  /\ \A q \in Drainer : Drained(job[q])'
             /\ job'["daemon"].at # "replay" \/ job["daemon"].at = "replay"
  <2> DEFINE j == [k EXCEPT !.at = "report", !.verdict = v, !.batch = {}, !.ask = {},
                            !.defer = {}, !.todo = {}, !.gen = {}]
  <2>1. Set(p, j)
    BY <1>3 DEF EndBatch
  <2>2. j.at = "report" /\ j.verdict = v /\ j.artifact = k.artifact
    BY <1>1 DEF Job
  <2> HIDE DEF j
  <2>3. QED
    BY <1>2, <1>3, <2>1, <2>2
<1>4. CASE Begin(p)
  <2> DEFINE batch == First(k.artifact \ Covered, FeatureLimit)
             missing == batch \ source
             ask == First(missing, ProviderLimit)
             gen == {Group(r) : r \in batch \cap source}
  <2>1. CASE batch = {}
    <3>1. Set(p, [k EXCEPT !.at = "report"]) /\ UNCHANGED <<artifact, status>>
      BY <1>4, <2>1 DEF Begin, outcome
    <3>2. k.artifact \ Covered \in SUBSET Signal
      BY <1>1 DEF Job
    <3>3. k.artifact \subseteq Covered
      BY <2>1, <3>2, FirstAreSome, Constants
    <3>4. [k EXCEPT !.at = "report"].at = "report"
          /\ [k EXCEPT !.at = "report"].artifact = k.artifact
      BY <1>1 DEF Job
    <3>5. QED
      BY <1>1, <1>2, <3>1, <3>3, <3>4
  <2>2. CASE batch # {}
    <3> DEFINE j == [k EXCEPT !.at = "lock", !.batch = batch, !.ask = ask, !.defer = missing \ ask,
                              !.gen = gen]
    <3>1. Set(p, j) /\ UNCHANGED <<artifact, status>>
      BY <1>4, <2>2 DEF Begin, outcome
    <3>2. j.at = "lock"
      BY <1>1 DEF Job
    <3> HIDE DEF j
    <3>3. QED
      BY <1>2, <3>1, <3>2
  <2>3. QED
    BY <2>1, <2>2
<1>5. CASE Enter(p)
  <2> DEFINE e == [k EXCEPT !.at = IF k.ask # {} /\ k.allowed THEN "ask" ELSE "generate",
                            !.todo = k.ask]
  <2>1. /\ UNCHANGED <<artifact, status>>
        /\ (\E v \in {"lock_active", "required"} : EndBatch(p, v)) \/ Set(p, e)
    BY <1>5 DEF Enter, outcome
  <2>2. e.at \in {"ask", "generate"}
    BY <1>1 DEF Job
  <2> HIDE DEF e
  <2>3. QED
    BY <1>2, <1>3, <2>1, <2>2
<1>6. CASE Ask(p)
  <2>1. PICK answer \in [k.ask \ receipt -> Answers] : Dispatch(p, answer)
    BY <1>6 DEF Ask
  <2>2. /\ UNCHANGED <<artifact, status>>
        /\ \/ \E left : Set(p, [k EXCEPT !.todo = left, !.at = IF left = {} THEN "settle" ELSE "ask"])
           \/ \E r : EndBatch(p, Failed(answer[r]))
    BY <2>1 DEF Dispatch, Release, outcome
  <2>3. ASSUME NEW left, Set(p, [k EXCEPT !.todo = left, !.at = IF left = {} THEN "settle" ELSE "ask"])
        PROVE  /\ \A q \in Drainer : Drained(job[q])'
               /\ job'["daemon"].at # "replay" \/ job["daemon"].at = "replay"
    <3> DEFINE g == [k EXCEPT !.todo = left, !.at = IF left = {} THEN "settle" ELSE "ask"]
    <3>1. g.at \in {"settle", "ask"} /\ Set(p, g)
      BY <1>1, <2>3 DEF Job
    <3> HIDE DEF g
    <3>2. QED
      BY <1>2, <3>1
  <2>4. \A e : Failed(e) \notin {"ready", "repaired"}
    BY DEF Failed
  <2>5. QED
    BY <1>3, <2>2, <2>3, <2>4
<1>7. CASE Settle(p)
  <2> DEFINE gen == k.gen \union {Group(r) : r \in k.ask \cap source}
             g == [k EXCEPT !.at = "generate", !.gen = gen]
  <2>1. /\ UNCHANGED <<artifact, status>>
        /\ (\E v \in {"unavailable_more", "unavailable"} : EndBatch(p, v)) \/ Set(p, g)
    BY <1>7 DEF Settle, Release, outcome
  <2>2. g.at = "generate"
    BY <1>1 DEF Job
  <2> HIDE DEF g
  <2>3. QED
    BY <1>2, <1>3, <2>1, <2>2
<1>8. CASE Generate(p)
  <2>1. PICK v : /\ EndBatch(p, v) /\ v # "ready"
                 /\ v = "repaired" => k.batch \subseteq feature' \union marker /\ k.batch = k.artifact
                 /\ UNCHANGED <<artifact, status, marker>>
    BY <1>8 DEF Generate, Release, outcome
  <2>2. v \in {"ready", "repaired"} => k.artifact \subseteq Covered'
    BY <2>1 DEF Covered
  <2>3. QED
    BY <1>3, <2>1, <2>2
<1>9. QED
  BY <1>4, <1>5, <1>6, <1>7, <1>8 DEF Batch

\* The status says "ready" of the newest artifact on the word of a drain of it.
LEMMA StatusIsDrained ==
    ASSUME DrainInv, NEW p \in Drainer, job[p].at = "report", Says(job[p]) = "ready"
    PROVE  artifact \subseteq Covered
<1>1. job[p].verdict = "ready" /\ job[p].artifact = artifact
  <2>1. CASE job[p].verdict # "ready"
    BY <2>1 DEF Says
  <2>2. CASE job[p].verdict = "ready" /\ job[p].artifact # artifact
    BY <2>2 DEF Says
  <2>3. QED
    BY <2>1, <2>2
<1>2. QED
  BY <1>1 DEF DrainInv, Drained

\* One step: the invariant is kept, and a replay that begins undrained has its reason.
LEMMA DrainStep ==
    ASSUME DrainInv, InputNext
    PROVE  /\ status' = "ready" => artifact' \subseteq Covered'
           /\ \A q \in Drainer : Drained(job[q])'
           /\ (job["daemon"].at # "replay" /\ job'["daemon"].at = "replay" /\ ~(artifact \subseteq Covered))
              => \/ job["daemon"].at = "report"
                    /\ (job["daemon"].verdict = "unavailable" \/ job["daemon"].artifact # artifact)
                 \/ status = "ready of another"
<1> DEFINE Kept == /\ status' = "ready" => artifact' \subseteq Covered'
                   /\ \A q \in Drainer : Drained(job[q])'
           Undrained == /\ job["daemon"].at # "replay" /\ job'["daemon"].at = "replay"
                        /\ ~(artifact \subseteq Covered)
           Reason == \/ job["daemon"].at = "report"
                        /\ (job["daemon"].verdict = "unavailable" \/ job["daemon"].artifact # artifact)
                     \/ status = "ready of another"
<1>1. /\ Covered \subseteq Covered' /\ job \in [Drainer -> Job] /\ "daemon" \in Drainer /\ "operator" \in Drainer
      /\ (status = "ready" => artifact \subseteq Covered) /\ \A q \in Drainer : Drained(job[q])
      /\ status \in {"ready", "ready of another", "other"}
  BY CoverGrows DEF DrainInv, InputInv, DataTypes, Drainer
<1>2. ASSUME NEW p \in Drainer, NEW j, Set(p, j), j.at # "report",
             status' = "ready" => artifact' \subseteq Covered
      PROVE  Kept /\ (p = "operator" \/ j.at # "replay" => ~Undrained)
  <2>1. job'[p] = j /\ \A q \in Drainer \ {p} : job'[q] = job[q]
    BY <1>1, <1>2 DEF Set
  <2>2. \A q \in Drainer : Drained(job[q])'
    BY <1>1, <1>2, <2>1 DEF Drained
  <2>3. QED
    BY <1>1, <1>2, <2>1, <2>2
<1>3. ASSUME NEW p \in Drainer, Batch(p) PROVE Kept /\ ~Undrained
  BY <1>1, <1>3, BatchIsDrained
<1>4. NoJob.at = "plan"
  BY DEF NoJob
<1>5. CASE Plan
  <2> DEFINE j == IF AlreadyCleared THEN [NoJob EXCEPT !.at = "replay"] ELSE Drain(TRUE)
  <2>1. Set("daemon", j) /\ UNCHANGED <<artifact, status>>
    BY <1>5 DEF Plan, outcome
  <2>2. j.at = IF AlreadyCleared THEN "replay" ELSE "read"
    BY DEF Drain, NoJob
  <2> HIDE DEF j
  <2>3. Kept /\ (j.at # "replay" => ~Undrained)
    BY <1>1, <1>2, <2>1, <2>2
  <2>4. AlreadyCleared => artifact \subseteq Covered \/ status = "ready of another"
    BY <1>1 DEF AlreadyCleared
  <2>5. QED
    BY <2>2, <2>3, <2>4
<1>6. CASE Replay
  <2>1. job["daemon"].at = "replay"
    BY <1>6 DEF Replay
  <2>2. ASSUME NEW frontier \in Frontiers, NewArtifact(frontier),
               Set("daemon", [Drain(FALSE) EXCEPT !.artifact = frontier])
        PROVE  Kept
    <3> DEFINE j == [Drain(FALSE) EXCEPT !.artifact = frontier]
    <3>1. j.at = "read" /\ Set("daemon", j) /\ status' = "other"
      BY <2>2 DEF Drain, NoJob, NewArtifact
    <3> HIDE DEF j
    <3>2. QED
      BY <1>1, <1>2, <3>1
  <2>3. ASSUME NEW at \in {"plan", "path"}, Set("daemon", [NoJob EXCEPT !.at = at]),
               UNCHANGED <<artifact, status>>
        PROVE  Kept
    <3> DEFINE j == [NoJob EXCEPT !.at = at]
    <3>1. j.at = at /\ Set("daemon", j)
      BY <2>3 DEF NoJob
    <3> HIDE DEF j
    <3>2. QED
      BY <1>1, <1>2, <2>3, <3>1
  <2>4. NoJob = [NoJob EXCEPT !.at = "plan"]
    BY DEF NoJob
  <2>5. Kept
    BY <1>6, <2>2, <2>3, <2>4 DEF Replay
  <2>6. QED
    BY <2>1, <2>5
<1>7. CASE Report
  <2> DEFINE k == job["daemon"]
             over == [NoJob EXCEPT !.at = IF k.pending /\ AllowsRetry(k.verdict) THEN "replay" ELSE "plan"]
  <2>1. PICK j : /\ k.at = "report" /\ Set("daemon", j) /\ UNCHANGED artifact /\ status' = Says(k)
                 /\ j \in {[Drain(k.pending) EXCEPT !.artifact = k.artifact], over}
    BY <1>7 DEF Report, outcome
  <2>2. j.at \in {"read", "replay", "plan"} /\ (j.at = "replay" => AllowsRetry(k.verdict))
    BY <2>1 DEF Drain, NoJob
  <2>3. status' = "ready" => artifact' \subseteq Covered
    BY <1>1, <2>1, StatusIsDrained
  <2>4. Kept /\ (j.at # "replay" => ~Undrained)
    BY <1>1, <1>2, <2>1, <2>2, <2>3
  <2>5. AllowsRetry(k.verdict) => k.verdict = "unavailable" \/ k.artifact \subseteq Covered
    BY <1>1, <2>1 DEF AllowsRetry, Drained
  <2>6. QED
    BY <2>1, <2>2, <2>4, <2>5
<1>8. CASE DaemonDies
  <2>1. Set("daemon", NoJob) /\ UNCHANGED <<artifact, status>>
    BY <1>8 DEF DaemonDies, outcome
  <2>2. QED
    BY <1>1, <1>2, <1>4, <2>1
<1>9. ASSUME NEW ok \in BOOLEAN, FetchPaths(ok) PROVE Kept /\ ~Undrained
  <2>1. Set("daemon", NoJob) /\ UNCHANGED <<artifact, status>>
    BY <1>9 DEF FetchPaths
  <2>2. QED
    BY <1>1, <1>2, <1>4, <2>1
<1>10. CASE OperatorDrain
  <2>1. PICK allowed \in BOOLEAN : /\ Set("operator", [Drain(FALSE) EXCEPT !.allowed = allowed])
                                   /\ UNCHANGED <<artifact, status>>
    BY <1>10 DEF OperatorDrain, outcome
  <2> DEFINE j == [Drain(FALSE) EXCEPT !.allowed = allowed]
  <2>2. j.at = "read" /\ Set("operator", j)
    BY <2>1 DEF Drain, NoJob
  <2> HIDE DEF j
  <2>3. QED
    BY <1>1, <1>2, <2>1, <2>2
<1>11. CASE OperatorReplay
  <2>1. status' = "other" /\ UNCHANGED job
    BY <1>11 DEF OperatorReplay, NewArtifact
  <2>2. \A q \in Drainer : Drained(job[q])'
    BY <1>1, <2>1 DEF Drained
  <2>3. QED
    BY <2>1, <2>2
<1>12. CASE OperatorReport
  <2> DEFINE k == job["operator"]
  <2>1. /\ UNCHANGED artifact
        /\ status' = "ready" => status = "ready" \/ (k.at = "report" /\ Says(k) = "ready")
    BY <1>12 DEF OperatorReport, outcome
  <2>2. status' = "ready" => artifact' \subseteq Covered
    BY <1>1, <2>1, StatusIsDrained
  <2>3. PICK j : /\ Set("operator", j)
                 /\ \/ j = NoJob
                    \/ \E at \in {"read", "close"} : j = [k EXCEPT !.at = at, !.verdict = "ready"]
    BY <1>12 DEF OperatorReport
  <2>4. j.at # "report"
    BY <1>1, <1>4, <2>3 DEF Job
  <2>5. QED
    BY <1>1, <1>2, <2>2, <2>3, <2>4
<1>13. QED
  BY <1>1, <1>3, <1>5, <1>6, <1>7, <1>8, <1>9, <1>10, <1>11, <1>12 DEF InputNext, Daemon, Operator

\* What a drain is worth, for every number of signals, batches and operators: a replay is
\* dispatched on an artifact that is not drained only after a refusal, or on the word of
\* a drain of another artifact.
THEOREM UndrainedReplaysHaveCause == InputSpec => UndrainedOnlyByRefusal
<1>1. InputInit => status # "ready" /\ \A p \in Drainer : Drained(job[p])
  BY NoJobFits DEF InputInit, Drained
<1>2. InputSpec => []InputInv
  BY RefusalsCostTheirBatches, PTL
<1> DEFINE DrainedSoFar == /\ status = "ready" => artifact \subseteq Covered
                          /\ \A p \in Drainer : Drained(job[p])
<1>3. InputInv /\ DrainedSoFar /\ [InputNext]_inputVars => DrainedSoFar'
  <2>1. SUFFICES ASSUME InputInv, DrainedSoFar, [InputNext]_inputVars PROVE DrainedSoFar'
    OBVIOUS
  <2>2. CASE InputNext
    BY <2>1, <2>2, DrainStep DEF DrainInv
  <2>3. CASE UNCHANGED inputVars
    BY <2>1, <2>3 DEF inputVars, Covered, Drained
  <2>4. QED
    BY <2>1, <2>2, <2>3
<1> DEFINE Step == (job["daemon"].at # "replay" /\ job'["daemon"].at = "replay" /\ ~(artifact \subseteq Covered))
                   => \/ job["daemon"].at = "report"
                         /\ (job["daemon"].verdict = "unavailable" \/ job["daemon"].artifact # artifact)
                      \/ status = "ready of another"
<1>4. InputInv /\ DrainedSoFar /\ [InputNext]_inputVars => [Step]_inputVars
  <2>1. SUFFICES ASSUME InputInv, DrainedSoFar, InputNext PROVE Step
    OBVIOUS
  <2>2. QED
    BY <2>1, DrainStep DEF DrainInv
<1>5. InputInit => DrainedSoFar
  BY <1>1
<1>6. UndrainedOnlyByRefusal <=> [][Step]_inputVars
  BY DEF UndrainedOnlyByRefusal
<1> HIDE DEF DrainedSoFar, Step
<1>7. QED
  BY <1>2, <1>3, <1>4, <1>5, <1>6, PTL DEF InputSpec
=============================================================================
