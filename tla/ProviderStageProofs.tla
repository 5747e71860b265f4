------------------------- MODULE ProviderStageProofs -------------------------
(* ProviderStage for any requests, workers, slices and bounds: a stage is     *)
(* unlocked on requests that are accounted for, no option request is paid for *)
(* twice, and what is ready stays ready with nothing open against it.         *)
EXTENDS ProviderStage, TLAPS, FiniteSetTheorems

Labels == {"idle", "enter", "check", "call", "reconcile",
           "normalize", "propose", "persist", "cover"}

Proposal == [id : Request, run : Run, status : OpenFailure]

\* No request has more failures on record than have been spent.
Typed ==
    /\ TypeOK
    /\ proposed \in [Worker -> SUBSET Proposal]
    /\ \A r \in Request : receipt[r].fails + budget.fail <= MaxFailures

\* What the two kinds of locks and the labels say about what a worker has in hand.
HasInHand(w) ==
    /\ pc[w] \in {"normalize", "propose", "persist", "cover"} => rlane = w
    /\ proposed[w] # {} => pc[w] = "persist"
    /\ running[w] # {} => pc[w] = "call"
    /\ pc[w] \in {"check", "call"} => \A r \in slice[w] \cup running[w] : lane[r] = w

InHand == \A w \in Worker : HasInHand(w)

\* A row is ready on the strength of a receipt; nothing is proposed against it, and
\* the register has nothing open against it when the coverage is taken.
Based == \A r \in Request : row[r] = "ready" => receipt[r].ok
Unopposed == \A w \in Worker : \A p \in proposed[w] : row[p.id] # "ready"
Closed ==
    \A w \in Worker : pc[w] = "cover" =>
        \A r \in Request, n \in Run : row[r] = "ready" => register[r][n] \notin OpenFailure

Rows == Based /\ Unopposed /\ Closed

\* An option request a worker waits for has no successful run, unless it was left running.
Paid ==
    route = "options" =>
        \A w \in Worker : \A r \in running[w] : receipt[r].ok => r \in strayed

\* An acceptance that no proposal on its way to the register will overwrite.
Held(r) ==
    \E n \in Run : /\ register[r][n] = "accepted_skip"
                   /\ \A w \in Worker : \A p \in proposed[w] : ~(p.id = r /\ p.run = n)

\* OverlapIsTheOnlyHole alone is not inductive: an acceptance can be overwritten by a
\* proposal that was made before it.  The reconcile lock keeps such a proposal away
\* from the moment the stage is unlocked.
Firm ==
    unlocked => \/ \A r \in Request : receipt[r].ok \/ Held(r)
                \/ \E r \in Request : receipt[r].ok /\ Held(r)

IInv == Typed /\ InHand /\ Rows /\ Paid /\ Firm

-----------------------------------------------------------------------------
\* The constants, and that there are finitely many requests.
LEMMA Bounds ==
    /\ MaxFailures \in Nat /\ MaxReviews \in Nat /\ MaxUpsets \in Nat
    /\ NoWorker \notin Worker /\ IsFiniteSet(Request) /\ 0 \in Run
<1>1. MaxFailures \in Nat /\ MaxReviews \in Nat /\ MaxUpsets \in Nat /\ NoWorker \notin Worker
  BY StageAssumption
<1>2. IsFiniteSet(Request)
  <2>1. Order \in Seq(Request)
    BY StageAssumption
  <2>2. Order \in [1..Len(Order) -> Request] /\ Len(Order) \in Nat /\ DOMAIN Order = 1..Len(Order)
    BY <2>1
  <2>3. Order \in Surjection(1..Len(Order), Request)
    BY <2>2 DEF Request, ToSet, Surjection
  <2>4. IsFiniteSet(1..Len(Order))
    BY <2>2, FS_Interval
  <2>5. QED
    BY <2>3, <2>4, FS_Surjection
<1>3. 0 \in Run
  BY <1>1 DEF Run
<1>4. QED
  BY <1>1, <1>2, <1>3

\* The end of a provider run: a success stays a success, and a failure is paid for.
Answered(r) ==
    /\ receipt' \in [Request -> [ok : BOOLEAN, last : Kinds, fails : Run, empty : BOOLEAN]]
    /\ \A q \in Request : receipt[q].ok => receipt'[q].ok
    /\ \A q \in Request : q # r => receipt'[q] = receipt[q]
    /\ budget' \in [fail : Nat, review : Nat, upset : Nat] /\ sourced' \in BOOLEAN
    /\ \A q \in Request : receipt'[q].fails + budget'.fail <= MaxFailures

\* An answer is added to the receipt of its request.
LEMMA AnswerStep ==
    ASSUME Typed, NEW r \in Request, NEW kind \in Outcomes, Answer(r, kind)
    PROVE  Answered(r)
<1>1. /\ receipt \in [Request -> [ok : BOOLEAN, last : Kinds, fails : Run, empty : BOOLEAN]]
      /\ budget \in [fail : Nat, review : Nat, upset : Nat]
      /\ \A q \in Request : receipt[q].fails + budget.fail <= MaxFailures
      /\ MaxFailures \in Nat
  BY Bounds DEF Typed, TypeOK
<1>2. kind \in Kinds /\ (kind \notin Successes => budget.fail > 0)
  BY DEF Outcomes, Kinds, Successes
<1>3. receipt' = [receipt EXCEPT ![r] = Appended(receipt[r], kind)]
  BY DEF Answer
<1>4. budget' = [budget EXCEPT !.fail = budget.fail - (IF kind \in Successes THEN 0 ELSE 1)]
  BY DEF Answer
<1>5. /\ budget' \in [fail : Nat, review : Nat, upset : Nat]
      /\ budget'.fail = budget.fail - (IF kind \in Successes THEN 0 ELSE 1)
  BY <1>1, <1>2, <1>4
<1>6. LET rec == Appended(receipt[r], kind) IN
      /\ rec \in [ok : BOOLEAN, last : Kinds, fails : Run, empty : BOOLEAN]
      /\ receipt[r].ok => rec.ok
      /\ rec.fails + budget'.fail <= MaxFailures
  <2>1. CASE kind = "none"
    BY <1>1, <1>2, <1>5, <2>1 DEF Appended, Run
  <2>2. CASE kind \in Successes
    BY <1>1, <1>2, <1>5, <2>2 DEF Appended, Run, Successes
  <2>3. CASE kind # "none" /\ kind \notin Successes
    <3>1. Appended(receipt[r], kind) = [ok |-> receipt[r].ok, last |-> kind,
                                        fails |-> receipt[r].fails + 1,
                                        empty |-> receipt[r].empty]
      BY <1>1, <2>3 DEF Appended, Successes
    <3>2. receipt[r].fails + 1 \in Run /\ receipt[r].fails + 1 + budget'.fail <= MaxFailures
      BY <1>1, <1>2, <1>5, <2>3 DEF Run
    <3>3. QED
      BY <1>1, <1>2, <3>1, <3>2
  <2>4. QED
    BY <2>1, <2>2, <2>3
<1>7. \A q \in Request : q # r => receipt'[q] = receipt[q]
  BY <1>1, <1>3
<1>8. receipt'[r] = Appended(receipt[r], kind)
  BY <1>1, <1>3
<1>9. ASSUME NEW q \in Request
      PROVE  /\ receipt'[q] \in [ok : BOOLEAN, last : Kinds, fails : Run, empty : BOOLEAN]
             /\ receipt[q].ok => receipt'[q].ok
             /\ receipt'[q].fails + budget'.fail <= MaxFailures
  <2>1. CASE q = r
    BY <1>6, <1>8, <2>1
  <2>2. CASE q # r
    BY <1>1, <1>2, <1>5, <1>7, <2>2 DEF Run
  <2>3. QED
    BY <2>1, <2>2
<1>10. sourced' \in BOOLEAN
  BY DEF Answer, Typed, TypeOK
<1>11. QED
  BY <1>1, <1>3, <1>5, <1>7, <1>9, <1>10 DEF Answered

\* A worker that gives up or is done has nothing in hand.
LEMMA IdleTypes ==
    ASSUME Typed, NEW w \in Worker, GoIdle(w)
    PROVE  /\ pc' \in [Worker -> Labels] /\ slice' \in [Worker -> SUBSET Request]
           /\ running' \in [Worker -> SUBSET Request] /\ retry' \in [Worker -> BOOLEAN]
           /\ proposed' \in [Worker -> SUBSET Proposal]
           /\ \A v \in Worker : proposed'[v] \subseteq Proposal
<1>1. proposed' \in [Worker -> SUBSET Proposal]
  BY DEF GoIdle, Typed
<1>2. QED
  BY <1>1 DEF GoIdle, Goto, Typed, TypeOK, Labels

\* Every step keeps the types.
LEMMA TypedStep == Typed /\ [Next]_vars => Typed'
<1> SUFFICES ASSUME Typed, [Next]_vars PROVE Typed'
  OBVIOUS
<1> USE DEF Typed, TypeOK, Proposal
<1>1. ASSUME NEW w \in Worker, Look(w) PROVE Typed'
  <2>1. Candidates \ Skipped \in SUBSET Request /\ (Coverage(FALSE) = "failed") \in BOOLEAN
    BY DEF Candidates, Waiting, InRow
  <2>2. /\ pc' = [pc EXCEPT ![w] = "enter"] \/ pc' = [pc EXCEPT ![w] = "reconcile"]
        /\ \/ /\ slice' = [slice EXCEPT ![w] = Candidates \ Skipped]
              /\ retry' = [retry EXCEPT ![w] = (Coverage(FALSE) = "failed")]
           \/ UNCHANGED <<slice, retry>>
    BY <1>1 DEF Look, Goto
  <2>3. UNCHANGED <<route, receipt, row, register, sourced, lane, rlane, unlocked, running, proposed,
                    stray, strayed, budget>>
    BY <1>1 DEF Look, records, locks, strays
  <2>4. pc' \in [Worker -> Labels]
    BY <2>2 DEF Labels
  <2>5. slice' \in [Worker -> SUBSET Request]
    BY <2>1, <2>2
  <2>6. retry' \in [Worker -> BOOLEAN]
    BY <2>1, <2>2
  <2>7. QED
    BY <2>3, <2>4, <2>5, <2>6 DEF Labels
<1>2. ASSUME NEW w \in Worker, Enter(w) PROVE Typed'
  <2>1. lane' \in [Request -> Worker \cup {NoWorker}]
    BY <1>2 DEF Enter
  <2>2. UNCHANGED <<route, receipt, row, register, sourced, rlane, unlocked, stray, strayed, budget>>
    BY <1>2 DEF Enter, records, strays
  <2>3. CASE GoIdle(w)
    BY <2>1, <2>2, <2>3, IdleTypes DEF Labels
  <2>4. CASE Goto(w, "check") /\ UNCHANGED <<slice, running, retry, proposed>>
    BY <2>1, <2>2, <2>4 DEF Goto
  <2>5. QED
    BY <1>2, <2>3, <2>4 DEF Enter
<1>3. ASSUME NEW w \in Worker, Check(w) PROVE Typed'
  <2>1. lane' \in [Request -> Worker \cup {NoWorker}]
    BY <1>3 DEF Check, ReleaseLanes
  <2>2. UNCHANGED <<route, receipt, row, register, sourced, rlane, unlocked, stray, strayed, budget>>
    BY <1>3 DEF Check, records, strays
  <2>3. CASE GoIdle(w)
    BY <2>1, <2>2, <2>3, IdleTypes DEF Labels
  <2>4. CASE /\ slice' = [slice EXCEPT ![w] = slice[w] \ Skipped] /\ Goto(w, "call")
             /\ UNCHANGED <<running, retry, proposed>>
    BY <2>1, <2>2, <2>4 DEF Goto
  <2>5. QED
    BY <1>3, <2>3, <2>4 DEF Check
<1>4. ASSUME NEW w \in Worker, Start(w) PROVE Typed'
  BY <1>4 DEF Start, records, locks, strays
<1>5. ASSUME NEW w \in Worker, Finish(w) PROVE Typed'
  <2>1. PICK r \in running[w], kind \in Outcomes :
          Answer(r, kind) /\ running' = [running EXCEPT ![w] = running[w] \ {r}]
    BY <1>5 DEF Finish
  <2>2. Answered(r)
    BY <2>1, AnswerStep
  <2>3. UNCHANGED <<route, row, register, lane, rlane, unlocked, pc, slice, retry, proposed,
                    stray, strayed>>
    BY <1>5 DEF Finish, locks, strays
  <2>4. QED
    BY <2>1, <2>2, <2>3 DEF Answered
<1>6. ASSUME NEW w \in Worker, Return(w) PROVE Typed'
  BY <1>6 DEF Return, ReleaseLanes, Goto, records, strays
<1>7. ASSUME NEW w \in Worker, EnterReconcile(w) PROVE Typed'
  <2>1. rlane' \in Worker \cup {NoWorker}
    BY <1>7 DEF EnterReconcile
  <2>2. UNCHANGED <<route, receipt, row, register, sourced, lane, unlocked, stray, strayed, budget>>
    BY <1>7 DEF EnterReconcile, records, strays
  <2>3. CASE GoIdle(w)
    BY <2>1, <2>2, <2>3, IdleTypes DEF Labels
  <2>4. CASE Goto(w, "normalize") /\ UNCHANGED <<slice, running, retry, proposed>>
    BY <2>1, <2>2, <2>4 DEF Goto
  <2>5. QED
    BY <1>7, <2>3, <2>4 DEF EnterReconcile
<1>8. ASSUME NEW w \in Worker, Normalize(w) PROVE Typed'
  <2>1. row' \in [Request -> {"pending", "ready", "failed"}]
    BY <1>8 DEF Normalize, RowOf
  <2>2. QED
    BY <1>8, <2>1 DEF Normalize, Goto, locks, strays
<1>9. ASSUME NEW w \in Worker, Propose(w) PROVE Typed'
  <2>1. proposed' \in [Worker -> SUBSET Proposal]
    BY <1>9 DEF Propose, Proposal, OpenFailure
  <2>2. /\ pc' = [pc EXCEPT ![w] = "persist"]
        /\ UNCHANGED <<route, receipt, row, register, sourced, lane, rlane, unlocked, slice, running,
                       retry, stray, strayed, budget>>
    BY <1>9 DEF Propose, Goto, records, locks, strays
  <2>3. \A v \in Worker : proposed'[v] \subseteq Proposal
    BY <2>1
  <2>4. QED
    BY <2>1, <2>2, <2>3 DEF Proposal
<1>10. ASSUME NEW w \in Worker, Persist(w) PROVE Typed'
  <2>1. register' \in [Request ->
            [Run -> OpenFailure \cup {"none", "accepted_skip", "corrected"}]]
    <3>1. \A r \in Request, n \in Run :
            Corrected(register)[r][n] \in OpenFailure \cup {"none", "accepted_skip", "corrected"}
      BY DEF Corrected
    <3>2. ASSUME NEW r \in Request, NEW n \in Run
          PROVE  register'[r][n] \in OpenFailure \cup {"none", "accepted_skip", "corrected"}
      <4>1. \A p \in proposed[w] : p.status \in OpenFailure
        BY DEF Proposal
      <4>2. CASE \E p \in proposed[w] : p.id = r /\ p.run = n
        BY <1>10, <4>1, <4>2 DEF Persist, Upserted
      <4>3. CASE ~\E p \in proposed[w] : p.id = r /\ p.run = n
        BY <1>10, <3>1, <4>3 DEF Persist, Upserted
      <4>4. QED
        BY <4>2, <4>3
    <3>3. register' = [r \in Request |-> [n \in Run |-> register'[r][n]]]
      BY <1>10 DEF Persist, Upserted
    <3>4. QED
      BY <3>2, <3>3
  <2>2. QED
    BY <1>10, <2>1 DEF Persist, Goto, locks, strays
<1>11. ASSUME NEW w \in Worker, Cover(w) PROVE Typed'
  <2>1. /\ unlocked' \in BOOLEAN /\ rlane' = NoWorker /\ GoIdle(w)
        /\ UNCHANGED <<route, receipt, row, register, sourced, lane, stray, strayed, budget>>
    BY <1>11 DEF Cover, records, strays
  <2>2. QED
    BY <2>1, IdleTypes DEF Labels
<1>12. ASSUME NEW w \in Worker, Crash(w) PROVE Typed'
  <2>1. /\ rlane' \in Worker \cup {NoWorker} /\ lane' \in [Request -> Worker \cup {NoWorker}]
        /\ GoIdle(w) /\ stray' = stray \cup running[w] /\ strayed' = strayed \cup running[w]
        /\ UNCHANGED <<route, receipt, row, register, sourced, unlocked>>
    BY <1>12 DEF Crash, ReleaseLanes, records
  <2>2. budget' \in [fail : Nat, review : Nat, upset : Nat] /\ budget'.fail = budget.fail
    BY <1>12 DEF Crash
  <2>3. QED
    BY <2>1, <2>2, IdleTypes DEF Labels
<1>13. CASE ManualCall
  <2>1. budget' \in [fail : Nat, review : Nat, upset : Nat] /\ budget'.fail = budget.fail
    <3>1. budget.upset > 0 /\ budget' = [budget EXCEPT !.upset = budget.upset - 1]
      BY <1>13 DEF ManualCall
    <3>2. budget \in [fail : Nat, review : Nat, upset : Nat]
      OBVIOUS
    <3>3. QED
      BY <3>1, <3>2
  <2>2. PICK r \in Request : stray' = stray \cup {r} /\ strayed' = strayed \cup {r}
    BY <1>13 DEF ManualCall
  <2>3. UNCHANGED <<route, receipt, row, register, sourced, lane, rlane, unlocked, pc, slice, running,
                    retry, proposed>>
    BY <1>13 DEF ManualCall, records, locks, local
  <2>4. QED
    BY <2>1, <2>2, <2>3
<1>14. CASE StrayEnds
  <2>1. PICK r \in stray, kind \in Outcomes : Answer(r, kind) /\ stray' = stray \ {r}
    BY <1>14 DEF StrayEnds
  <2>2. Answered(r)
    BY <2>1, AnswerStep
  <2>3. UNCHANGED <<route, row, register, lane, rlane, unlocked, pc, slice, running, retry,
                    proposed, strayed>>
    BY <1>14 DEF StrayEnds, locks, local
  <2>4. QED
    BY <2>1, <2>2, <2>3 DEF Answered
<1>15. CASE Review
  <2>1. PICK r \in Request :
            register' = [register EXCEPT ![r][receipt[r].fails] = "accepted_skip"]
    BY <1>15 DEF Review
  <2>2. register' \in [Request ->
            [Run -> OpenFailure \cup {"none", "accepted_skip", "corrected"}]]
    BY <2>1
  <2>3. budget' \in [fail : Nat, review : Nat, upset : Nat] /\ budget'.fail = budget.fail
    <3>1. budget.review > 0 /\ budget' = [budget EXCEPT !.review = budget.review - 1]
      BY <1>15 DEF Review
    <3>2. budget \in [fail : Nat, review : Nat, upset : Nat] /\ budget.review - 1 \in Nat
      BY <3>1
    <3>3. budget' \in [fail : Nat, review : Nat, upset : Nat]
      BY <3>1, <3>2
    <3>4. QED
      BY <3>1, <3>2, <3>3
  <2>4. QED
    BY <1>15, <2>2, <2>3 DEF Review, locks, local, strays
<1>16. CASE LoseSource
  <2>1. sourced' = FALSE /\ budget.upset > 0 /\ budget' = [budget EXCEPT !.upset = budget.upset - 1]
    BY <1>16 DEF LoseSource
  <2>2. budget \in [fail : Nat, review : Nat, upset : Nat] /\ budget.upset - 1 \in Nat
    BY <2>1
  <2>3. budget' \in [fail : Nat, review : Nat, upset : Nat] /\ budget'.fail = budget.fail
    BY <2>1, <2>2
  <2>4. UNCHANGED <<route, receipt, row, register, lane, rlane, unlocked, pc, slice, running,
                    retry, proposed, stray, strayed>>
    BY <1>16 DEF LoseSource, locks, local, strays
  <2>5. QED
    BY <2>1, <2>3, <2>4
<1>17. CASE UNCHANGED vars
  BY <1>17 DEF vars
<1>18. QED
  BY <1>1, <1>2, <1>3, <1>4, <1>5, <1>6, <1>7, <1>8,
     <1>9, <1>10, <1>11, <1>12, <1>13, <1>14, <1>15, <1>16, <1>17 DEF Next, Step

\* The locks exclude: a request or the reconcile lock is in one worker's hands.
LEMMA InHandStep == Typed /\ InHand /\ [Next]_vars => InHand'
<1> SUFFICES ASSUME Typed, InHand, [Next]_vars, NEW v \in Worker
             PROVE  HasInHand(v)'
  BY DEF InHand
<1> /\ pc \in [Worker -> Labels] /\ lane \in [Request -> Worker \cup {NoWorker}]
    /\ slice \in [Worker -> SUBSET Request] /\ running \in [Worker -> SUBSET Request]
    /\ proposed \in [Worker -> SUBSET Proposal] /\ NoWorker \notin Worker
  BY Bounds DEF Typed, TypeOK, Labels
<1> USE DEF InHand, HasInHand
<1>1. ASSUME NEW w \in Worker, Look(w) PROVE HasInHand(v)'
  <2>1. /\ pc[w] = "idle" /\ pc' \in {[pc EXCEPT ![w] = "enter"], [pc EXCEPT ![w] = "reconcile"]}
        /\ \A u \in Worker \ {w} : slice'[u] = slice[u]
        /\ UNCHANGED <<lane, rlane, running, proposed>>
    BY <1>1 DEF Look, Goto, locks
  <2>2. QED
    BY <2>1
<1>2. ASSUME NEW w \in Worker, Enter(w) PROVE HasInHand(v)'
  BY <1>2 DEF Enter, GoIdle, Goto, records, strays
<1>3. ASSUME NEW w \in Worker, Check(w) PROVE HasInHand(v)'
  BY <1>3 DEF Check, GoIdle, Goto, ReleaseLanes, records, strays
<1>4. ASSUME NEW w \in Worker, Start(w) PROVE HasInHand(v)'
  BY <1>4 DEF Start, records, locks, strays
<1>5. ASSUME NEW w \in Worker, Finish(w) PROVE HasInHand(v)'
  BY <1>5 DEF Finish, locks, strays
<1>6. ASSUME NEW w \in Worker, Return(w) PROVE HasInHand(v)'
  BY <1>6 DEF Return, ReleaseLanes, Goto, records, strays
<1>7. ASSUME NEW w \in Worker, EnterReconcile(w) PROVE HasInHand(v)'
  BY <1>7 DEF EnterReconcile, GoIdle, Goto, records, strays
<1>8. ASSUME NEW w \in Worker, Normalize(w) PROVE HasInHand(v)'
  BY <1>8 DEF Normalize, Goto, locks, strays
<1>9. ASSUME NEW w \in Worker, Propose(w) PROVE HasInHand(v)'
  BY <1>9 DEF Propose, Goto, records, locks, strays
<1>10. ASSUME NEW w \in Worker, Persist(w) PROVE HasInHand(v)'
  BY <1>10 DEF Persist, Goto, locks, strays
<1>11. ASSUME NEW w \in Worker, Cover(w) PROVE HasInHand(v)'
  BY <1>11 DEF Cover, GoIdle, Goto, records, strays
<1>12. ASSUME NEW w \in Worker, Crash(w) PROVE HasInHand(v)'
  BY <1>12 DEF Crash, GoIdle, Goto, ReleaseLanes, records
<1>13. CASE ManualCall
  BY <1>13 DEF ManualCall, records, locks, local
<1>14. CASE StrayEnds
  BY <1>14 DEF StrayEnds, locks, local
<1>15. CASE Review
  BY <1>15 DEF Review, locks, local, strays
<1>16. CASE LoseSource
  BY <1>16 DEF LoseSource, locks, local, strays
<1>17. CASE UNCHANGED vars
  BY <1>17 DEF vars
<1>18. QED
  BY <1>1, <1>2, <1>3, <1>4, <1>5, <1>6, <1>7, <1>8,
     <1>9, <1>10, <1>11, <1>12, <1>13, <1>14, <1>15, <1>16, <1>17 DEF Next, Step

\* No row is ready without a successful run on its receipt.
LEMMA BasedStep == Typed /\ Based /\ [Next]_vars => Based'
<1> SUFFICES ASSUME Typed, Based, [Next]_vars PROVE Based'
  OBVIOUS
<1> /\ pc \in [Worker -> Labels] /\ NoWorker \notin Worker
    /\ row \in [Request -> {"pending", "ready", "failed"}]
    /\ register \in [Request -> [Run -> OpenFailure \cup {"none", "accepted_skip", "corrected"}]]
    /\ receipt \in [Request -> [ok : BOOLEAN, last : Kinds, fails : Run, empty : BOOLEAN]]
  BY Bounds DEF Typed, TypeOK, Labels
<1> USE DEF Based
<1>1. ASSUME NEW w \in Worker, Look(w) PROVE Based'
  BY <1>1 DEF Look, records, locks, strays
<1>2. ASSUME NEW w \in Worker, Enter(w) PROVE Based'
  BY <1>2 DEF Enter, GoIdle, Goto, records, strays
<1>3. ASSUME NEW w \in Worker, Check(w) PROVE Based'
  BY <1>3 DEF Check, GoIdle, Goto, ReleaseLanes, records, strays
<1>4. ASSUME NEW w \in Worker, Start(w) PROVE Based'
  BY <1>4 DEF Start, records, locks, strays
<1>5. ASSUME NEW w \in Worker, Finish(w) PROVE Based'
  <2>1. PICK r \in running[w], kind \in Outcomes : Answer(r, kind)
    BY <1>5 DEF Finish
  <2>2. Answered(r)
    BY <2>1, AnswerStep DEF Typed, TypeOK
  <2>3. UNCHANGED row
    BY <1>5 DEF Finish
  <2>4. QED
    BY <2>2, <2>3 DEF Answered, Based
<1>6. ASSUME NEW w \in Worker, Return(w) PROVE Based'
  BY <1>6 DEF Return, ReleaseLanes, Goto, records, strays
<1>7. ASSUME NEW w \in Worker, EnterReconcile(w) PROVE Based'
  BY <1>7 DEF EnterReconcile, GoIdle, Goto, records, strays
<1>8. ASSUME NEW w \in Worker, Normalize(w) PROVE Based'
  <2>1. row' = [r \in Request |-> RowOf(receipt[r])] /\ UNCHANGED receipt
    BY <1>8 DEF Normalize
  <2>2. QED
    BY <2>1 DEF Based, RowOf
<1>9. ASSUME NEW w \in Worker, Propose(w) PROVE Based'
  BY <1>9 DEF Propose, Goto, records, locks, strays
<1>10. ASSUME NEW w \in Worker, Persist(w) PROVE Based'
  BY <1>10 DEF Persist, Goto, locks, strays
<1>11. ASSUME NEW w \in Worker, Cover(w) PROVE Based'
  BY <1>11 DEF Cover, GoIdle, Goto, records, strays
<1>12. ASSUME NEW w \in Worker, Crash(w) PROVE Based'
  BY <1>12 DEF Crash, GoIdle, Goto, ReleaseLanes, records
<1>13. CASE ManualCall
  BY <1>13 DEF ManualCall, records, locks, local
<1>14. CASE StrayEnds
  <2>1. PICK r \in stray, kind \in Outcomes : Answer(r, kind)
    BY <1>14 DEF StrayEnds
  <2>2. Answered(r)
    BY <2>1, AnswerStep DEF Typed, TypeOK
  <2>3. UNCHANGED row
    BY <1>14 DEF StrayEnds
  <2>4. QED
    BY <2>2, <2>3 DEF Answered, Based
<1>15. CASE Review
  BY <1>15 DEF Review, locks, local, strays
<1>16. CASE LoseSource
  BY <1>16 DEF LoseSource, locks, local, strays
<1>17. CASE UNCHANGED vars
  BY <1>17 DEF vars
<1>18. QED
  BY <1>1, <1>2, <1>3, <1>4, <1>5, <1>6, <1>7, <1>8,
     <1>9, <1>10, <1>11, <1>12, <1>13, <1>14, <1>15, <1>16, <1>17 DEF Next, Step

\* The rows do not change while somebody has failures in hand to persist.
LEMMA UnopposedStep == Typed /\ InHand /\ Based /\ Unopposed /\ [Next]_vars => Unopposed'
<1> SUFFICES ASSUME Typed, InHand, Based, Unopposed, [Next]_vars PROVE Unopposed'
  OBVIOUS
<1> /\ pc \in [Worker -> Labels] /\ NoWorker \notin Worker
    /\ row \in [Request -> {"pending", "ready", "failed"}]
    /\ proposed \in [Worker -> SUBSET Proposal]
    /\ register \in [Request -> [Run -> OpenFailure \cup {"none", "accepted_skip", "corrected"}]]
    /\ receipt \in [Request -> [ok : BOOLEAN, last : Kinds, fails : Run, empty : BOOLEAN]]
  BY Bounds DEF Typed, TypeOK, Labels
<1> USE DEF Unopposed
<1>1. ASSUME NEW w \in Worker, Look(w) PROVE Unopposed'
  BY <1>1 DEF Look, records
<1>2. ASSUME NEW w \in Worker, Enter(w) PROVE Unopposed'
  BY <1>2 DEF Enter, GoIdle, Goto, records, strays
<1>3. ASSUME NEW w \in Worker, Check(w) PROVE Unopposed'
  BY <1>3 DEF Check, GoIdle, Goto, ReleaseLanes, records, strays
<1>4. ASSUME NEW w \in Worker, Start(w) PROVE Unopposed'
  BY <1>4 DEF Start, records, locks, strays
<1>5. ASSUME NEW w \in Worker, Finish(w) PROVE Unopposed'
  BY <1>5 DEF Finish, locks, strays
<1>6. ASSUME NEW w \in Worker, Return(w) PROVE Unopposed'
  BY <1>6 DEF Return, ReleaseLanes, Goto, records, strays
<1>7. ASSUME NEW w \in Worker, EnterReconcile(w) PROVE Unopposed'
  BY <1>7 DEF EnterReconcile, GoIdle, Goto, records, strays
<1>8. ASSUME NEW w \in Worker, Normalize(w) PROVE Unopposed'
  <2>1. \A u \in Worker : pc[u] # "persist" /\ proposed[u] = {}
    BY <1>8 DEF Normalize, InHand, HasInHand
  <2>2. QED
    BY <1>8, <2>1 DEF Normalize
<1>9. ASSUME NEW w \in Worker, Propose(w) PROVE Unopposed'
  <2>1. \A p \in proposed'[w] : row[p.id] # "ready"
    BY <1>9 DEF Propose, RowOf, Based
  <2>2. QED
    BY <1>9, <2>1 DEF Propose, records
<1>10. ASSUME NEW w \in Worker, Persist(w) PROVE Unopposed'
  BY <1>10 DEF Persist, Goto, locks, strays
<1>11. ASSUME NEW w \in Worker, Cover(w) PROVE Unopposed'
  BY <1>11 DEF Cover, GoIdle, Goto, records, strays
<1>12. ASSUME NEW w \in Worker, Crash(w) PROVE Unopposed'
  BY <1>12 DEF Crash, GoIdle, Goto, ReleaseLanes, records
<1>13. CASE ManualCall
  BY <1>13 DEF ManualCall, records, locks, local
<1>14. CASE StrayEnds
  BY <1>14 DEF StrayEnds, locks, local
<1>15. CASE Review
  BY <1>15 DEF Review, locks, local, strays
<1>16. CASE LoseSource
  BY <1>16 DEF LoseSource, locks, local, strays
<1>17. CASE UNCHANGED vars
  BY <1>17 DEF vars
<1>18. QED
  BY <1>1, <1>2, <1>3, <1>4, <1>5, <1>6, <1>7, <1>8,
     <1>9, <1>10, <1>11, <1>12, <1>13, <1>14, <1>15, <1>16, <1>17 DEF Next, Step

\* ... and what is persisted closes what is open against a ready row.
LEMMA ClosedStep == Typed /\ InHand /\ Rows /\ [Next]_vars => Closed'
<1> SUFFICES ASSUME Typed, InHand, Rows, [Next]_vars, NEW v \in Worker,
                    pc'[v] = "cover", NEW r \in Request, NEW n \in Run
             PROVE  row'[r] = "ready" => register'[r][n] \notin OpenFailure
  BY DEF Closed
<1> /\ pc \in [Worker -> Labels] /\ NoWorker \notin Worker
    /\ row \in [Request -> {"pending", "ready", "failed"}]
    /\ proposed \in [Worker -> SUBSET Proposal]
    /\ register \in [Request -> [Run -> OpenFailure \cup {"none", "accepted_skip", "corrected"}]]
    /\ receipt \in [Request -> [ok : BOOLEAN, last : Kinds, fails : Run, empty : BOOLEAN]]
  BY Bounds DEF Typed, TypeOK, Labels
<1> USE DEF Rows, Closed
<1>1. ASSUME NEW w \in Worker, Look(w)
      PROVE  row'[r] = "ready" => register'[r][n] \notin OpenFailure
  <2>1. pc[v] = "cover" /\ UNCHANGED <<row, register>>
    BY <1>1 DEF Look, Goto, GoIdle, records
  <2>2. QED
    BY <2>1
<1>2. ASSUME NEW w \in Worker, Enter(w)
      PROVE  row'[r] = "ready" => register'[r][n] \notin OpenFailure
  <2>1. pc[v] = "cover" /\ UNCHANGED <<row, register>>
    BY <1>2 DEF Enter, Goto, GoIdle, records
  <2>2. QED
    BY <2>1
<1>3. ASSUME NEW w \in Worker, Check(w)
      PROVE  row'[r] = "ready" => register'[r][n] \notin OpenFailure
  <2>1. pc[v] = "cover" /\ UNCHANGED <<row, register>>
    BY <1>3 DEF Check, Goto, GoIdle, records
  <2>2. QED
    BY <2>1
<1>4. ASSUME NEW w \in Worker, Start(w)
      PROVE  row'[r] = "ready" => register'[r][n] \notin OpenFailure
  <2>1. pc[v] = "cover" /\ UNCHANGED <<row, register>>
    BY <1>4 DEF Start, Goto, GoIdle, records
  <2>2. QED
    BY <2>1
<1>5. ASSUME NEW w \in Worker, Finish(w)
      PROVE  row'[r] = "ready" => register'[r][n] \notin OpenFailure
  <2>1. pc[v] = "cover" /\ UNCHANGED <<row, register>>
    BY <1>5 DEF Finish, Goto, GoIdle, records
  <2>2. QED
    BY <2>1
<1>6. ASSUME NEW w \in Worker, Return(w)
      PROVE  row'[r] = "ready" => register'[r][n] \notin OpenFailure
  <2>1. pc[v] = "cover" /\ UNCHANGED <<row, register>>
    BY <1>6 DEF Return, Goto, GoIdle, records
  <2>2. QED
    BY <2>1
<1>7. ASSUME NEW w \in Worker, EnterReconcile(w)
      PROVE  row'[r] = "ready" => register'[r][n] \notin OpenFailure
  <2>1. pc[v] = "cover" /\ UNCHANGED <<row, register>>
    BY <1>7 DEF EnterReconcile, Goto, GoIdle, records
  <2>2. QED
    BY <2>1
<1>8. ASSUME NEW w \in Worker, Normalize(w)
      PROVE  row'[r] = "ready" => register'[r][n] \notin OpenFailure
  <2>1. pc'[v] # "cover"
    BY <1>8 DEF Normalize, Goto, InHand, HasInHand
  <2>2. QED
    BY <2>1
<1>9. ASSUME NEW w \in Worker, Propose(w)
      PROVE  row'[r] = "ready" => register'[r][n] \notin OpenFailure
  <2>1. pc[v] = "cover" /\ UNCHANGED <<row, register>>
    BY <1>9 DEF Propose, Goto, GoIdle, records
  <2>2. QED
    BY <2>1
<1>10. ASSUME NEW w \in Worker, Persist(w)
       PROVE  row'[r] = "ready" => register'[r][n] \notin OpenFailure
  <2>1. v = w
    BY <1>10 DEF Persist, Goto, InHand, HasInHand
  <2>2. UNCHANGED <<row, receipt>> /\ register' = Upserted(Corrected(register), proposed[w])
    BY <1>10 DEF Persist
  <2>3. ASSUME row[r] = "ready" PROVE register'[r][n] \notin OpenFailure
    <3>1. Corrected(register)[r][n] \notin OpenFailure
      BY <2>3 DEF Corrected, Based, OpenFailure
    <3>2. register'[r][n] = Corrected(register)[r][n]
      BY <2>2, <2>3 DEF Upserted, Unopposed
    <3>3. QED
      BY <3>1, <3>2
  <2>4. QED
    BY <2>2, <2>3
<1>11. ASSUME NEW w \in Worker, Cover(w)
       PROVE  row'[r] = "ready" => register'[r][n] \notin OpenFailure
  <2>1. pc[v] = "cover" /\ UNCHANGED <<row, register>>
    BY <1>11 DEF Cover, Goto, GoIdle, records
  <2>2. QED
    BY <2>1
<1>12. ASSUME NEW w \in Worker, Crash(w)
       PROVE  row'[r] = "ready" => register'[r][n] \notin OpenFailure
  <2>1. pc[v] = "cover" /\ UNCHANGED <<row, register>>
    BY <1>12 DEF Crash, Goto, GoIdle, records
  <2>2. QED
    BY <2>1
<1>13. CASE ManualCall
  BY <1>13 DEF ManualCall, records, locks, local
<1>14. CASE StrayEnds
  BY <1>14 DEF StrayEnds, locks, local
<1>15. CASE Review
  <2>1. PICK q \in Request : register' = [register EXCEPT ![q][receipt[q].fails] = "accepted_skip"]
    BY <1>15 DEF Review
  <2>2. register'[r][n] \in {register[r][n], "accepted_skip"} /\ UNCHANGED <<row, pc>>
    BY <1>15, <2>1 DEF Review, local
  <2>3. QED
    BY <2>2 DEF OpenFailure
<1>16. CASE LoseSource
  BY <1>16 DEF LoseSource, locks, local, strays
<1>17. CASE UNCHANGED vars
  BY <1>17 DEF vars
<1>18. QED
  BY <1>1, <1>2, <1>3, <1>4, <1>5, <1>6, <1>7, <1>8,
     <1>9, <1>10, <1>11, <1>12, <1>13, <1>14, <1>15, <1>16, <1>17 DEF Next, Step

\* A call that starts has no success yet, and only the worker that holds the request
\* waits for a run of it: a success that comes meanwhile is a stray's.
LEMMA PaidStep == Typed /\ InHand /\ Paid /\ [Next]_vars => Paid'
<1> SUFFICES ASSUME Typed, InHand, Paid, [Next]_vars, route' = "options",
                    NEW v \in Worker, NEW r \in Request
             PROVE  r \in running'[v] /\ receipt'[r].ok => r \in strayed'
  BY TypedStep DEF Paid, Typed, TypeOK
<1> /\ pc \in [Worker -> Labels] /\ lane \in [Request -> Worker \cup {NoWorker}]
    /\ slice \in [Worker -> SUBSET Request] /\ running \in [Worker -> SUBSET Request]
    /\ receipt \in [Request -> [ok : BOOLEAN, last : Kinds, fails : Run, empty : BOOLEAN]]
    /\ stray \subseteq strayed /\ strayed \subseteq Request
  BY DEF Typed, TypeOK, Labels
<1> USE DEF Paid
<1>1. ASSUME NEW w \in Worker, Look(w)
      PROVE  r \in running'[v] /\ receipt'[r].ok => r \in strayed'
  BY <1>1 DEF Look, records, strays
<1>2. ASSUME NEW w \in Worker, Enter(w)
      PROVE  r \in running'[v] /\ receipt'[r].ok => r \in strayed'
  BY <1>2 DEF Enter, GoIdle, Goto, records, strays
<1>3. ASSUME NEW w \in Worker, Check(w)
      PROVE  r \in running'[v] /\ receipt'[r].ok => r \in strayed'
  BY <1>3 DEF Check, GoIdle, Goto, ReleaseLanes, records, strays
<1>4. ASSUME NEW w \in Worker, Start(w)
      PROVE  r \in running'[v] /\ receipt'[r].ok => r \in strayed'
  BY <1>4 DEF Start, Satisfied, records, strays
<1>5. ASSUME NEW w \in Worker, Finish(w)
      PROVE  r \in running'[v] /\ receipt'[r].ok => r \in strayed'
  <2>1. PICK q \in running[w], kind \in Outcomes :
            Answer(q, kind) /\ running' = [running EXCEPT ![w] = running[w] \ {q}]
    BY <1>5 DEF Finish
  <2>2. \A p \in Request : p # q => receipt'[p] = receipt[p]
    BY <2>1, AnswerStep DEF Answered
  <2>3. r \in running'[v] => r # q
    <3>1. CASE v = w
      BY <2>1, <3>1
    <3>2. CASE v # w
      <4>1. r \in running'[v] => lane[r] = v
        BY <2>1, <3>2 DEF InHand, HasInHand
      <4>2. lane[q] = w
        BY <2>1 DEF InHand, HasInHand
      <4>3. QED
        BY <3>2, <4>1, <4>2
    <3>3. QED
      BY <3>1, <3>2
  <2>4. running'[v] \subseteq running[v] /\ UNCHANGED <<route, strayed>>
    BY <1>5, <2>1 DEF Finish, strays
  <2>5. QED
    BY <2>2, <2>3, <2>4
<1>6. ASSUME NEW w \in Worker, Return(w)
      PROVE  r \in running'[v] /\ receipt'[r].ok => r \in strayed'
  BY <1>6 DEF Return, ReleaseLanes, Goto, records, strays
<1>7. ASSUME NEW w \in Worker, EnterReconcile(w)
      PROVE  r \in running'[v] /\ receipt'[r].ok => r \in strayed'
  BY <1>7 DEF EnterReconcile, GoIdle, Goto, records, strays
<1>8. ASSUME NEW w \in Worker, Normalize(w)
      PROVE  r \in running'[v] /\ receipt'[r].ok => r \in strayed'
  BY <1>8 DEF Normalize, Goto, locks, strays
<1>9. ASSUME NEW w \in Worker, Propose(w)
      PROVE  r \in running'[v] /\ receipt'[r].ok => r \in strayed'
  BY <1>9 DEF Propose, Goto, records, locks, strays
<1>10. ASSUME NEW w \in Worker, Persist(w)
       PROVE  r \in running'[v] /\ receipt'[r].ok => r \in strayed'
  BY <1>10 DEF Persist, Goto, locks, strays
<1>11. ASSUME NEW w \in Worker, Cover(w)
       PROVE  r \in running'[v] /\ receipt'[r].ok => r \in strayed'
  BY <1>11 DEF Cover, GoIdle, Goto, records, strays
<1>12. ASSUME NEW w \in Worker, Crash(w)
       PROVE  r \in running'[v] /\ receipt'[r].ok => r \in strayed'
  BY <1>12 DEF Crash, GoIdle, Goto, ReleaseLanes, records
<1>13. CASE ManualCall
  BY <1>13 DEF ManualCall, records, locks, local
<1>14. CASE StrayEnds
  <2>1. PICK q \in stray, kind \in Outcomes : Answer(q, kind)
    BY <1>14 DEF StrayEnds
  <2>2. \A p \in Request : p # q => receipt'[p] = receipt[p]
    BY <2>1, AnswerStep DEF Answered
  <2>3. UNCHANGED <<route, running, strayed>>
    BY <1>14 DEF StrayEnds, local
  <2>4. QED
    BY <2>1, <2>2, <2>3
<1>15. CASE Review
  BY <1>15 DEF Review, locks, local, strays
<1>16. CASE LoseSource
  BY <1>16 DEF LoseSource, locks, local, strays
<1>17. CASE UNCHANGED vars
  BY <1>17 DEF vars
<1>18. QED
  BY <1>1, <1>2, <1>3, <1>4, <1>5, <1>6, <1>7, <1>8,
     <1>9, <1>10, <1>11, <1>12, <1>13, <1>14, <1>15, <1>16, <1>17 DEF Next, Step

\* A report that says ready counts as many requests as there are; if it counts none
\* of them twice, they are all accounted for.
LEMMA ReadyReport ==
    ASSUME Typed, Based, Coverage(TRUE) = "ready"
    PROVE  \/ \A r \in Request : receipt[r].ok \/ r \in Accepted
           \/ \E r \in Request : receipt[r].ok /\ r \in Accepted
<1> DEFINE R == InRow("ready")
           C == R \cup Accepted
<1>1. Cardinality(R) + Cardinality(Accepted) >= Cardinality(Request)
  BY DEF Coverage, TaskCoverage
<1>2. /\ R \subseteq Request /\ Accepted \subseteq Request /\ C \subseteq Request
      /\ IsFiniteSet(Request) /\ IsFiniteSet(R) /\ IsFiniteSet(Accepted) /\ IsFiniteSet(C)
  <2>1. R \subseteq Request /\ Accepted \subseteq Request
    BY DEF InRow, Accepted
  <2>2. IsFiniteSet(Request)
    BY Bounds
  <2>3. QED
    BY <2>1, <2>2, FS_Subset, FS_Union
<1>3. \A r \in R : receipt[r].ok
  BY DEF Based, InRow
<1>4. CASE R \cap Accepted # {}
  BY <1>2, <1>3, <1>4
<1>5. CASE R \cap Accepted = {}
  <2> HIDE DEF R
  <2>1. /\ Cardinality(C) = Cardinality(R) + Cardinality(Accepted) - Cardinality(R \cap Accepted)
        /\ Cardinality(R) \in Nat /\ Cardinality(Accepted) \in Nat /\ Cardinality(C) \in Nat
        /\ Cardinality(Request) \in Nat
    BY <1>2, FS_Union, FS_CardinalityType
  <2>2. Cardinality(R \cap Accepted) = 0
    BY <1>5, FS_EmptySet
  <2>3. Cardinality(C) <= Cardinality(Request)
    BY <1>2, FS_Subset
  <2>4. Cardinality(C) = Cardinality(Request)
    BY <1>1, <2>1, <2>2, <2>3
  <2>5. C = Request
    BY <1>2, <2>4, FS_Subset
  <2>6. QED
    BY <1>3, <2>5
<1>6. QED
  BY <1>4, <1>5

\* What a request is accounted for by is never taken back.
Kept ==
    \A r \in Request : /\ receipt[r].ok => receipt'[r].ok
                       /\ Held(r) => Held(r)'

\* No step takes back what a request is accounted for by.
LEMMA KeptStep == Typed /\ [Next]_vars => Kept
<1> SUFFICES ASSUME Typed, [Next]_vars PROVE Kept
  OBVIOUS
<1> /\ pc \in [Worker -> Labels] /\ proposed \in [Worker -> SUBSET Proposal]
    /\ register \in [Request -> [Run -> OpenFailure \cup {"none", "accepted_skip", "corrected"}]]
    /\ receipt \in [Request -> [ok : BOOLEAN, last : Kinds, fails : Run, empty : BOOLEAN]]
  BY DEF Typed, TypeOK, Labels
<1>1. ASSUME NEW w \in Worker, Look(w) PROVE Kept
  <2>1. UNCHANGED <<register, receipt>> /\ \A u \in Worker : proposed'[u] \subseteq proposed[u]
    BY <1>1 DEF Look, GoIdle, records, local
  <2>2. QED
    BY <2>1 DEF Kept, Held
<1>2. ASSUME NEW w \in Worker, Enter(w) PROVE Kept
  <2>1. UNCHANGED <<register, receipt>> /\ \A u \in Worker : proposed'[u] \subseteq proposed[u]
    BY <1>2 DEF Enter, GoIdle, records, local
  <2>2. QED
    BY <2>1 DEF Kept, Held
<1>3. ASSUME NEW w \in Worker, Check(w) PROVE Kept
  <2>1. UNCHANGED <<register, receipt>> /\ \A u \in Worker : proposed'[u] \subseteq proposed[u]
    BY <1>3 DEF Check, GoIdle, records, local
  <2>2. QED
    BY <2>1 DEF Kept, Held
<1>4. ASSUME NEW w \in Worker, Start(w) PROVE Kept
  <2>1. UNCHANGED <<register, receipt>> /\ \A u \in Worker : proposed'[u] \subseteq proposed[u]
    BY <1>4 DEF Start, GoIdle, records, local
  <2>2. QED
    BY <2>1 DEF Kept, Held
<1>5. ASSUME NEW w \in Worker, Finish(w) PROVE Kept
  <2>1. PICK q \in running[w], kind \in Outcomes : Answer(q, kind)
    BY <1>5 DEF Finish
  <2>2. \A r \in Request : receipt[r].ok => receipt'[r].ok
    BY <2>1, AnswerStep DEF Answered, Typed, TypeOK
  <2>3. UNCHANGED <<register, proposed>>
    BY <1>5 DEF Finish, local
  <2>4. QED
    BY <2>2, <2>3 DEF Kept, Held
<1>6. ASSUME NEW w \in Worker, Return(w) PROVE Kept
  <2>1. UNCHANGED <<register, receipt>> /\ \A u \in Worker : proposed'[u] \subseteq proposed[u]
    BY <1>6 DEF Return, GoIdle, records, local
  <2>2. QED
    BY <2>1 DEF Kept, Held
<1>7. ASSUME NEW w \in Worker, EnterReconcile(w) PROVE Kept
  <2>1. UNCHANGED <<register, receipt>> /\ \A u \in Worker : proposed'[u] \subseteq proposed[u]
    BY <1>7 DEF EnterReconcile, GoIdle, records, local
  <2>2. QED
    BY <2>1 DEF Kept, Held
<1>8. ASSUME NEW w \in Worker, Normalize(w) PROVE Kept
  <2>1. UNCHANGED <<register, receipt>> /\ \A u \in Worker : proposed'[u] \subseteq proposed[u]
    BY <1>8 DEF Normalize, GoIdle, records, local
  <2>2. QED
    BY <2>1 DEF Kept, Held
<1>9. ASSUME NEW w \in Worker, Propose(w) PROVE Kept
  <2>1. UNCHANGED <<register, receipt>>
    BY <1>9 DEF Propose, records
  <2>2. \A p \in proposed'[w] : p.id \notin Accepted
    BY <1>9 DEF Propose
  <2>3. \A u \in Worker \ {w} : proposed'[u] = proposed[u]
    BY <1>9 DEF Propose
  <2>4. ASSUME NEW r \in Request, Held(r) PROVE Held(r)'
    <3>1. PICK n \in Run : /\ register[r][n] = "accepted_skip"
                           /\ \A u \in Worker : \A p \in proposed[u] : ~(p.id = r /\ p.run = n)
      BY <2>4 DEF Held
    <3>2. ASSUME NEW u \in Worker, NEW p \in proposed'[u] PROVE ~(p.id = r /\ p.run = n)
      <4>1. CASE u = w
        BY <2>2, <3>1, <4>1 DEF Accepted
      <4>2. CASE u # w
        BY <2>3, <3>1, <4>2
      <4>3. QED
        BY <4>1, <4>2
    <3>3. QED
      BY <2>1, <3>1, <3>2 DEF Held
  <2>5. QED
    BY <2>1, <2>4 DEF Kept
<1>10. ASSUME NEW w \in Worker, Persist(w) PROVE Kept
  <2>1. /\ register' = Upserted(Corrected(register), proposed[w])
        /\ \A u \in Worker : proposed'[u] \subseteq proposed[u]
        /\ UNCHANGED receipt
    BY <1>10 DEF Persist
  <2>2. ASSUME NEW r \in Request, Held(r) PROVE Held(r)'
    <3>1. PICK n \in Run : /\ register[r][n] = "accepted_skip"
                           /\ \A u \in Worker : \A p \in proposed[u] : ~(p.id = r /\ p.run = n)
      BY <2>2 DEF Held
    <3>2. Corrected(register)[r][n] = "accepted_skip"
      BY <3>1 DEF Corrected, OpenFailure
    <3>3. register'[r][n] = "accepted_skip"
      BY <2>1, <3>1, <3>2 DEF Upserted
    <3>4. QED
      BY <2>1, <3>1, <3>3 DEF Held
  <2>3. QED
    BY <2>1, <2>2 DEF Kept
<1>11. ASSUME NEW w \in Worker, Cover(w) PROVE Kept
  <2>1. UNCHANGED <<register, receipt>> /\ \A u \in Worker : proposed'[u] \subseteq proposed[u]
    BY <1>11 DEF Cover, GoIdle, records, local
  <2>2. QED
    BY <2>1 DEF Kept, Held
<1>12. ASSUME NEW w \in Worker, Crash(w) PROVE Kept
  <2>1. UNCHANGED <<register, receipt>> /\ \A u \in Worker : proposed'[u] \subseteq proposed[u]
    BY <1>12 DEF Crash, GoIdle, records, local
  <2>2. QED
    BY <2>1 DEF Kept, Held
<1>13. CASE ManualCall
  <2>1. UNCHANGED <<register, receipt>> /\ \A u \in Worker : proposed'[u] \subseteq proposed[u]
    BY <1>13 DEF ManualCall, GoIdle, records, local
  <2>2. QED
    BY <2>1 DEF Kept, Held
<1>14. CASE StrayEnds
  <2>1. PICK q \in stray, kind \in Outcomes : Answer(q, kind)
    BY <1>14 DEF StrayEnds
  <2>2. \A r \in Request : receipt[r].ok => receipt'[r].ok
    BY <2>1, AnswerStep DEF Answered, Typed, TypeOK
  <2>3. UNCHANGED <<register, proposed>>
    BY <1>14 DEF StrayEnds, local
  <2>4. QED
    BY <2>2, <2>3 DEF Kept, Held
<1>15. CASE Review
  <2>1. PICK q \in Request : register' = [register EXCEPT ![q][receipt[q].fails] = "accepted_skip"]
    BY <1>15 DEF Review
  <2>2. UNCHANGED <<receipt, proposed>>
    BY <1>15 DEF Review, local
  <2>3. \A r \in Request, n \in Run :
            register[r][n] = "accepted_skip" => register'[r][n] = "accepted_skip"
    BY <2>1
  <2>4. QED
    BY <2>2, <2>3 DEF Kept, Held
<1>16. CASE LoseSource
  <2>1. UNCHANGED <<register, receipt, proposed>>
    BY <1>16 DEF LoseSource, local
  <2>2. QED
    BY <2>1 DEF Kept, Held
<1>17. CASE UNCHANGED vars
  BY <1>17 DEF vars, Kept, Held
<1>18. QED
  BY <1>1, <1>2, <1>3, <1>4, <1>5, <1>6, <1>7, <1>8,
     <1>9, <1>10, <1>11, <1>12, <1>13, <1>14, <1>15, <1>16, <1>17 DEF Next, Step

\* The coverage is taken under the reconcile lock, when nobody has a proposal in hand.
LEMMA FirmStep == Typed /\ InHand /\ Based /\ Firm /\ [Next]_vars => Firm'
<1> SUFFICES ASSUME Typed, InHand, Based, Firm, [Next]_vars, unlocked'
             PROVE  \/ \A r \in Request : receipt'[r].ok \/ Held(r)'
                    \/ \E r \in Request : receipt'[r].ok /\ Held(r)'
  BY DEF Firm
<1>1. Kept
  BY KeptStep
<1>2. CASE unlocked
  <2>1. \/ \A r \in Request : receipt[r].ok \/ Held(r)
        \/ \E r \in Request : receipt[r].ok /\ Held(r)
    BY <1>2 DEF Firm
  <2>2. QED
    BY <1>1, <2>1 DEF Kept
<1>3. ASSUME ~unlocked, NEW w \in Worker, Cover(w)
      PROVE  \/ \A r \in Request : receipt'[r].ok \/ Held(r)'
             \/ \E r \in Request : receipt'[r].ok /\ Held(r)'
  <2>1. Coverage(TRUE) = "ready"
    BY <1>3 DEF Cover
  <2>2. \A u \in Worker : proposed[u] = {}
    BY <1>3 DEF Cover, InHand, HasInHand
  <2>3. \A r \in Accepted : Held(r)
    BY <2>2 DEF Accepted, Held
  <2>4. QED
    BY <1>1, <2>1, <2>3, ReadyReport DEF Kept
<1>4. ASSUME ~unlocked, ~\E w \in Worker : Cover(w) PROVE UNCHANGED unlocked
  <2>1. ASSUME NEW w \in Worker, Look(w) PROVE UNCHANGED unlocked
    BY <2>1 DEF Look
  <2>2. ASSUME NEW w \in Worker, Enter(w) PROVE UNCHANGED unlocked
    BY <2>2 DEF Enter
  <2>3. ASSUME NEW w \in Worker, Check(w) PROVE UNCHANGED unlocked
    BY <2>3 DEF Check
  <2>4. ASSUME NEW w \in Worker, Start(w) PROVE UNCHANGED unlocked
    BY <2>4 DEF Start
  <2>5. ASSUME NEW w \in Worker, Finish(w) PROVE UNCHANGED unlocked
    BY <2>5 DEF Finish
  <2>6. ASSUME NEW w \in Worker, Return(w) PROVE UNCHANGED unlocked
    BY <2>6 DEF Return
  <2>7. ASSUME NEW w \in Worker, EnterReconcile(w) PROVE UNCHANGED unlocked
    BY <2>7 DEF EnterReconcile
  <2>8. ASSUME NEW w \in Worker, Normalize(w) PROVE UNCHANGED unlocked
    BY <2>8 DEF Normalize
  <2>9. ASSUME NEW w \in Worker, Propose(w) PROVE UNCHANGED unlocked
    BY <2>9 DEF Propose
  <2>10. ASSUME NEW w \in Worker, Persist(w) PROVE UNCHANGED unlocked
    BY <2>10 DEF Persist
  <2>11. ASSUME NEW w \in Worker, Crash(w) PROVE UNCHANGED unlocked
    BY <2>11 DEF Crash
  <2>12. CASE ManualCall
    BY <2>12 DEF ManualCall
  <2>13. CASE StrayEnds
    BY <2>13 DEF StrayEnds
  <2>14. CASE Review
    BY <2>14 DEF Review
  <2>15. CASE LoseSource
    BY <2>15 DEF LoseSource
  <2>16. CASE UNCHANGED vars
    BY <2>16 DEF vars
  <2>17. QED
    BY <1>4, <2>1, <2>2, <2>3, <2>4, <2>5, <2>6, <2>7, <2>8,
       <2>9, <2>10, <2>11, <2>12, <2>13, <2>14, <2>15, <2>16 DEF Next, Step
<1>5. QED
  BY <1>2, <1>3, <1>4

\* Only the normalisation makes a row ready, and it takes none back.
KeptReady ==
    \A r \in Request : /\ row[r] = "ready" => row'[r] = "ready"
                       /\ row'[r] = "ready" => receipt[r].ok

\* A row that is ready stays so, and its request has succeeded.
LEMMA ReadyStep == Based /\ [Next]_vars => KeptReady
<1> SUFFICES ASSUME Based, [Next]_vars PROVE KeptReady
  OBVIOUS
<1> USE DEF Based, KeptReady
<1>1. ASSUME NEW w \in Worker, Look(w) PROVE KeptReady
  BY <1>1 DEF Look, records
<1>2. ASSUME NEW w \in Worker, Enter(w) PROVE KeptReady
  BY <1>2 DEF Enter, records
<1>3. ASSUME NEW w \in Worker, Check(w) PROVE KeptReady
  BY <1>3 DEF Check, records
<1>4. ASSUME NEW w \in Worker, Start(w) PROVE KeptReady
  BY <1>4 DEF Start, records
<1>5. ASSUME NEW w \in Worker, Finish(w) PROVE KeptReady
  BY <1>5 DEF Finish, records
<1>6. ASSUME NEW w \in Worker, Return(w) PROVE KeptReady
  BY <1>6 DEF Return, records
<1>7. ASSUME NEW w \in Worker, EnterReconcile(w) PROVE KeptReady
  BY <1>7 DEF EnterReconcile, records
<1>8. ASSUME NEW w \in Worker, Normalize(w) PROVE KeptReady
  <2>1. row' = [r \in Request |-> RowOf(receipt[r])]
    BY <1>8 DEF Normalize
  <2>2. QED
    BY <2>1 DEF Based, RowOf, KeptReady
<1>9. ASSUME NEW w \in Worker, Propose(w) PROVE KeptReady
  BY <1>9 DEF Propose, records
<1>10. ASSUME NEW w \in Worker, Persist(w) PROVE KeptReady
  BY <1>10 DEF Persist, records
<1>11. ASSUME NEW w \in Worker, Cover(w) PROVE KeptReady
  BY <1>11 DEF Cover, records
<1>12. ASSUME NEW w \in Worker, Crash(w) PROVE KeptReady
  BY <1>12 DEF Crash, records
<1>13. CASE ManualCall
  BY <1>13 DEF ManualCall, records
<1>14. CASE StrayEnds
  BY <1>14 DEF StrayEnds, records
<1>15. CASE Review
  BY <1>15 DEF Review, records
<1>16. CASE LoseSource
  BY <1>16 DEF LoseSource
<1>17. CASE UNCHANGED vars
  BY <1>17 DEF vars
<1>18. QED
  BY <1>1, <1>2, <1>3, <1>4, <1>5, <1>6, <1>7, <1>8,
     <1>9, <1>10, <1>11, <1>12, <1>13, <1>14, <1>15, <1>16, <1>17 DEF Next, Step

-----------------------------------------------------------------------------
\* The invariant holds at the start.
LEMMA InitialState == Init => IInv
<1> SUFFICES ASSUME Init PROVE IInv
  OBVIOUS
<1>1. /\ MaxFailures \in Nat /\ MaxReviews \in Nat /\ MaxUpsets \in Nat /\ 0 \in Run
  BY Bounds
<1>2. Typed
  <2>1. TypeOK
    BY <1>1 DEF Init, TypeOK, OpenFailure, Kinds, Successes
  <2>2. proposed \in [Worker -> SUBSET Proposal]
    BY DEF Init
  <2>3. \A r \in Request : receipt[r].fails + budget.fail <= MaxFailures
    BY <1>1 DEF Init
  <2>4. QED
    BY <2>1, <2>2, <2>3 DEF Typed
<1>3. InHand
  BY DEF Init, InHand, HasInHand
<1>4. Rows
  BY DEF Init, Rows, Based, Unopposed, Closed
<1>5. Paid /\ Firm
  BY DEF Init, Paid, Firm
<1>6. QED
  BY <1>2, <1>3, <1>4, <1>5 DEF IInv

\* The invariant the theorems rest on, for any requests, workers and slices.
THEOREM StageInvariant == Spec => []IInv
<1>1. Init => IInv
  BY InitialState
<1>2. IInv /\ [Next]_vars => IInv'
  BY TypedStep, InHandStep, BasedStep, UnopposedStep, ClosedStep, PaidStep, FirmStep
     DEF IInv, Rows
<1>3. QED
  BY <1>1, <1>2, PTL DEF Spec

\* Every variable of the stage keeps its type, the receipts' counts of failures within
\* the failures the model allows included.
THEOREM TypeCorrect == Spec => []TypeOK
<1>1. IInv => TypeOK
  BY DEF IInv, Typed
<1>2. QED
  BY <1>1, StageInvariant, PTL

\* A stage is succeeded in the workflow only on requests that have a successful run or
\* an accepted failure, unless one has both (summarize_stage_coverage_from_rows).
THEOREM UnlockedIsAccountedFor == Spec => []OverlapIsTheOnlyHole
<1>1. IInv => OverlapIsTheOnlyHole
  <2> SUFFICES ASSUME Firm, unlocked PROVE \/ \A r \in Request : Accounted(r)
                                           \/ \E r \in Accepted : receipt[r].ok
    BY DEF IInv, OverlapIsTheOnlyHole
  <2>1. \A r \in Request : Held(r) => r \in Accepted
    BY DEF Held, Accepted
  <2>2. QED
    BY <2>1 DEF Firm, Accounted
<1>2. QED
  BY <1>1, StageInvariant, PTL

\* No run that a scheduler waits for ends on an option receipt that is a success
\* already, except beside a run that was left behind (the receipt check of dispatch_one
\* under the provider_partition locks).
THEOREM OptionCallsAreFirst == Spec => OptionPaidOnce
<1> DEFINE Once == \A w \in Worker : Finish(w) /\ route = "options"
                      => \A r \in running[w] \ running'[w] : receipt[r].ok => r \in strayed
<1>1. IInv /\ [Next]_vars => Once
  BY DEF IInv, Paid
<1>2. IInv /\ [Next]_vars => [Once]_vars
  BY <1>1
<1> HIDE DEF Once
<1>3. Spec => [][Once]_vars
  BY <1>2, StageInvariant, PTL DEF Spec
<1>4. QED
  BY <1>3 DEF OptionPaidOnce, Once

\* A ready row stays ready, it became so by a successful run, and when the coverage is
\* taken the register has no open failure against it (_effective_stage_receipt,
\* mark_failure_register_requests_corrected).
THEOREM ReadyRowsAreSettled == Spec => ReadyIsSettled
<1> DEFINE Shut == \A w \in Worker : Cover(w) =>
                       \A r \in InRow("ready") : \A n \in Run : register[r][n] \notin OpenFailure
<1>1. IInv /\ [Next]_vars => KeptReady
  BY ReadyStep DEF IInv, Rows
<1>2. IInv /\ [Next]_vars => Shut
  BY DEF IInv, Rows, Closed, Cover, InRow
<1>3. IInv /\ [Next]_vars => [KeptReady /\ Shut]_vars
  BY <1>1, <1>2
<1> HIDE DEF Shut
<1>4. Spec => [][KeptReady /\ Shut]_vars
  BY <1>3, StageInvariant, PTL DEF Spec
<1>5. Spec => [][KeptReady]_vars /\ [][Shut]_vars
  BY <1>4, PTL
<1>6. [][KeptReady]_vars <=> ReadyIsForGood
  BY DEF KeptReady, ReadyIsForGood
<1>7. [][Shut]_vars <=> ReadyHasNoOpenFailure
  BY DEF Shut, ReadyHasNoOpenFailure
<1>8. QED
  BY <1>5, <1>6, <1>7 DEF ReadyIsSettled
=============================================================================
