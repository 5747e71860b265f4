----------------------- MODULE WorkflowCheckpointProofs -----------------------
(* WorkflowCheckpoint for any plan, any number of scheduler processes and any *)
(* bounds: its types, and that the file never offers a stage whose upstream   *)
(* work is not done.  For one scheduler process it implements                 *)
(* WorkflowProgress.                                                          *)
(* At the end DatasetEvidence, for any models, splits and minimum of months:  *)
(* what the evidence and the expansion say is explained by what was built.    *)
EXTENDS WorkflowCheckpoint, DatasetEvidence, TLAPS, FiniteSetTheorems, SequenceTheorems,
        WellFoundedInduction

\* A checkpoint whose ready stages have their blockers met by itself.
Sound(ck) == \A s \in Stage : ck.status[s] = "ready" => Unblocked(Plan, ck, s)

\* The control points at which a worker has the stage it works on in hand.
HasAim == \A w \in Worker :
    pc[w] \in {"offline", "provider", "select", "begin"} => aim[w] \in Stage
HasJob == \A w \in Worker :
    pc[w] \in {"stamp", "run", "report", "begun", "dispatch", "reconcile",
               "collect", "advance"} => job[w] \in Stage

TInv == TypeOK /\ HasAim /\ HasJob

\* Report stores Failed(view, job) with no refresh after it.  That is sound only
\* because the job was ready, so that nothing can have counted on it.
JobWasReady == \A w \in Worker :
    pc[w] \in {"stamp", "run", "report"} => view[w].status[job[w]] = "ready"

SInv ==
    /\ Sound(disk)
    /\ \A w \in Worker : Sound(view[w])
    /\ Sound(op.view)
    /\ JobWasReady

-----------------------------------------------------------------------------
(* The operators of WorkflowOps on the checkpoints of Plan.                   *)

\* What is assumed of the plan, written out.
LEMMA PlanShape ==
    /\ Plan \in [order    : Seq(Stage),
                 layer    : [Stage -> Nat],
                 blockers : [Stage -> SUBSET SUBSET SUBSET Stage]]
    /\ NoStage \notin Stage /\ NoWorker \notin Worker
BY PlanAssumption DEF IsPlan, Stage

\* Blockers from outside change nothing but the blockers, and only add to them.
LEMMA PlanWithKeeps ==
    \A gone : /\ PlanWith(gone).order = Plan.order
              /\ StagesOf(PlanWith(gone)) = Stage
              /\ \A s \in Stage : Plan.blockers[s] \subseteq PlanWith(gone).blockers[s]
<1> TAKE gone
<1>1. PlanWith(gone).order = Plan.order
  BY PlanShape DEF PlanWith
<1>2. StagesOf(PlanWith(gone)) = Stage
  BY <1>1 DEF StagesOf, Stage
<1>3. ASSUME NEW s \in Stage
      PROVE  Plan.blockers[s] \subseteq PlanWith(gone).blockers[s]
  BY PlanShape DEF PlanWith
<1>4. QED
  BY <1>1, <1>2, <1>3

\* A refreshed checkpoint is one,
LEMMA RefreshType ==
    \A gone, ck : ck \in Checkpoints(Plan)
                    => Refresh(PlanWith(gone), ck) \in Checkpoints(Plan)
BY PlanWithKeeps DEF Refresh, Checkpoints, Status, Terminal, Stage

\* and so is one with a new mark,
LEMMA MarkTypes ==
    ASSUME NEW ck \in Checkpoints(Plan), NEW s
    PROVE  /\ Started(ck, s) \in Checkpoints(Plan)
           /\ Succeeded(ck, s) \in Checkpoints(Plan)
           /\ Failed(ck, s) \in Checkpoints(Plan)
           /\ \A report : CoverageApplied(ck, s, report) \in Checkpoints(Plan)
           /\ \A set : AllSucceeded(ck, set) \in Checkpoints(Plan)
<1> USE DEF Checkpoints, Status
<1>1. Started(ck, s) \in Checkpoints(Plan)
  BY DEF Started
<1>2. Succeeded(ck, s) \in Checkpoints(Plan)
  BY DEF Succeeded
<1>3. Failed(ck, s) \in Checkpoints(Plan)
  BY DEF Failed
<1>4. ASSUME NEW gap \in BOOLEAN PROVE CoverageBlocked(ck, s, gap) \in Checkpoints(Plan)
  BY DEF CoverageBlocked
<1>5. \A report : CoverageApplied(ck, s, report) \in Checkpoints(Plan)
  BY <1>2, <1>4 DEF CoverageApplied
<1>6. \A set : AllSucceeded(ck, set) \in Checkpoints(Plan)
  BY DEF AllSucceeded
<1>7. QED
  BY <1>1, <1>2, <1>3, <1>5, <1>6

\* A reset is a refresh of what was cleared.
LEMMA ResetIsRefresh ==
    ASSUME NEW ck \in Checkpoints(Plan), NEW gone, NEW cut
    PROVE  \E cleared \in Checkpoints(Plan) :
              ResetFrom(PlanWith(gone), ck, cut) = Refresh(PlanWith(gone), cleared)
<1> DEFINE hit == {PlanWith(gone).order[i] : i \in cut..Len(PlanWith(gone).order)}
           clear(s) == s \in hit /\ ck.status[s] # "not_applicable"
           cleared == [status |-> [s \in DOMAIN ck.status |->
                          IF clear(s) THEN "pending" ELSE ck.status[s]],
                       hold   |-> [s \in DOMAIN ck.hold |->
                          ~clear(s) /\ ck.hold[s]]]
<1>1. cleared \in Checkpoints(Plan)
  <2> HIDE DEF hit
  <2>1. QED
    BY PlanWithKeeps DEF Checkpoints, Status, Stage
<1>2. ResetFrom(PlanWith(gone), ck, cut) = Refresh(PlanWith(gone), cleared)
  BY DEF ResetFrom
<1>3. QED
  BY <1>1, <1>2

\* A reset and an invalidation give a checkpoint.
LEMMA RevisionTypes ==
    ASSUME NEW ck \in Checkpoints(Plan)
    PROVE  /\ \A gone, cut : ResetFrom(PlanWith(gone), ck, cut) \in Checkpoints(Plan)
           /\ \A floor : Invalidated(Plan, ck, floor) \in Checkpoints(Plan)
<1>1. ASSUME NEW gone, NEW cut
      PROVE  ResetFrom(PlanWith(gone), ck, cut) \in Checkpoints(Plan)
  BY ResetIsRefresh, RefreshType
<1>2. ASSUME NEW floor PROVE Invalidated(Plan, ck, floor) \in Checkpoints(Plan)
  BY DEF Invalidated, Checkpoints, Status
<1>3. QED
  BY <1>1, <1>2

\* The stage that is selected is one of the plan, and it is ready.
LEMMA NextReadyIsReady ==
    ASSUME NEW ck, NextReady(Plan, ck, NoStage) # NoStage
    PROVE  /\ NextReady(Plan, ck, NoStage) \in Stage
           /\ ck.status[NextReady(Plan, ck, NoStage)] = "ready"
<1> DEFINE first(i) == /\ ck.status[Plan.order[i]] = "ready"
                       /\ \A j \in 1..(i - 1) : ck.status[Plan.order[j]] # "ready"
           at == CHOOSE i \in DOMAIN Plan.order : first(i)
<1>1. \E i \in DOMAIN Plan.order : first(i)
  BY DEF NextReady
<1>2. NextReady(Plan, ck, NoStage) = Plan.order[at]
  BY <1>1 DEF NextReady
<1>3. at \in DOMAIN Plan.order /\ first(at)
  <2> HIDE DEF first
  <2>1. QED
    BY <1>1
<1>4. QED
  BY <1>2, <1>3 DEF Stage, StagesOf

-----------------------------------------------------------------------------
(* Soundness of what the operators return.                                    *)

\* A refresh changes no terminal status and creates none.
LEMMA RefreshKeepsDone ==
    ASSUME NEW gone, NEW ck \in Checkpoints(Plan), NEW s \in Stage
    PROVE  Done(Refresh(PlanWith(gone), ck), s) <=> Done(ck, s)
BY PlanWithKeeps DEF Refresh, Checkpoints, Status, Terminal, Done, Stage

\* Whatever was stored, a refreshed checkpoint is sound.
LEMMA RefreshSound ==
    \A gone, ck : ck \in Checkpoints(Plan) => Sound(Refresh(PlanWith(gone), ck))
<1> SUFFICES ASSUME NEW gone, NEW ck \in Checkpoints(Plan), NEW s \in Stage,
                    Refresh(PlanWith(gone), ck).status[s] = "ready"
             PROVE  Unblocked(Plan, Refresh(PlanWith(gone), ck), s)
  BY DEF Sound
<1>1. Unblocked(PlanWith(gone), ck, s)
  BY PlanWithKeeps DEF Refresh, Checkpoints, Terminal, Stage
<1>2. Unblocked(Plan, ck, s)
  BY <1>1, PlanWithKeeps DEF Unblocked
<1>3. ASSUME NEW b \in Plan.blockers[s] PROVE BlockerMet(Refresh(PlanWith(gone), ck), b)
  <2>1. PICK alternative \in b : \A u \in alternative : Done(ck, u)
    BY <1>2 DEF Unblocked, BlockerMet
  <2>2. alternative \subseteq Stage
    BY PlanShape
  <2>3. \A u \in alternative : Done(Refresh(PlanWith(gone), ck), u)
    BY <2>1, <2>2, RefreshKeepsDone
  <2>4. QED
    BY <2>3 DEF BlockerMet
<1>4. QED
  BY <1>3 DEF Unblocked

\* A reset ends in a refresh.
LEMMA ResetSound ==
    ASSUME NEW ck \in Checkpoints(Plan), NEW gone, NEW cut
    PROVE  Sound(ResetFrom(PlanWith(gone), ck, cut))
<1>1. PICK cleared \in Checkpoints(Plan) :
          ResetFrom(PlanWith(gone), ck, cut) = Refresh(PlanWith(gone), cleared)
  BY ResetIsRefresh
<1>2. QED
  BY <1>1, RefreshSound

\* A start changes no status.
LEMMA StartedSound ==
    ASSUME NEW ck \in Checkpoints(Plan), NEW s, Sound(ck)
    PROVE  Sound(Started(ck, s)) /\ Started(ck, s).status = ck.status
<1>1. Started(ck, s).status = ck.status
  BY DEF Started, Checkpoints
<1>2. QED
  BY <1>1 DEF Sound, Unblocked, BlockerMet, Done

\* A ready stage that fails takes nothing away from the others.
LEMMA FailedSound ==
    ASSUME NEW ck \in Checkpoints(Plan), NEW s \in Stage, Sound(ck),
           ck.status[s] = "ready"
    PROVE  Sound(Failed(ck, s))
<1>1. \A u : Done(ck, u) => Done(Failed(ck, s), u)
  BY DEF Done, Failed, Checkpoints
<1>2. \A u \in Stage : Failed(ck, s).status[u] = "ready" => ck.status[u] = "ready"
  BY DEF Failed, Checkpoints
<1>3. QED
  BY <1>1, <1>2 DEF Sound, Unblocked, BlockerMet

\* An invalidation from a layer on takes nothing away from earlier layers, and
\* leaves nothing ready in the later ones.
LEMMA InvalidatedSound ==
    ASSUME NEW ck \in Checkpoints(Plan), NEW floor \in Nat, Sound(ck)
    PROVE  Sound(Invalidated(Plan, ck, floor))
<1> DEFINE new == Invalidated(Plan, ck, floor)
<1> SUFFICES ASSUME NEW s \in Stage, new.status[s] = "ready",
                    NEW b \in Plan.blockers[s]
             PROVE  BlockerMet(new, b)
  BY DEF Sound, Unblocked
<1>1. ck.status[s] = "ready" /\ Plan.layer[s] < floor
  BY PlanShape DEF Invalidated, Checkpoints, Stage
<1>2. PICK alternative \in b : \A u \in alternative : Done(ck, u)
  BY <1>1 DEF Sound, Unblocked, BlockerMet
<1>3. ASSUME NEW u \in alternative PROVE Done(new, u)
  <2>1. u \in Stage /\ Plan.layer[u] < floor
    BY <1>1, PlanShape, PlanIsLayered DEF IsLayered, Stage
  <2>2. new.status[u] = ck.status[u]
    BY <2>1, PlanShape DEF Invalidated, Checkpoints, Stage
  <2>3. QED
    BY <1>2, <2>2 DEF Done
<1>4. QED
  BY <1>3 DEF BlockerMet
-----------------------------------------------------------------------------
(* Types.                                                                     *)

\* So does a blank one,
LEMMA BlankType == Blank \in Checkpoints(Plan)
BY DEF Blank, Checkpoints, Status, Stage

\* what is loaded,
LEMMA LoadedType == disk \in Checkpoints(Plan) => Loaded \in Checkpoints(Plan)
BY RefreshType DEF Loaded, PlanNow

\* and the initial one.
LEMMA InitialType == \A gone : Initial(PlanWith(gone)) \in Checkpoints(Plan)
<1> TAKE gone
<1>1. [status |-> [s \in Stage |-> "pending"], hold |-> [s \in Stage |-> FALSE]]
        \in Checkpoints(Plan)
  BY DEF Checkpoints, Status, Stage
<1>2. QED
  BY <1>1, PlanWithKeeps, RefreshType DEF Initial

\* Going back to the loop, and dropping the locks of a process.
LEMMA GoIdleTypes ==
    ASSUME TInv, NEW w \in Worker, GoIdle(w)
    PROVE  /\ pc' \in [Worker -> {"idle", "offline", "select", "stamp", "run", "report",
                          "provider", "begin", "begun", "dispatch", "reconcile",
                          "collect", "advance", "seed", "tick"}]
           /\ view' \in [Worker -> Checkpoints(Plan)]
           /\ aim' \in [Worker -> Stage \cup {NoStage}]
           /\ job' \in [Worker -> Stage \cup {NoStage}]
           /\ result' \in [Worker -> {"none", "succeeded", "failed"}]
           /\ HasAim' /\ HasJob'
BY BlankType DEF GoIdle, Goto, TInv, TypeOK, HasAim, HasJob

\* The locks without those of a worker.
LEMMA DropType ==
    \A locks \in [Stage -> Worker \cup {NoWorker}], w \in Worker :
        Drop(locks, w) \in [Stage -> Worker \cup {NoWorker}]
BY DEF Drop

\* The types hold at the start,
LEMMA TInvInit == Init => TInv
<1> SUFFICES ASSUME Init PROVE TInv
  OBVIOUS
<1> USE DEF Init
<1>1. disk \in Checkpoints(Plan)
  BY InitialType DEF PlanNow
<1>2. view \in [Worker -> Checkpoints(Plan)] /\ op.view \in Checkpoints(Plan)
  BY BlankType
<1>3. missing \subseteq Stage /\ budget \in [crash : Nat, fail : Nat, lose : Nat, revise : Nat]
  BY BoundsAssumption
<1>4. HasAim /\ HasJob
  BY DEF HasAim, HasJob
<1>5. op \in [pc : {"idle", "store"}, view : Checkpoints(Plan)]
  BY BlankType
<1>6. lane \in [Stage -> Worker \cup {NoWorker}] /\ rlane \in [Stage -> Worker \cup {NoWorker}]
  OBVIOUS
<1>7. QED
  BY <1>1, <1>2, <1>3, <1>4, <1>5, <1>6 DEF TInv, TypeOK

\* and in every step.
LEMMA TInvStep == TInv /\ [Next]_vars => TInv'
<1> SUFFICES ASSUME TInv, [Next]_vars PROVE TInv'
  OBVIOUS
<1> USE DEF TInv, TypeOK, HasAim, HasJob, Goto
<1>1. ASSUME NEW w \in Worker, Tick(w) PROVE TInv'
  BY <1>1, NextReadyIsReady DEF Tick
<1>2. ASSUME NEW w \in Worker, Prepare(w) PROVE TInv'
  BY <1>2, GoIdleTypes DEF Prepare
<1>3. ASSUME NEW w \in Worker, EnterLane(w) PROVE TInv'
  BY <1>3, GoIdleTypes DEF EnterLane, Take
<1>4. ASSUME NEW w \in Worker, Select(w) PROVE TInv'
  <2> DEFINE next == NextReady(Plan, Loaded, NoStage)
  <2>1. CASE next # NoStage
    <3>1. next \in Stage
      BY <2>1, NextReadyIsReady
    <3> HIDE DEF next
    <3>2. QED
      BY <1>4, <2>1, <3>1, LoadedType DEF Select, next
  <2>2. CASE next = NoStage
    <3>1. lane' \in [Stage -> Worker \cup {NoWorker}]
      BY <1>4, <2>2, DropType DEF Select
    <3>2. GoIdle(w)
      BY <1>4, <2>2 DEF Select
    <3>3. QED
      BY <1>4, <2>2, <3>1, <3>2, GoIdleTypes DEF Select
  <2>3. QED
    BY <2>1, <2>2
<1>5. ASSUME NEW w \in Worker, Stamp(w) PROVE TInv'
  BY <1>5, MarkTypes DEF Stamp
<1>6. ASSUME NEW w \in Worker, Run(w) PROVE TInv'
  BY <1>6 DEF Run
<1>7. ASSUME NEW w \in Worker, Report(w) PROVE TInv'
  <2>1. disk' \in Checkpoints(Plan)
    <3>1. view[w] \in Checkpoints(Plan)
      OBVIOUS
    <3>2. Outcome(PlanNow, view[w], job[w], result[w]) \in Checkpoints(Plan)
      BY <3>1, MarkTypes, RefreshType DEF Outcome, PlanNow
    <3>3. QED
      BY <1>7, <3>2 DEF Report
  <2>2. lane' \in [Stage -> Worker \cup {NoWorker}]
    BY <1>7, DropType DEF Report
  <2>3. QED
    BY <1>7, <2>1, <2>2, GoIdleTypes DEF Report
<1>8. ASSUME NEW w \in Worker, Begin(w) PROVE TInv'
  BY <1>8, LoadedType DEF Begin
<1>9. ASSUME NEW w \in Worker, BeginStore(w) PROVE TInv'
  BY <1>9, DropType, MarkTypes DEF BeginStore
<1>10. ASSUME NEW w \in Worker, Dispatch(w) PROVE TInv'
  BY <1>10 DEF Dispatch
<1>11. ASSUME NEW w \in Worker, EnterReconcile(w) PROVE TInv'
  BY <1>11, GoIdleTypes DEF EnterReconcile, Take
<1>12. ASSUME NEW w \in Worker, Collect(w) PROVE TInv'
  <2>1. \A report : Refresh(PlanNow, CoverageApplied(Loaded, job[w], report))
                        \in Checkpoints(Plan)
    BY LoadedType, MarkTypes, RefreshType DEF PlanNow
  <2>2. view' \in [Worker -> Checkpoints(Plan)]
    BY <1>12, <2>1 DEF Collect
  <2>3. QED
    BY <1>12, <2>2 DEF Collect
<1>13. ASSUME NEW w \in Worker, Advance(w) PROVE TInv'
  BY <1>13, GoIdleTypes, DropType DEF Advance
<1>14. ASSUME NEW w \in Worker, Crash(w) PROVE TInv'
  <2>1. /\ lane' \in [Stage -> Worker \cup {NoWorker}]
        /\ rlane' \in [Stage -> Worker \cup {NoWorker}]
    BY <1>14, DropType DEF Crash
  <2>2. budget' \in [crash : Nat, fail : Nat, lose : Nat, revise : Nat]
    BY <1>14 DEF Crash
  <2>3. GoIdle(w)
    BY <1>14 DEF Crash
  <2>4. QED
    BY <1>14, <2>1, <2>2, <2>3, GoIdleTypes DEF Crash
<1>15. CASE LoseCoverage
  BY <1>15 DEF LoseCoverage, local
<1>16. CASE ResetLoad
  BY <1>16, LoadedType, RevisionTypes DEF ResetLoad, local, PlanNow
<1>17. CASE InvalidateLoad
  BY <1>17, RevisionTypes DEF InvalidateLoad, local
<1>18. CASE OpStore
  BY <1>18, BlankType DEF OpStore, local
<1>19. ASSUME NEW w \in Worker, SeedLoad(w) PROVE TInv'
  <2>1. Refresh(PlanNow, AllSucceeded(Loaded, seed)) \in Checkpoints(Plan)
    BY LoadedType, MarkTypes, RefreshType DEF PlanNow
  <2>2. QED
    BY <1>19, <2>1 DEF SeedLoad
<1>20. ASSUME NEW w \in Worker, SeedStore(w) PROVE TInv'
  BY <1>20, BlankType DEF SeedStore
<1>21. ASSUME NEW w \in Worker, Rest(w) PROVE TInv'
  BY <1>21, GoIdleTypes DEF Rest
<1>22. CASE UNCHANGED vars
  BY <1>22 DEF vars
<1>23. QED
  BY <1>1, <1>2, <1>3, <1>4, <1>5, <1>6, <1>7, <1>8, <1>9, <1>10, <1>11, <1>12, <1>13, <1>14, <1>15, <1>16, <1>17, <1>18, <1>19, <1>20, <1>21, <1>22
     DEF Next, DaemonNext, Step, Operator

\* Every reachable state has the types of TypeOK.
THEOREM TypeCorrect == Spec => []TypeOK
<1>1. TInv => TypeOK
  BY DEF TInv
<1>2. QED
  BY <1>1, TInvInit, TInvStep, PTL DEF Spec
-----------------------------------------------------------------------------
(* Soundness.                                                                 *)

\* A blank checkpoint promises nothing,
LEMMA BlankSound == Sound(Blank)
BY DEF Sound, Blank

\* and what is loaded is refreshed.
LEMMA LoadedSound == TypeOK => Sound(Loaded)
BY RefreshSound DEF Loaded, PlanNow, TypeOK

\* Going back to the loop keeps what the copies promise.
LEMMA GoIdleSound ==
    ASSUME TInv, SInv, NEW w \in Worker, GoIdle(w)
    PROVE  (\A v \in Worker : Sound(view'[v])) /\ JobWasReady'
<1>1. \A v \in Worker : view'[v] = IF v = w THEN Blank ELSE view[v]
  BY DEF GoIdle, TInv, TypeOK
<1>2. \A v \in Worker : Sound(view'[v])
  BY <1>1, BlankSound DEF SInv
<1>3. JobWasReady'
  BY <1>1 DEF GoIdle, Goto, TInv, TypeOK, SInv, JobWasReady
<1>4. QED
  BY <1>2, <1>3

\* Soundness holds at the start,
LEMMA SInvInit == Init => SInv
<1> SUFFICES ASSUME Init PROVE SInv
  OBVIOUS
<1>1. Sound(disk)
  <2>1. [status |-> [s \in Stage |-> "pending"], hold |-> [s \in Stage |-> FALSE]]
          \in Checkpoints(Plan)
    BY BlankType DEF Blank
  <2>2. QED
    BY <2>1, PlanWithKeeps, RefreshSound DEF Init, Initial, PlanNow
<1>2. (\A w \in Worker : Sound(view[w])) /\ Sound(op.view)
  BY BlankSound DEF Init
<1>3. QED
  BY <1>1, <1>2 DEF SInv, JobWasReady, Init

\* and in every step.
LEMMA SInvStep == TInv /\ SInv /\ [Next]_vars => SInv'
<1> SUFFICES ASSUME TInv, SInv, [Next]_vars PROVE SInv'
  OBVIOUS
<1> USE DEF Goto
\* The actions that neither store a checkpoint nor make a copy of one.
<1>1. ASSUME UNCHANGED <<disk, view, op>>, JobWasReady' PROVE SInv'
  BY <1>1 DEF SInv
<1>2. ASSUME UNCHANGED <<disk, op>>, NEW w \in Worker, GoIdle(w) PROVE SInv'
  <2>1. QED
    BY <1>2, GoIdleSound DEF SInv
<1>3. ASSUME NEW w \in Worker, Tick(w) PROVE SInv'
  BY <1>1, <1>3 DEF Tick, SInv, JobWasReady, TInv, TypeOK
<1>4. ASSUME NEW w \in Worker, Prepare(w) PROVE SInv'
  BY <1>2, <1>4 DEF Prepare
<1>5. ASSUME NEW w \in Worker, EnterLane(w) PROVE SInv'
  <2>1. CASE GoIdle(w)
    BY <1>2, <1>5, <2>1 DEF EnterLane
  <2>2. CASE ~GoIdle(w)
    BY <1>1, <1>5, <2>2 DEF EnterLane, SInv, JobWasReady, TInv, TypeOK
  <2>3. QED
    BY <2>1, <2>2
<1>6. ASSUME NEW w \in Worker, Select(w) PROVE SInv'
  <2> DEFINE next == NextReady(Plan, Loaded, NoStage)
  <2>1. CASE next = NoStage
    BY <1>2, <1>6, <2>1 DEF Select
  <2>2. CASE next # NoStage
    <3>1. Loaded.status[next] = "ready"
      BY <2>2, NextReadyIsReady
    <3>2. Sound(Loaded)
      BY LoadedSound DEF TInv
    <3> HIDE DEF next
    <3>3. /\ view' = [view EXCEPT ![w] = Loaded]
          /\ job' = [job EXCEPT ![w] = next]
          /\ pc' = [pc EXCEPT ![w] = "stamp"]
          /\ UNCHANGED <<disk, op>>
      BY <1>6, <2>2 DEF Select, next
    <3>4. JobWasReady'
      BY <3>1, <3>3 DEF JobWasReady, SInv, TInv, TypeOK
    <3>5. \A v \in Worker : Sound(view'[v])
      BY <3>2, <3>3 DEF SInv, TInv, TypeOK
    <3>6. QED
      BY <3>3, <3>4, <3>5 DEF SInv
  <2>3. QED
    BY <2>1, <2>2
<1>7. ASSUME NEW w \in Worker, Stamp(w) PROVE SInv'
  <2> DEFINE new == Started(view[w], job[w])
  <2>1. view[w] \in Checkpoints(Plan) /\ Sound(view[w])
    BY DEF TInv, TypeOK, SInv
  <2>2. Sound(new) /\ new.status = view[w].status
    BY <2>1, StartedSound
  <2> HIDE DEF new
  <2>3. /\ view' = [view EXCEPT ![w] = new] /\ disk' = new
        /\ pc[w] = "stamp" /\ pc' = [pc EXCEPT ![w] = "run"]
        /\ UNCHANGED <<job, op>>
    BY <1>7 DEF Stamp, new
  <2>4. JobWasReady'
    BY <2>2, <2>3 DEF JobWasReady, SInv, TInv, TypeOK
  <2>5. \A v \in Worker : Sound(view'[v])
    BY <2>2, <2>3 DEF SInv, TInv, TypeOK
  <2>6. QED
    BY <2>2, <2>3, <2>4, <2>5 DEF SInv
<1>8. ASSUME NEW w \in Worker, Run(w) PROVE SInv'
  BY <1>1, <1>8 DEF Run, SInv, JobWasReady, TInv, TypeOK
<1>9. ASSUME NEW w \in Worker, Report(w) PROVE SInv'
  <2>1. /\ view[w] \in Checkpoints(Plan) /\ Sound(view[w])
        /\ job[w] \in Stage /\ view[w].status[job[w]] = "ready"
    BY <1>9 DEF Report, TInv, TypeOK, HasJob, SInv, JobWasReady
  <2>2. Sound(Failed(view[w], job[w]))
    BY <2>1, FailedSound
  <2>3. Sound(Refresh(PlanNow, Succeeded(view[w], job[w])))
    BY <2>1, MarkTypes, RefreshSound DEF PlanNow
  <2>4. Sound(disk')
    BY <1>9, <2>2, <2>3 DEF Report, Outcome
  <2>5. QED
    BY <1>9, <2>4, GoIdleSound DEF Report, SInv
<1>10. ASSUME NEW w \in Worker, Begin(w) PROVE SInv'
  <2>1. Sound(Loaded)
    BY LoadedSound DEF TInv
  <2>2. /\ view' = [view EXCEPT ![w] = Loaded] /\ job' = [job EXCEPT ![w] = aim[w]]
        /\ pc' = [pc EXCEPT ![w] = "begun"] /\ UNCHANGED <<disk, op>>
    BY <1>10 DEF Begin
  <2>3. JobWasReady'
    BY <2>2 DEF JobWasReady, SInv, TInv, TypeOK
  <2>4. \A v \in Worker : Sound(view'[v])
    BY <2>1, <2>2 DEF SInv, TInv, TypeOK
  <2>5. QED
    BY <2>2, <2>3, <2>4 DEF SInv
<1>11. ASSUME NEW w \in Worker, BeginStore(w) PROVE SInv'
  <2>1. Sound(disk')
    BY <1>11, StartedSound DEF BeginStore, TInv, TypeOK, SInv
  <2>2. JobWasReady' /\ UNCHANGED <<view, op>>
    BY <1>11 DEF BeginStore, JobWasReady, SInv, TInv, TypeOK
  <2>3. QED
    BY <2>1, <2>2 DEF SInv
<1>12. ASSUME NEW w \in Worker, Dispatch(w) PROVE SInv'
  BY <1>1, <1>12 DEF Dispatch, SInv, JobWasReady, TInv, TypeOK
<1>13. ASSUME NEW w \in Worker, EnterReconcile(w) PROVE SInv'
  <2>1. CASE GoIdle(w)
    BY <1>2, <1>13, <2>1 DEF EnterReconcile
  <2>2. CASE ~GoIdle(w)
    BY <1>1, <1>13, <2>2 DEF EnterReconcile, SInv, JobWasReady, TInv, TypeOK
  <2>3. QED
    BY <2>1, <2>2
<1>14. ASSUME NEW w \in Worker, Collect(w) PROVE SInv'
  <2>1. PICK report : view' = [view EXCEPT ![w] =
                        Refresh(PlanNow, CoverageApplied(Loaded, job[w], report))]
    BY <1>14 DEF Collect
  <2>2. Sound(Refresh(PlanNow, CoverageApplied(Loaded, job[w], report)))
    BY LoadedType, MarkTypes, RefreshSound DEF PlanNow, TInv, TypeOK
  <2>3. \A v \in Worker : Sound(view'[v])
    BY <2>1, <2>2 DEF SInv, TInv, TypeOK
  <2>4. /\ pc' = [pc EXCEPT ![w] = "advance"]
        /\ UNCHANGED <<disk, op, job>>
    BY <1>14 DEF Collect
  <2>5. JobWasReady'
    BY <2>1, <2>4 DEF JobWasReady, SInv, TInv, TypeOK
  <2>6. QED
    BY <2>3, <2>4, <2>5 DEF SInv
<1>15. ASSUME NEW w \in Worker, Advance(w) PROVE SInv'
  <2>1. Sound(disk')
    BY <1>15 DEF Advance, SInv
  <2>2. QED
    BY <1>15, <2>1, GoIdleSound DEF Advance, SInv
<1>16. ASSUME NEW w \in Worker, Crash(w) PROVE SInv'
  BY <1>2, <1>16 DEF Crash
<1>17. CASE LoseCoverage
  BY <1>1, <1>17 DEF LoseCoverage, local, SInv, JobWasReady
<1>18. CASE ResetLoad
  <2>1. \A cut : Sound(ResetFrom(PlanNow, Loaded, cut))
    BY LoadedType, ResetSound DEF PlanNow, TInv, TypeOK
  <2>2. Sound(op'.view)
    BY <1>18, <2>1 DEF ResetLoad
  <2>3. JobWasReady' /\ UNCHANGED <<disk, view>>
    BY <1>18 DEF ResetLoad, local, SInv, JobWasReady
  <2>4. QED
    BY <2>2, <2>3 DEF SInv
<1>19. CASE InvalidateLoad
  <2>1. PICK s \in Stage : op'.view = Invalidated(Plan, disk, Plan.layer[s])
    BY <1>19 DEF InvalidateLoad
  <2>2. Plan.layer[s] \in Nat
    BY PlanShape
  <2>3. Sound(op'.view)
    BY <2>1, <2>2, InvalidatedSound DEF TInv, TypeOK, SInv
  <2>4. JobWasReady' /\ UNCHANGED <<disk, view>>
    BY <1>19 DEF InvalidateLoad, local, SInv, JobWasReady
  <2>5. QED
    BY <2>3, <2>4 DEF SInv
<1>20. CASE OpStore
  <2>1. Sound(disk') /\ Sound(op'.view)
    BY <1>20, BlankSound DEF OpStore, SInv
  <2>2. JobWasReady' /\ UNCHANGED view
    BY <1>20 DEF OpStore, local, SInv, JobWasReady
  <2>3. QED
    BY <2>1, <2>2 DEF SInv
<1>21. ASSUME NEW w \in Worker, SeedLoad(w) PROVE SInv'
  <2> DEFINE new == Refresh(PlanNow, AllSucceeded(Loaded, seed))
  <2>1. Sound(new)
    BY LoadedType, MarkTypes, RefreshSound DEF PlanNow, TInv, TypeOK
  <2> HIDE DEF new
  <2>2. /\ view' = [view EXCEPT ![w] = new] /\ pc' = [pc EXCEPT ![w] = "seed"]
        /\ UNCHANGED <<disk, op, job>>
    BY <1>21 DEF SeedLoad, new
  <2>3. JobWasReady' /\ \A v \in Worker : Sound(view'[v])
    BY <2>1, <2>2 DEF JobWasReady, SInv, TInv, TypeOK
  <2>4. QED
    BY <2>2, <2>3 DEF SInv
<1>22. ASSUME NEW w \in Worker, SeedStore(w) PROVE SInv'
  <2>1. /\ disk' = view[w] /\ view' = [view EXCEPT ![w] = Blank]
        /\ pc' = [pc EXCEPT ![w] = "tick"] /\ UNCHANGED <<op, job>>
    BY <1>22 DEF SeedStore
  <2>2. JobWasReady' /\ \A v \in Worker : Sound(view'[v])
    BY <2>1, BlankSound DEF JobWasReady, SInv, TInv, TypeOK
  <2>3. QED
    BY <2>1, <2>2 DEF SInv
<1>23. ASSUME NEW w \in Worker, Rest(w) PROVE SInv'
  BY <1>2, <1>23 DEF Rest
<1>24. CASE UNCHANGED vars
  BY <1>1, <1>24 DEF vars, SInv, JobWasReady
<1>25. QED
  BY <1>3, <1>4, <1>5, <1>6, <1>7, <1>8, <1>9, <1>10, <1>11, <1>12, <1>13,
     <1>14, <1>15, <1>16, <1>17, <1>18, <1>19, <1>20, <1>21, <1>22, <1>23, <1>24
     DEF Next, DaemonNext, Step, Operator

\* The stored checkpoint never offers a stage whose upstream work is not done.
THEOREM ReadyStagesAreSound == Spec => []ReadyIsSound
<1>1. SInv => ReadyIsSound
  BY DEF SInv, Sound, ReadyIsSound
<1>2. QED
  BY <1>1, TInvInit, TInvStep, SInvInit, SInvStep, PTL DEF Spec

\* Nor does any copy that a process is about to work from or to store.
THEOREM CopiesAreSoundToo == Spec => []CopiesAreSound
<1>1. SInv => CopiesAreSound
  BY DEF SInv, Sound, CopiesAreSound
<1>2. QED
  BY <1>1, TInvInit, TInvStep, SInvInit, SInvStep, PTL DEF Spec

-----------------------------------------------------------------------------
(* WorkflowProgress.                                                          *)

\* What an ended stage is to WorkflowProgress.
DoneIn(ck) == {s \in Stage : Done(ck, s)}
FailedIn(ck) == {s \in Stage : ck.status[s] = "failed"}

\* The conditions under which a checkpoint implements WorkflowProgress: one
\* scheduler process, no operator command, and a foundation that builds on
\* nothing but itself, as the first layer's data and feature stages do.
DaemonSpec == Init /\ [][DaemonNext]_vars
OneWorker == \A v, w \in Worker : v = w
SeedsAreClosed == \A set \in SeedOptions : StandsAlone(Plan, set)

\* A stage that may end now.
Pickable(s) ==
    /\ s \in Stage /\ s \notin DoneIn(disk) \cup FailedIn(disk)
    /\ Progress!Allowed(s, DoneIn(disk))

SameEnds(ck) == DoneIn(ck) = DoneIn(disk) /\ FailedIn(ck) = FailedIn(disk)

\* What each copy is to the file, which nobody else writes; and a foundation that
\* is taken over stays done, so that no command is ever run for it.
InStep(w) ==
    /\ pc[w] \notin {"idle", "seed"} => seed \subseteq DoneIn(disk)
    /\ pc[w] = "seed" => DoneIn(view[w]) = DoneIn(disk) \cup seed
                         /\ FailedIn(view[w]) = FailedIn(disk)
    /\ pc[w] \in {"provider", "begin"} => Pickable(aim[w])
    /\ pc[w] \in {"stamp", "run", "report", "begun"} => SameEnds(view[w])
    /\ pc[w] \in {"stamp", "run", "report", "begun", "dispatch", "reconcile",
                  "collect", "advance"} => Pickable(job[w])
    /\ pc[w] = "advance" => /\ DoneIn(view[w]) \in {DoneIn(disk), DoneIn(disk) \cup {job[w]}}
                            /\ FailedIn(view[w]) = FailedIn(disk)

DInv == seed \cap FailedIn(disk) = {} /\ \A w \in Worker : InStep(w)

\* A refresh ends no stage and reopens none.
LEMMA RefreshKeepsEnds ==
    ASSUME NEW gone, NEW ck \in Checkpoints(Plan)
    PROVE  /\ DoneIn(Refresh(PlanWith(gone), ck)) = DoneIn(ck)
           /\ FailedIn(Refresh(PlanWith(gone), ck)) = FailedIn(ck)
BY PlanWithKeeps DEF Refresh, Checkpoints, Status, Terminal, Done, DoneIn, FailedIn, Stage

\* Loading changes no ended stage.
LEMMA LoadedEnds == TypeOK => SameEnds(Loaded)
BY RefreshKeepsEnds DEF Loaded, PlanNow, TypeOK, SameEnds

\* What the marks do to the ended stages.
LEMMA MarkEnds ==
    ASSUME NEW ck \in Checkpoints(Plan), NEW s \in Stage
    PROVE  /\ DoneIn(Started(ck, s)) = DoneIn(ck) /\ FailedIn(Started(ck, s)) = FailedIn(ck)
           /\ DoneIn(Succeeded(ck, s)) = DoneIn(ck) \cup {s}
           /\ FailedIn(Succeeded(ck, s)) = FailedIn(ck) \ {s}
           /\ DoneIn(Failed(ck, s)) = DoneIn(ck) \ {s}
           /\ FailedIn(Failed(ck, s)) = FailedIn(ck) \cup {s}
           /\ \A gap \in BOOLEAN : /\ DoneIn(CoverageBlocked(ck, s, gap)) = DoneIn(ck) \ {s}
                        /\ FailedIn(CoverageBlocked(ck, s, gap)) = FailedIn(ck) \ {s}
<1> USE DEF Checkpoints, Done, DoneIn, FailedIn
<1>1. DoneIn(Started(ck, s)) = DoneIn(ck) /\ FailedIn(Started(ck, s)) = FailedIn(ck)
  BY DEF Started
<1>2. /\ DoneIn(Succeeded(ck, s)) = DoneIn(ck) \cup {s}
      /\ FailedIn(Succeeded(ck, s)) = FailedIn(ck) \ {s}
  <2>1. Succeeded(ck, s).status = [ck.status EXCEPT ![s] = "succeeded"]
    BY DEF Succeeded
  <2>2. QED
    BY <2>1 DEF Stage
<1>3. /\ DoneIn(Failed(ck, s)) = DoneIn(ck) \ {s}
      /\ FailedIn(Failed(ck, s)) = FailedIn(ck) \cup {s}
  <2>1. Failed(ck, s).status = [ck.status EXCEPT ![s] = "failed"]
    BY DEF Failed
  <2>2. QED
    BY <2>1 DEF Stage
<1>4. ASSUME NEW gap \in BOOLEAN
      PROVE  /\ DoneIn(CoverageBlocked(ck, s, gap)) = DoneIn(ck) \ {s}
             /\ FailedIn(CoverageBlocked(ck, s, gap)) = FailedIn(ck) \ {s}
  <2>1. CoverageBlocked(ck, s, gap).status = [ck.status EXCEPT ![s] = "blocked"]
    BY DEF CoverageBlocked
  <2>2. QED
    BY <2>1 DEF Stage
<1>5. QED
  BY <1>1, <1>2, <1>3, <1>4

\* What is marked as succeeded has ended so.
LEMMA AllSucceededEnds ==
    ASSUME NEW ck \in Checkpoints(Plan), NEW set \in SUBSET Stage
    PROVE  /\ DoneIn(AllSucceeded(ck, set)) = DoneIn(ck) \cup set
           /\ FailedIn(AllSucceeded(ck, set)) = FailedIn(ck) \ set
<1>1. AllSucceeded(ck, set).status
        = [s \in Stage |-> IF s \in set THEN "succeeded" ELSE ck.status[s]]
  BY DEF AllSucceeded, Checkpoints, Stage
<1>2. QED
  BY <1>1 DEF Done, DoneIn, FailedIn

\* A stage ready in what is loaded may end.
LEMMA ReadyIsPickable ==
    ASSUME TInv, NEW s \in Stage, Loaded.status[s] = "ready"
    PROVE  Pickable(s)
<1>1. s \notin DoneIn(disk) \cup FailedIn(disk)
  BY LoadedEnds DEF TInv, SameEnds, DoneIn, FailedIn, Done
<1>2. ASSUME NEW b \in Plan.blockers[s]
      PROVE  \E alternative \in b : alternative \subseteq DoneIn(disk)
  <2>1. Unblocked(Plan, Loaded, s)
    BY LoadedSound DEF TInv, Sound
  <2>2. PICK alternative \in b : \A u \in alternative : Done(Loaded, u)
    BY <2>1 DEF Unblocked, BlockerMet
  <2>3. alternative \subseteq Stage
    BY PlanShape
  <2>4. alternative \subseteq DoneIn(Loaded)
    BY <2>2, <2>3 DEF DoneIn
  <2>5. QED
    BY <2>4, LoadedEnds DEF TInv, SameEnds
<1>3. QED
  BY <1>1, <1>2 DEF Pickable, Progress!Allowed

-----------------------------------------------------------------------------
\* The daemon starts where its abstraction does.
LEMMA DInvInit == Init => DInv /\ Progress!Init
<1> SUFFICES ASSUME Init PROVE DInv /\ Progress!Init
  OBVIOUS
<1>1. DoneIn(disk) = {} /\ FailedIn(disk) = {}
  <2> DEFINE fresh == [status |-> [s \in Stage |-> "pending"], hold |-> [s \in Stage |-> FALSE]]
  <2>1. fresh \in Checkpoints(Plan)
    BY BlankType DEF Blank
  <2>2. DoneIn(fresh) = {} /\ FailedIn(fresh) = {}
    BY DEF DoneIn, FailedIn, Done
  <2>3. disk = Refresh(PlanNow, fresh)
    BY PlanWithKeeps DEF Init, Initial, PlanNow
  <2> HIDE DEF fresh
  <2>4. QED
    BY <2>1, <2>2, <2>3, RefreshKeepsEnds DEF PlanNow
<1>2. QED
  BY <1>1 DEF Init, DInv, InStep, Progress!Init, DoneIn, FailedIn

\* The abstract steps.
LEMMA FinishStep ==
    ASSUME NEW set \in SUBSET Stage,
           \A s \in set : /\ s \notin DoneIn(disk) \cup FailedIn(disk)
                          /\ Progress!Allowed(s, DoneIn(disk) \cup set),
           DoneIn(disk)' = DoneIn(disk) \cup set, FailedIn(disk)' = FailedIn(disk)
    PROVE  Progress!Next
<1>1. Progress!Finish(set)
  BY DEF Progress!Finish, Progress!Open, DoneIn, FailedIn
<1>2. QED
  BY <1>1 DEF Progress!Next

\* A stage that may end may fail.
LEMMA FailStep ==
    ASSUME NEW s, Pickable(s),
           DoneIn(disk)' = DoneIn(disk), FailedIn(disk)' = FailedIn(disk) \cup {s}
    PROVE  Progress!Next
<1>1. Progress!Fail(s)
  BY DEF Progress!Fail, Progress!Open, Pickable, DoneIn, FailedIn
<1>2. QED
  BY <1>1 DEF Progress!Next, Pickable

\* What changes no ended stage is a stutter of the abstraction.
LEMMA StutterStep ==
    ASSUME DoneIn(disk)' = DoneIn(disk), FailedIn(disk)' = FailedIn(disk)
    PROVE  UNCHANGED Progress!progress
BY DEF Progress!progress, DoneIn, FailedIn

\* A stage that may end may end as done.
LEMMA PickedStep ==
    ASSUME NEW s, Pickable(s),
           DoneIn(disk)' = DoneIn(disk) \cup {s}, FailedIn(disk)' = FailedIn(disk)
    PROVE  Progress!Next
<1>1. Progress!Allowed(s, DoneIn(disk) \cup {s})
  BY DEF Pickable, Progress!Allowed
<1>2. QED
  BY <1>1, FinishStep DEF Pickable

-----------------------------------------------------------------------------
(* The steps of the only process.                                             *)

\* Going back to the loop with nothing in hand.
LEMMA IdleStep ==
    ASSUME TInv, DInv, OneWorker, NEW w \in Worker, GoIdle(w), seed' = seed,
           seed \cap FailedIn(disk)' = {}
    PROVE  DInv'
<1>1. \A x \in Worker : pc'[x] = "idle"
  BY DEF GoIdle, Goto, OneWorker, TInv, TypeOK
<1>2. QED
  BY <1>1 DEF DInv, InStep

\* A step that leaves the file alone.
LEMMA QuietStep ==
    ASSUME DInv, OneWorker, NEW w \in Worker, seed' = seed, disk' = disk, InStep(w)'
    PROVE  DInv' /\ UNCHANGED Progress!progress
<1>1. FailedIn(disk)' = FailedIn(disk) /\ DoneIn(disk)' = DoneIn(disk)
  BY DEF FailedIn, DoneIn
<1>2. DInv'
  BY <1>1 DEF DInv, OneWorker
<1>3. UNCHANGED Progress!progress
  BY <1>1, StutterStep
<1>4. QED
  BY <1>2, <1>3

\* Going back to the loop without having stored anything.
LEMMA RestStep ==
    ASSUME TInv, DInv, OneWorker, NEW w \in Worker, GoIdle(w), seed' = seed, disk' = disk
    PROVE  DInv' /\ UNCHANGED Progress!progress
<1>1. InStep(w)'
  BY DEF GoIdle, Goto, TInv, TypeOK, InStep
<1>2. QED
  BY <1>1, QuietStep

\* The seeding of a fold implements the abstraction,
LEMMA SeedSteps ==
    ASSUME TInv, SInv, DInv, OneWorker, SeedsAreClosed, NEW w \in Worker
    PROVE  /\ SeedLoad(w) => DInv' /\ UNCHANGED Progress!progress
           /\ SeedStore(w) => DInv' /\ Progress!Next
<1>1. seed \in SUBSET Stage
  BY BoundsAssumption DEF TInv, TypeOK
<1>2. ASSUME SeedLoad(w) PROVE DInv' /\ UNCHANGED Progress!progress
  <2> DEFINE new == Refresh(PlanNow, AllSucceeded(Loaded, seed))
  <2>1. Loaded \in Checkpoints(Plan) /\ SameEnds(Loaded)
    BY LoadedType, LoadedEnds DEF TInv, TypeOK
  <2>2. AllSucceeded(Loaded, seed) \in Checkpoints(Plan)
    BY <2>1, MarkTypes
  <2>3. /\ DoneIn(new) = DoneIn(AllSucceeded(Loaded, seed))
        /\ FailedIn(new) = FailedIn(AllSucceeded(Loaded, seed))
    BY <2>2, RefreshKeepsEnds DEF PlanNow
  <2>4. DoneIn(new) = DoneIn(disk) \cup seed /\ FailedIn(new) = FailedIn(disk) \ seed
    BY <1>1, <2>1, <2>3, AllSucceededEnds DEF SameEnds
  <2>5. FailedIn(new) = FailedIn(disk)
    BY <2>4 DEF DInv
  <2> HIDE DEF new
  <2>6. view'[w] = new /\ pc'[w] = "seed" /\ disk' = disk /\ seed' = seed
    BY <1>2 DEF SeedLoad, Goto, TInv, TypeOK, new
  <2>7. InStep(w)'
    BY <2>4, <2>5, <2>6 DEF InStep, DoneIn, FailedIn
  <2>8. QED
    BY <2>6, <2>7, QuietStep
<1>3. ASSUME SeedStore(w) PROVE DInv' /\ Progress!Next
  <2>1. pc[w] = "seed" /\ pc'[w] = "tick" /\ disk' = view[w] /\ seed' = seed
    BY <1>3 DEF SeedStore, Goto, TInv, TypeOK
  <2>2. DoneIn(disk)' = DoneIn(disk) \cup seed /\ FailedIn(disk)' = FailedIn(disk)
    BY <2>1 DEF DInv, InStep, DoneIn, FailedIn
  <2>3. DInv'
    BY <2>1, <2>2 DEF DInv, InStep, OneWorker
  <2> DEFINE set == seed \ DoneIn(disk)
  <2>4. ASSUME NEW s \in set
        PROVE  /\ s \notin DoneIn(disk) \cup FailedIn(disk)
               /\ Progress!Allowed(s, DoneIn(disk) \cup set)
    BY SeedsAreClosed DEF DInv, TInv, TypeOK, SeedsAreClosed, StandsAlone, Progress!Allowed
  <2>5. DoneIn(disk)' = DoneIn(disk) \cup set
    BY <2>2
  <2>6. set \in SUBSET Stage
    BY <1>1
  <2> HIDE DEF set
  <2>7. Progress!Next
    BY <2>2, <2>4, <2>5, <2>6, FinishStep
  <2>8. QED
    BY <2>3, <2>7
<1>4. QED
  BY <1>2, <1>3

\* Steps of the worker that neither store nor go back to the loop, up to the
\* stage in hand: DEF of the step gives the next control point and what it keeps.
LEMMA ChoiceSteps ==
    ASSUME TInv, SInv, DInv, OneWorker, NEW w \in Worker,
           Tick(w) \/ EnterLane(w) \/ Select(w) \/ Begin(w)
    PROVE  DInv' /\ UNCHANGED Progress!progress
<1> USE DEF Goto
<1>1. seed' = seed /\ disk' = disk
  BY DEF Tick, EnterLane, Select, Begin, GoIdle
<1>2. DoneIn(disk)' = DoneIn(disk) /\ FailedIn(disk)' = FailedIn(disk)
  BY <1>1 DEF DoneIn, FailedIn
<1>3. \A s : Pickable(s) => Pickable(s)'
  BY <1>2 DEF Pickable
<1>4. CASE Tick(w)
  <2> DEFINE next == NextReady(Plan, Loaded, NoStage)
  <2>1. Pickable(next)
    BY <1>4, NextReadyIsReady, ReadyIsPickable DEF Tick
  <2> HIDE DEF next
  <2>2. aim'[w] = next /\ pc'[w] \in {"provider", "offline"}
    BY <1>4 DEF Tick, TInv, TypeOK, next
  <2>3. seed \subseteq DoneIn(disk)
    BY <1>4 DEF Tick, AtTick, DInv, InStep
  <2>4. InStep(w)'
    BY <1>1, <1>2, <1>3, <2>1, <2>2, <2>3 DEF InStep
  <2>5. QED
    BY <1>1, <2>4, QuietStep
<1>5. CASE EnterLane(w)
  <2>1. CASE GoIdle(w)
    BY <1>1, <2>1, RestStep
  <2>2. CASE ~GoIdle(w)
    <3>1. /\ \/ pc[w] = "provider" /\ pc'[w] = "begin"
             \/ pc[w] = "offline" /\ pc'[w] = "select"
          /\ aim' = aim
      BY <1>5, <2>2 DEF EnterLane, TInv, TypeOK
    <3>2. InStep(w)'
      BY <1>1, <1>2, <1>3, <3>1 DEF DInv, InStep
    <3>3. QED
      BY <1>1, <3>2, QuietStep
  <2>3. QED
    BY <2>1, <2>2
<1>6. CASE Select(w)
  <2> DEFINE next == NextReady(Plan, Loaded, NoStage)
  <2>1. CASE next = NoStage
    <3>1. GoIdle(w)
      BY <1>6, <2>1 DEF Select
    <3>2. QED
      BY <1>1, <3>1, RestStep
  <2>2. CASE next # NoStage
    <3>1. Pickable(next)
      BY <2>2, NextReadyIsReady, ReadyIsPickable
    <3>2. SameEnds(Loaded)
      BY LoadedEnds DEF TInv
    <3> HIDE DEF next
    <3>3. view'[w] = Loaded /\ job'[w] = next /\ pc[w] = "select" /\ pc'[w] = "stamp"
      BY <1>6, <2>2 DEF Select, TInv, TypeOK, next
    <3>4. SameEnds(view[w])'
      BY <1>2, <3>2, <3>3 DEF SameEnds, DoneIn, FailedIn
    <3>5. InStep(w)'
      BY <1>1, <1>2, <1>3, <3>1, <3>3, <3>4 DEF DInv, InStep
    <3>6. QED
      BY <1>1, <3>5, QuietStep
  <2>3. QED
    BY <2>1, <2>2
<1>7. CASE Begin(w)
  <2>1. view'[w] = Loaded /\ job'[w] = aim[w] /\ pc[w] = "begin" /\ pc'[w] = "begun"
    BY <1>7 DEF Begin, TInv, TypeOK
  <2>2. SameEnds(Loaded)
    BY LoadedEnds DEF TInv
  <2>3. SameEnds(view[w])'
    BY <1>2, <2>1, <2>2 DEF SameEnds, DoneIn, FailedIn
  <2>4. InStep(w)'
    BY <1>1, <1>2, <1>3, <2>1, <2>3 DEF DInv, InStep
  <2>5. QED
    BY <1>1, <2>4, QuietStep
<1>8. QED
  BY <1>4, <1>5, <1>6, <1>7

\* The steps on the way from the choice of a stage to its outcome.
LEMMA WorkSteps ==
    ASSUME TInv, SInv, DInv, OneWorker, NEW w \in Worker,
           Stamp(w) \/ Run(w) \/ BeginStore(w) \/ Dispatch(w) \/ EnterReconcile(w)
    PROVE  DInv' /\ UNCHANGED Progress!progress
<1> USE DEF Goto
<1>1. seed' = seed
  BY DEF Stamp, Run, BeginStore, Dispatch, EnterReconcile, GoIdle
<1>2. ASSUME DoneIn(disk)' = DoneIn(disk), FailedIn(disk)' = FailedIn(disk), InStep(w)'
      PROVE  DInv' /\ UNCHANGED Progress!progress
  BY <1>1, <1>2, StutterStep DEF DInv, OneWorker
<1>3. ASSUME DoneIn(disk)' = DoneIn(disk), FailedIn(disk)' = FailedIn(disk)
      PROVE  \A s : Pickable(s) => Pickable(s)'
  BY <1>3 DEF Pickable
<1>4. CASE Stamp(w) \/ BeginStore(w)
  <2>1. /\ pc[w] \in {"stamp", "begun"} /\ job' = job
        /\ pc'[w] = IF pc[w] = "stamp" THEN "run" ELSE "dispatch"
        /\ disk' = Started(view[w], job[w])
        /\ pc[w] = "stamp" => view'[w] = Started(view[w], job[w])
    BY <1>4 DEF Stamp, BeginStore, TInv, TypeOK
  <2>2. /\ view[w] \in Checkpoints(Plan) /\ job[w] \in Stage
        /\ SameEnds(view[w]) /\ Pickable(job[w]) /\ seed \subseteq DoneIn(disk)
    BY <2>1 DEF DInv, InStep, TInv, TypeOK, HasJob
  <2>3. /\ DoneIn(Started(view[w], job[w])) = DoneIn(disk)
        /\ FailedIn(Started(view[w], job[w])) = FailedIn(disk)
    BY <2>2, MarkEnds DEF SameEnds
  <2>4. DoneIn(disk)' = DoneIn(disk) /\ FailedIn(disk)' = FailedIn(disk)
    BY <2>1, <2>3 DEF DoneIn, FailedIn
  <2>5. pc[w] = "stamp" => SameEnds(view[w])'
    BY <2>1, <2>3, <2>4 DEF SameEnds, DoneIn, FailedIn
  <2>6. Pickable(job[w])'
    BY <1>3, <2>1, <2>2, <2>4
  <2>7. InStep(w)'
    BY <1>1, <2>1, <2>2, <2>4, <2>5, <2>6 DEF InStep
  <2>8. QED
    BY <1>2, <2>4, <2>7
<1>5. CASE Run(w) \/ Dispatch(w)
  <2>1. /\ pc[w] \in {"run", "dispatch"} /\ UNCHANGED <<disk, view, job>>
        /\ pc'[w] = IF pc[w] = "run" THEN "report" ELSE "reconcile"
    BY <1>5 DEF Run, Dispatch, TInv, TypeOK
  <2>2. DoneIn(disk)' = DoneIn(disk) /\ FailedIn(disk)' = FailedIn(disk)
    BY <2>1 DEF DoneIn, FailedIn
  <2>3. pc[w] = "run" => SameEnds(view[w])'
    BY <2>1, <2>2 DEF DInv, InStep, SameEnds, DoneIn, FailedIn
  <2>4. InStep(w)'
    BY <1>1, <1>3, <2>1, <2>2, <2>3 DEF DInv, InStep
  <2>5. QED
    BY <1>2, <2>2, <2>4
<1>6. CASE EnterReconcile(w)
  <2>1. disk' = disk
    BY <1>6 DEF EnterReconcile
  <2>2. CASE GoIdle(w)
    BY <1>1, <2>1, <2>2, RestStep
  <2>3. CASE ~GoIdle(w)
    <3>1. pc[w] = "reconcile" /\ pc'[w] = "collect" /\ job' = job
      BY <1>6, <2>3 DEF EnterReconcile, TInv, TypeOK
    <3>2. DoneIn(disk)' = DoneIn(disk) /\ FailedIn(disk)' = FailedIn(disk)
      BY <2>1 DEF DoneIn, FailedIn
    <3>3. InStep(w)'
      BY <1>1, <1>3, <3>1, <3>2 DEF DInv, InStep
    <3>4. QED
      BY <1>2, <3>2, <3>3
  <2>4. QED
    BY <2>2, <2>3
<1>7. QED
  BY <1>4, <1>5, <1>6

\* The outcome of a command, and of a reconcile.
LEMMA ReportStep ==
    ASSUME TInv, SInv, DInv, OneWorker, NEW w \in Worker, Report(w)
    PROVE  DInv' /\ Progress!Next
<1>1. /\ pc[w] = "report" /\ seed' = seed /\ GoIdle(w)
      /\ disk' = Outcome(PlanNow, view[w], job[w], result[w])
  BY DEF Report
<1>2. /\ view[w] \in Checkpoints(Plan) /\ job[w] \in Stage
      /\ SameEnds(view[w]) /\ Pickable(job[w]) /\ seed \subseteq DoneIn(disk)
  BY <1>1 DEF DInv, InStep, TInv, TypeOK, HasJob
<1>3. job[w] \notin DoneIn(disk) \cup FailedIn(disk) /\ job[w] \notin seed
  BY <1>2 DEF Pickable
<1>4. CASE result[w] = "succeeded"
  <2> DEFINE new == Succeeded(view[w], job[w])
  <2>1. /\ new \in Checkpoints(Plan)
        /\ DoneIn(new) = DoneIn(disk) \cup {job[w]} /\ FailedIn(new) = FailedIn(disk)
    <3>1. new \in Checkpoints(Plan)
      BY <1>2, MarkTypes
    <3>2. /\ DoneIn(new) = DoneIn(view[w]) \cup {job[w]}
          /\ FailedIn(new) = FailedIn(view[w]) \ {job[w]}
      BY <1>2, MarkEnds
    <3> HIDE DEF new
    <3>3. QED
      BY <1>2, <1>3, <3>1, <3>2 DEF SameEnds
  <2> HIDE DEF new
  <2>2. disk' = Refresh(PlanNow, new)
    BY <1>1, <1>4 DEF Outcome, new
  <2>3. DoneIn(disk)' = DoneIn(disk) \cup {job[w]} /\ FailedIn(disk)' = FailedIn(disk)
    <3>1. DoneIn(disk') = DoneIn(disk) \cup {job[w]} /\ FailedIn(disk') = FailedIn(disk)
      BY <2>1, <2>2, RefreshKeepsEnds DEF PlanNow
    <3>2. QED
      BY <3>1 DEF DoneIn, FailedIn
  <2>4. QED
    BY <1>1, <1>2, <2>3, IdleStep, PickedStep DEF DInv
<1>5. CASE result[w] # "succeeded"
  <2>1. disk' = Failed(view[w], job[w])
    BY <1>1, <1>5 DEF Outcome
  <2>2. /\ DoneIn(disk') = DoneIn(disk)
        /\ FailedIn(disk') = FailedIn(disk) \cup {job[w]}
    <3>1. /\ DoneIn(Failed(view[w], job[w])) = DoneIn(view[w]) \ {job[w]}
          /\ FailedIn(Failed(view[w], job[w])) = FailedIn(view[w]) \cup {job[w]}
      BY <1>2, MarkEnds
    <3>2. QED
      BY <1>2, <1>3, <2>1, <3>1 DEF SameEnds
  <2>3. DoneIn(disk)' = DoneIn(disk) /\ FailedIn(disk)' = FailedIn(disk) \cup {job[w]}
    BY <2>2 DEF DoneIn, FailedIn
  <2>4. QED
    BY <1>1, <1>2, <1>3, <2>3, IdleStep, FailStep DEF DInv
<1>6. QED
  BY <1>4, <1>5

\* so does the reconcile,
LEMMA ReconcileSteps ==
    ASSUME TInv, SInv, DInv, OneWorker, NEW w \in Worker
    PROVE  /\ Collect(w) => DInv' /\ UNCHANGED Progress!progress
           /\ Advance(w) => DInv' /\ [Progress!Next]_Progress!progress
<1>1. ASSUME Collect(w) PROVE DInv' /\ UNCHANGED Progress!progress
  <2>1. PICK report : view' = [view EXCEPT ![w] =
                        Refresh(PlanNow, CoverageApplied(Loaded, job[w], report))]
    BY <1>1 DEF Collect
  <2>2. /\ pc[w] = "collect" /\ pc'[w] = "advance" /\ UNCHANGED <<disk, seed, job>>
    BY <1>1 DEF Collect, Goto, TInv, TypeOK
  <2>3. /\ job[w] \in Stage /\ Pickable(job[w]) /\ seed \subseteq DoneIn(disk)
        /\ Loaded \in Checkpoints(Plan) /\ SameEnds(Loaded)
    BY <2>2, LoadedType, LoadedEnds DEF DInv, InStep, TInv, TypeOK, HasJob
  <2> DEFINE new == CoverageApplied(Loaded, job[w], report)
  <2>4. new \in Checkpoints(Plan)
    BY <2>3, MarkTypes
  <2>5. /\ DoneIn(new) \in {DoneIn(disk), DoneIn(disk) \cup {job[w]}}
        /\ FailedIn(new) = FailedIn(disk)
    <3>1. CASE report = "ready"
      BY <2>3, <3>1, MarkEnds DEF CoverageApplied, SameEnds, Pickable
    <3>2. CASE report # "ready"
      <4> DEFINE gap == report = "source_gap"
      <4>1. /\ DoneIn(CoverageBlocked(Loaded, job[w], gap)) = DoneIn(Loaded) \ {job[w]}
            /\ FailedIn(CoverageBlocked(Loaded, job[w], gap)) = FailedIn(Loaded) \ {job[w]}
        BY <2>3, MarkEnds
      <4>2. new = CoverageBlocked(Loaded, job[w], gap)
        BY <3>2 DEF CoverageApplied
      <4> HIDE DEF new
      <4>3. QED
        BY <2>3, <4>1, <4>2 DEF SameEnds, Pickable
    <3>3. QED
      BY <3>1, <3>2
  <2> HIDE DEF new
  <2>6. view'[w] = Refresh(PlanNow, new)
    BY <2>1 DEF TInv, TypeOK, new
  <2>7. DoneIn(view'[w]) = DoneIn(new) /\ FailedIn(view'[w]) = FailedIn(new)
    BY <2>4, <2>6, RefreshKeepsEnds DEF PlanNow
  <2>8. /\ DoneIn(disk)' = DoneIn(disk) /\ FailedIn(disk)' = FailedIn(disk)
        /\ DoneIn(view[w])' = DoneIn(new) /\ FailedIn(view[w])' = FailedIn(new)
    BY <2>2, <2>7 DEF DoneIn, FailedIn
  <2>9. Pickable(job[w])'
    BY <2>2, <2>3, <2>8 DEF Pickable
  <2>10. InStep(w)'
    BY <2>2, <2>3, <2>5, <2>8, <2>9 DEF InStep
  <2>11. QED
    BY <2>2, <2>10, QuietStep
<1>2. ASSUME Advance(w) PROVE DInv' /\ [Progress!Next]_Progress!progress
  <2>1. pc[w] = "advance" /\ seed' = seed /\ GoIdle(w) /\ disk' = view[w]
    BY <1>2 DEF Advance
  <2>2. /\ Pickable(job[w]) /\ FailedIn(view[w]) = FailedIn(disk)
        /\ DoneIn(view[w]) \in {DoneIn(disk), DoneIn(disk) \cup {job[w]}}
    BY <2>1 DEF DInv, InStep
  <2>3. /\ FailedIn(disk)' = FailedIn(disk)
        /\ DoneIn(disk)' \in {DoneIn(disk), DoneIn(disk) \cup {job[w]}}
    BY <2>1, <2>2 DEF DoneIn, FailedIn
  <2>4. DInv'
    BY <2>1, <2>3, IdleStep DEF DInv
  <2>5. QED
    BY <2>2, <2>3, <2>4, StutterStep, PickedStep
<1>3. QED
  BY <1>1, <1>2

\* and so does every step of the daemon.
LEMMA DInvStep ==
    ASSUME TInv, SInv, DInv, OneWorker, SeedsAreClosed, [DaemonNext]_vars
    PROVE  DInv' /\ [Progress!Next]_Progress!progress
<1>1. ASSUME NEW w \in Worker, Step(w) PROVE DInv' /\ [Progress!Next]_Progress!progress
  <2>1. CASE SeedLoad(w) \/ SeedStore(w)
    BY <2>1, SeedSteps
  <2>2. CASE Tick(w) \/ EnterLane(w) \/ Select(w) \/ Begin(w)
    BY <2>2, ChoiceSteps
  <2>3. CASE Stamp(w) \/ Run(w) \/ BeginStore(w) \/ Dispatch(w) \/ EnterReconcile(w)
    BY <2>3, WorkSteps
  <2>4. CASE Prepare(w) \/ Rest(w)
    <3>1. GoIdle(w) /\ seed' = seed /\ disk' = disk
      BY <2>4 DEF Prepare, Rest
    <3>2. QED
      BY <3>1, RestStep
  <2>5. CASE Report(w)
    BY <2>5, ReportStep
  <2>6. CASE Collect(w) \/ Advance(w)
    BY <2>6, ReconcileSteps
  <2>7. QED
    BY <1>1, <2>1, <2>2, <2>3, <2>4, <2>5, <2>6 DEF Step
<1>2. ASSUME NEW w \in Worker, Crash(w) PROVE DInv' /\ [Progress!Next]_Progress!progress
  <2>1. GoIdle(w) /\ seed' = seed /\ disk' = disk
    BY <1>2 DEF Crash
  <2>2. QED
    BY <2>1, RestStep
<1>3. CASE LoseCoverage \/ UNCHANGED vars
  <2>1. UNCHANGED <<seed, disk, pc, view, aim, job>>
    BY <1>3 DEF LoseCoverage, local, vars
  <2>2. DoneIn(disk)' = DoneIn(disk) /\ FailedIn(disk)' = FailedIn(disk)
    BY <2>1 DEF DoneIn, FailedIn
  <2>3. \A w \in Worker : InStep(w)'
    BY <2>1 DEF DInv, InStep, SameEnds, Pickable, DoneIn, FailedIn
  <2>4. QED
    BY <2>1, <2>2, <2>3, StutterStep DEF DInv
<1>4. QED
  BY <1>1, <1>2, <1>3 DEF DaemonNext

\* With one scheduler process and no operator command the checkpoint implements
\* WorkflowProgress: every store ends stages only after all they build on, and
\* nothing that has ended is reopened or ends otherwise.
THEOREM DaemonImplementsProgress ==
    ASSUME OneWorker, SeedsAreClosed PROVE DaemonSpec => ImplementsProgress
<1>1. Init => TInv /\ SInv /\ DInv /\ Progress!Init
  BY TInvInit, SInvInit, DInvInit
<1>2. TInv /\ SInv /\ DInv /\ [DaemonNext]_vars
        => (TInv /\ SInv /\ DInv)' /\ [Progress!Next]_Progress!progress
  BY TInvStep, SInvStep, DInvStep DEF Next
<1>3. QED
  BY <1>1, <1>2, PTL DEF DaemonSpec, ImplementsProgress, Progress!Spec

-----------------------------------------------------------------------------
(* DatasetEvidence: what was read of the tables is still in them.             *)
SnapshotRows == [id : Nat, layer : ModelLayers]
SplitRows == [snapshot : Nat, name : SplitNames, first : Int, last : Int]

\* The rows e were read of the tables, some time ago perhaps.
WereRead(e) ==
    /\ e = [snapshots |-> e.snapshots, splits |-> e.splits, labelled |-> e.labelled,
            evalRuns |-> e.evalRuns, failures |-> e.failures]
    /\ e.snapshots \in Seq(SnapshotRows) /\ Range(e.snapshots) \subseteq Range(snapshots)
    /\ e.splits \subseteq splits /\ e.labelled \subseteq labelled
    /\ e.evalRuns \subseteq evalRuns /\ e.failures \subseteq failures

Tables ==
    /\ snapshots \in Seq(SnapshotRows)
    /\ splits \subseteq SplitRows /\ IsFiniteSet(splits)

\* No row leaves the tables; a snapshot that is written again only moves in their order.
TablesGrow ==
    /\ Range(snapshots) \subseteq Range(snapshots') /\ splits \subseteq splits'
    /\ labelled \subseteq labelled' /\ evalRuns \subseteq evalRuns'
    /\ failures \subseteq failures'

EvidenceInv ==
    /\ Tables /\ query \in 0 .. 5
    /\ WereRead(rows) /\ WereRead(evidence)
    /\ ExpansionIsOrderly

\* The least of a set of numbers.
LEMMA LeastOf ==
    ASSUME NEW S \in SUBSET Nat, S # {}
    PROVE  Min(S) \in S /\ \A x \in S : Min(S) <= x
<1> DEFINE R == {ss \in Nat \X Nat : ss[1] < ss[2]}
<1>1. IsWellFoundedOn(R, Nat)
  BY NatLessThanWellFounded DEF OpToRel
<1> HIDE DEF R
<1>2. PICK m \in S : \A x \in S : ~(<<x, m>> \in R)
  BY <1>1, WFMin
<1>3. \A x, y \in Nat : x < y => <<x, y>> \in R
  BY DEF R
<1>4. \A x \in S : m <= x
  <2> TAKE x \in S
  <2>1. x \in Nat /\ m \in Nat /\ ~(x < m)
    BY <1>2, <1>3
  <2> QED BY <2>1
<1> QED BY <1>4 DEF Min

\* A sequence is a function on its places.
LEMMA InPlaces ==
    ASSUME NEW S, NEW s \in Seq(S)
    PROVE  /\ Range(s) \subseteq S
           /\ \A x \in Range(s) : \E i \in 1 .. Len(s) : s[i] = x
           /\ \A i \in 1 .. Len(s) : s[i] \in Range(s)
<1>1. DOMAIN s = 1 .. Len(s)
  BY LenProperties
<1>2. \A i \in 1 .. Len(s) : s[i] \in S
  BY ElementOfSeq
<1>3. Range(s) = {s[i] : i \in 1 .. Len(s)}
  BY <1>1 DEF Range
<1> QED BY <1>2, <1>3

-----------------------------------------------------------------------------
(* DatasetEvidence: months.                                                   *)
\* The splits of role r of a model, as the rows e have them.
CountedIn(e, l, r) == UNION {SplitsIn(e, t.id, r) : t \in SnapshotsOf(e, l)}

LEMMA CountedAreCounted ==
    ASSUME Tables, NEW e, WereRead(e), NEW l, NEW r
    PROVE  CountedIn(e, l, r) \subseteq SplitsCounted(l, r)
<1> SUFFICES ASSUME NEW s \in CountedIn(e, l, r)
             PROVE  s \in SplitsCounted(l, r)
  OBVIOUS
<1>1. PICK t \in SnapshotsOf(e, l) : s \in SplitsIn(e, t.id, r)
  BY DEF CountedIn
<1>2. t \in Range(snapshots) /\ t.layer = l
  BY <1>1 DEF SnapshotsOf, WereRead
<1>3. PICK i \in 1 .. Len(snapshots) : snapshots[i] = t
  <2>1. snapshots \in Seq(SnapshotRows)
    BY DEF Tables
  <2>2. \A x \in Range(snapshots) : \E i \in 1 .. Len(snapshots) : snapshots[i] = x
    BY <2>1, InPlaces
  <2> QED BY <1>2, <2>2
<1>4. t \in SnapshotRows
  BY <1>2, InPlaces DEF Tables
<1>5. t = [id |-> s.snapshot, layer |-> l]
  BY <1>1, <1>2, <1>4 DEF SplitsIn, SnapshotRows
<1>6. s \in splits /\ RoleNamed[s.name] = r
  BY <1>1 DEF SplitsIn, WereRead
<1> QED BY <1>3, <1>5, <1>6 DEF SplitsCounted

\* Finitely many splits have finitely many months.
LEMMA MonthsAreFinite ==
    ASSUME NEW rs \in SUBSET SplitRows, IsFiniteSet(rs)
    PROVE  IsFiniteSet(UNION {s.first .. s.last : s \in rs})
<1> DEFINE f == [s \in rs |-> s.first .. s.last]
           T == {s.first .. s.last : s \in rs}
<1>1. f \in Surjection(rs, T)
  BY DEF Surjection
<1>2. IsFiniteSet(T)
  BY <1>1, FS_Surjection
<1>3. ASSUME NEW months \in T
      PROVE  IsFiniteSet(months)
  <2>1. PICK s \in rs : months = s.first .. s.last
    OBVIOUS
  <2>2. s.first \in Int /\ s.last \in Int
    BY <2>1 DEF SplitRows
  <2> QED BY <2>1, <2>2, FS_Interval
<1> HIDE DEF T
<1>4. IsFiniteSet(UNION T)
  BY <1>2, <1>3, FS_UNION
<1> QED BY <1>4 DEF T

LEMMA BuiltIsFinite ==
    ASSUME NEW l, NEW r
    PROVE  /\ Tables => /\ IsFiniteSet(MonthsBuilt(l, r))
                        /\ Cardinality(MonthsBuilt(l, r)) \in Nat
           /\ Tables' => /\ IsFiniteSet(MonthsBuilt(l, r)')
                         /\ Cardinality(MonthsBuilt(l, r)') \in Nat
<1>1. ASSUME Tables
      PROVE  IsFiniteSet(MonthsBuilt(l, r)) /\ Cardinality(MonthsBuilt(l, r)) \in Nat
  <2>1. MonthsBuilt(l, r) \in SUBSET UNION {s.first .. s.last : s \in splits}
    BY DEF MonthsBuilt
  <2>2. IsFiniteSet(UNION {s.first .. s.last : s \in splits})
    BY <1>1, MonthsAreFinite DEF Tables
  <2>3. IsFiniteSet(MonthsBuilt(l, r))
    BY <2>1, <2>2, FS_Subset
  <2> QED BY <2>3, FS_CardinalityType
<1>2. ASSUME Tables'
      PROVE  IsFiniteSet(MonthsBuilt(l, r)') /\ Cardinality(MonthsBuilt(l, r)') \in Nat
  <2>1. MonthsBuilt(l, r)' \in SUBSET UNION {s.first .. s.last : s \in splits'}
    BY DEF MonthsBuilt
  <2>2. IsFiniteSet(UNION {s.first .. s.last : s \in splits'})
    BY <1>2, MonthsAreFinite DEF Tables
  <2>3. IsFiniteSet(MonthsBuilt(l, r)')
    BY <2>1, <2>2, FS_Subset
  <2> QED BY <2>3, FS_CardinalityType
<1> QED BY <1>1, <1>2

\* What a month counts for: each of the splits that have it.
PairsOf(set) == UNION {{s} \X MonthCoverage(s) : s \in set}

LEMMA CountIsPairs ==
    ASSUME NEW e, NEW l, NEW r
    PROVE  MonthCount(e, l, r) = Cardinality(PairsOf(CountedIn(e, l, r)))
BY DEF MonthCount, PairsOf, CountedIn

LEMMA CountIsNumber ==
    ASSUME Tables, NEW e, WereRead(e), NEW l, NEW r
    PROVE  MonthCount(e, l, r) \in Nat
<1> DEFINE M == UNION {s.first .. s.last : s \in splits}
           P == PairsOf(CountedIn(e, l, r))
<1>1. CountedIn(e, l, r) \subseteq splits
  BY CountedAreCounted DEF SplitsCounted
<1>2. P \in SUBSET (splits \X M)
  BY <1>1 DEF PairsOf, MonthCoverage
<1>3. IsFiniteSet(splits) /\ IsFiniteSet(M)
  BY MonthsAreFinite DEF Tables
<1> HIDE DEF P, M
<1>4. IsFiniteSet(splits \X M)
  BY <1>3, FS_Product
<1>5. IsFiniteSet(P)
  BY <1>2, <1>4, FS_Subset
<1>6. Cardinality(P) \in Nat
  BY <1>5, FS_CardinalityType
<1> QED BY <1>6, CountIsPairs DEF P

\* Without an overlap and under its own name a role's months are counted once, so the
\* count is at most what was built.
LEMMA CountIsReal ==
    ASSUME Tables, NEW e, WereRead(e), NEW l, NEW r, ~Exaggerated(l, r)
    PROVE  MonthCount(e, l, r) <= Cardinality(MonthsBuilt(l, r))
<1> DEFINE C == CountedIn(e, l, r)
           P == PairsOf(C)
           B == MonthsBuilt(l, r)
           f == [p \in P |-> p[2]]
<1>1. C \subseteq SplitsCounted(l, r)
  BY CountedAreCounted
<1>2. \A s \in C : s \in SplitRows /\ s.first \in Int /\ s.last \in Int
  BY <1>1 DEF SplitsCounted, Tables, SplitRows
<1>3. \A p \in P : p[1] \in C /\ p[2] \in Int /\ p[1].first <= p[2] /\ p[2] <= p[1].last
                   /\ p = <<p[1], p[2]>>
  BY <1>2 DEF PairsOf, MonthCoverage
<1>4. \A p \in P : p[2] \in B
  <2> TAKE p \in P
  <2>1. p[1] \in SplitsCounted(l, r) /\ p[1].name = r
    BY <1>1, <1>3 DEF Exaggerated
  <2>2. p[2] \in p[1].first .. p[1].last
    BY <1>2, <1>3
  <2> QED BY <2>1, <2>2 DEF MonthsBuilt, SplitsCounted
<1>5. \A p, q \in P : p[2] = q[2] => p = q
  <2> TAKE p, q \in P
  <2>1. SUFFICES ASSUME p[2] = q[2]
                 PROVE  p[1] = q[1]
    BY <1>3
  <2>2. p[1] \in SplitsCounted(l, r) /\ q[1] \in SplitsCounted(l, r)
    BY <1>1, <1>3
  <2>3. p[1].first <= q[1].last /\ q[1].first <= p[1].last
    BY <1>2, <1>3, <2>1
  <2> QED BY <2>2, <2>3 DEF Exaggerated
<1>6. f \in Injection(P, B)
  <2>1. f \in [P -> B]
    BY <1>4
  <2> QED BY <1>5, <2>1 DEF Injection, IsInjective
<1>7. IsFiniteSet(B)
  BY BuiltIsFinite
<1> HIDE DEF P, B, C, f
<1>8. Cardinality(P) <= Cardinality(B)
  BY <1>6, <1>7, FS_Injection
<1> QED BY <1>8, CountIsPairs DEF P, B, C

-----------------------------------------------------------------------------
(* DatasetEvidence: what was covered stays covered.                           *)
\* The rows tell of a model's minimum only when its months were built.
LEMMA SatisfiedIsCovered ==
    ASSUME EvidenceAssumption, Tables, NEW e, WereRead(e), NEW l, MinimumSatisfied(e, l)
    PROVE  CoversMinimum(l)
<1> SUFFICES ASSUME NEW r \in Range(MinimumRoles), ~Exaggerated(l, r)
             PROVE  Cardinality(MonthsBuilt(l, r)) >= MinimumMonths[r]
  BY DEF CoversMinimum
<1>1. MonthCount(e, l, r) >= MinimumMonths[r]
  BY DEF MinimumSatisfied
<1>2. MonthCount(e, l, r) <= Cardinality(MonthsBuilt(l, r))
  BY CountIsReal
<1>3. MonthCount(e, l, r) \in Nat /\ Cardinality(MonthsBuilt(l, r)) \in Nat
  BY CountIsNumber, BuiltIsFinite
<1>4. MinimumMonths[r] \in Nat
  BY DEF EvidenceAssumption, SplitRoles
<1> QED BY <1>1, <1>2, <1>3, <1>4

\* A snapshot that has a place among the tables' rows has one after they grew.
LEMMA StaysAmong ==
    ASSUME Tables, Tables', TablesGrow, NEW x
    PROVE  (\E i \in 1 .. Len(snapshots) : snapshots[i] = x)
               => (\E i \in 1 .. Len(snapshots) : snapshots[i] = x)'
<1>1. (\E i \in 1 .. Len(snapshots) : snapshots[i] = x) => x \in Range(snapshots)
  BY InPlaces DEF Tables
<1>2. Range(snapshots) \subseteq Range(snapshots')
  BY DEF TablesGrow
<1>3. snapshots' \in Seq(SnapshotRows)
  BY DEF Tables
<1>4. \A y \in Range(snapshots') : \E i \in 1 .. Len(snapshots') : snapshots'[i] = y
  BY <1>3, InPlaces
<1> QED BY <1>1, <1>2, <1>4

LEMMA CountedGrow ==
    ASSUME Tables, Tables', TablesGrow, NEW l, NEW r
    PROVE  SplitsCounted(l, r) \subseteq SplitsCounted(l, r)'
<1> SUFFICES ASSUME NEW s \in SplitsCounted(l, r)
             PROVE  s \in SplitsCounted(l, r)'
  OBVIOUS
<1>1. s \in splits /\ RoleNamed[s.name] = r
      /\ \E i \in 1 .. Len(snapshots) : snapshots[i] = [id |-> s.snapshot, layer |-> l]
  BY DEF SplitsCounted
<1>2. \E i \in 1 .. Len(snapshots') : snapshots'[i] = [id |-> s.snapshot, layer |-> l]
  BY <1>1, StaysAmong
<1>3. s \in splits'
  BY <1>1 DEF TablesGrow
<1> QED BY <1>1, <1>2, <1>3 DEF SplitsCounted

LEMMA BuiltGrow ==
    ASSUME Tables, Tables', TablesGrow, NEW l, NEW r
    PROVE  MonthsBuilt(l, r) \subseteq MonthsBuilt(l, r)'
<1> SUFFICES ASSUME NEW month \in MonthsBuilt(l, r)
             PROVE  month \in MonthsBuilt(l, r)'
  OBVIOUS
<1>1. PICK s \in splits :
          /\ s.name = r /\ month \in s.first .. s.last
          /\ \E i \in 1 .. Len(snapshots) : snapshots[i] = [id |-> s.snapshot, layer |-> l]
  BY DEF MonthsBuilt
<1>2. \E i \in 1 .. Len(snapshots') : snapshots'[i] = [id |-> s.snapshot, layer |-> l]
  BY <1>1, StaysAmong
<1>3. s \in splits'
  BY <1>1 DEF TablesGrow
<1> QED BY <1>1, <1>2, <1>3 DEF MonthsBuilt

LEMMA CoverageGrows ==
    ASSUME EvidenceAssumption, Tables, Tables', TablesGrow, NEW l, CoversMinimum(l)
    PROVE  CoversMinimum(l)'
<1> SUFFICES ASSUME NEW r \in Range(MinimumRoles)
             PROVE  \/ Cardinality(MonthsBuilt(l, r)') >= MinimumMonths[r]
                    \/ Exaggerated(l, r)'
  BY DEF CoversMinimum
<1>1. \/ Cardinality(MonthsBuilt(l, r)) >= MinimumMonths[r]
      \/ Exaggerated(l, r)
  BY DEF CoversMinimum
<1>2. Exaggerated(l, r) => Exaggerated(l, r)'
  BY CountedGrow DEF Exaggerated
<1>3. Cardinality(MonthsBuilt(l, r)) <= Cardinality(MonthsBuilt(l, r)')
  <2>1. IsFiniteSet(MonthsBuilt(l, r)')
    BY BuiltIsFinite
  <2>2. MonthsBuilt(l, r) \in SUBSET (MonthsBuilt(l, r)')
    BY BuiltGrow
  <2> DEFINE B == MonthsBuilt(l, r)'
  <2> HIDE DEF B
  <2>3. Cardinality(MonthsBuilt(l, r)) <= Cardinality(B)
    BY <2>1, <2>2, FS_Subset DEF B
  <2> QED BY <2>3 DEF B
<1>4. Cardinality(MonthsBuilt(l, r)) \in Nat /\ Cardinality(MonthsBuilt(l, r)') \in Nat
  BY BuiltIsFinite
<1>5. MinimumMonths[r] \in Nat
  BY DEF EvidenceAssumption, SplitRoles
<1>6. Cardinality(MonthsBuilt(l, r)) >= MinimumMonths[r]
          => Cardinality(MonthsBuilt(l, r)') >= MinimumMonths[r]
  BY <1>3, <1>4, <1>5
<1> QED BY <1>1, <1>2, <1>6

\* A plan that was orderly stays so while the tables grow.
LEMMA OrderStays ==
    ASSUME EvidenceAssumption, Tables, Tables', TablesGrow, ExpansionIsOrderly,
           UNCHANGED <<expansion, prepared>>
    PROVE  ExpansionIsOrderly'
<1>1. \A l : CoversMinimum(l) => CoversMinimum(l)'
  BY CoverageGrows
<1>2. failures \subseteq failures'
  BY DEF TablesGrow
<1> QED BY <1>1, <1>2 DEF ExpansionIsOrderly

-----------------------------------------------------------------------------
(* DatasetEvidence: the decision.                                             *)
LEMMA MinimumRolesAre == Range(MinimumRoles) = {"train", "calibration", "validation", "test"}
<1>1. DOMAIN MinimumRoles = 1 .. 4
  BY DEF MinimumRoles
<1>2. Range(MinimumRoles) = {MinimumRoles[i] : i \in 1 .. 4}
  BY <1>1 DEF Range
<1>3. 1 .. 4 = {1, 2, 3, 4}
  OBVIOUS
<1> QED BY <1>2, <1>3 DEF MinimumRoles

LEMMA RolesInOrder ==
    LET order == Append(MinimumRoles, "forward_holdout")
    IN  /\ DOMAIN order = {1, 2, 3, 4, 5}
        /\ order[1] = "train" /\ order[2] = "calibration" /\ order[3] = "validation"
        /\ order[4] = "test" /\ order[5] = "forward_holdout"
<1> DEFINE m == MinimumRoles
           order == Append(m, "forward_holdout")
           N == {"train", "calibration", "validation", "test", "forward_holdout"}
<1>1. /\ m \in Seq(N) /\ Len(m) = 4
      /\ m[1] = "train" /\ m[2] = "calibration" /\ m[3] = "validation" /\ m[4] = "test"
  BY DEF MinimumRoles
<1>2. "forward_holdout" \in N
  OBVIOUS
<1> HIDE DEF m, N
<1>3. /\ order \in Seq(N) /\ Len(order) = 5 /\ order[5] = "forward_holdout"
      /\ \A i \in 1 .. 4 : order[i] = m[i]
  <2>1. order \in Seq(N)
    BY <1>1, <1>2, AppendProperties
  <2>3. Len(order) = Len(m) + 1
    BY <1>1, <1>2, AppendProperties
  <2>4. order[Len(m) + 1] = "forward_holdout"
    BY <1>1, <1>2, AppendProperties
  <2>5. \A i \in 1 .. Len(m) : order[i] = m[i]
    <3> TAKE i \in 1 .. Len(m)
    <3> QED BY <1>1, <1>2
  <2>2. Len(m) = 4 /\ Len(m) + 1 = 5
    BY <1>1
  <2> HIDE DEF order
  <2> QED BY <2>1, <2>2, <2>3, <2>4, <2>5
<1>4. DOMAIN order = 1 .. 5
  BY <1>3, LenProperties
<1>5. 1 .. 5 = {1, 2, 3, 4, 5} /\ 1 .. 4 = {1, 2, 3, 4}
  OBVIOUS
<1> HIDE DEF order
<1>6. /\ DOMAIN order = {1, 2, 3, 4, 5}
      /\ order[1] = "train" /\ order[2] = "calibration" /\ order[3] = "validation"
      /\ order[4] = "test" /\ order[5] = "forward_holdout"
  BY <1>1, <1>3, <1>4, <1>5
<1> QED BY <1>6 DEF order, m

\* The forward holdout comes first only when it is all that is wanted.
LEMMA ForwardIsLast ==
    ASSUME NEW roles \in SUBSET (Range(MinimumRoles) \cup {"forward_holdout"}),
           roles # {}, FirstRole(roles) = "forward_holdout"
    PROVE  roles = {"forward_holdout"}
<1> DEFINE order == Append(MinimumRoles, "forward_holdout")
           I == {i \in DOMAIN order : order[i] \in roles}
<1>1. /\ DOMAIN order = {1, 2, 3, 4, 5}
      /\ order[1] = "train" /\ order[2] = "calibration" /\ order[3] = "validation"
      /\ order[4] = "test" /\ order[5] = "forward_holdout"
  BY RolesInOrder
<1>2. Range(MinimumRoles) = {"train", "calibration", "validation", "test"}
  BY MinimumRolesAre
<1>3. FirstRole(roles) = order[Min(I)]
  BY DEF FirstRole
<1> HIDE DEF order
<1>4. I \in SUBSET Nat /\ I # {}
  BY <1>1, <1>2
<1>5. Min(I) \in I /\ \A x \in I : Min(I) <= x
  BY <1>4, LeastOf
<1>6. Min(I) = 5
  BY <1>1, <1>3, <1>5
<1>7. \A i \in {1, 2, 3, 4} : i \notin I
  BY <1>5, <1>6
<1>8. \A i \in {1, 2, 3, 4} : order[i] \notin roles
  BY <1>1, <1>7
<1>9. "train" \notin roles /\ "calibration" \notin roles /\ "validation" \notin roles
      /\ "test" \notin roles
  BY <1>1, <1>8
<1> QED BY <1>2, <1>9

\* With no minimum role short of months, a gap that asks for more of the future was
\* reported by an evaluation.
LEMMA ForwardWasReported ==
    ASSUME EvidenceAssumption, Tables, NEW e, WereRead(e), NEW l, MinimumSatisfied(e, l),
           PromotionGaps(e, l) \cap ForwardGaps # {}
    PROVE  \E f \in failures : f.run.layer = l
<1>1. \A r \in Range(MinimumRoles) : MonthCount(e, l, r) > 0
  <2> TAKE r \in Range(MinimumRoles)
  <2>1. MonthCount(e, l, r) \in Nat /\ MonthCount(e, l, r) >= MinimumMonths[r]
    BY CountIsNumber DEF MinimumSatisfied
  <2>2. MinimumMonths[r] \in Nat \ {0}
    BY DEF EvidenceAssumption, SplitRoles
  <2> QED BY <2>1, <2>2
<1>2. \A r \in Range(MinimumRoles) : RoleGap(e, l, r) \cap ForwardGaps = {}
  <2> TAKE r \in Range(MinimumRoles)
  <2>1. MonthCount(e, l, r) # 0
    BY <1>1, CountIsNumber
  <2>2. RoleGap(e, l, r) \in {{}, {"missing_labels"}, {"missing_eval_run"}}
    BY <2>1 DEF RoleGap
  <2> QED BY <2>2 DEF ForwardGaps
<1>3. SnapshotsOf(e, l) # {}
  <2> SUFFICES ASSUME SnapshotsOf(e, l) = {}
               PROVE  FALSE
    OBVIOUS
  <2>1. "train" \in Range(MinimumRoles)
    BY MinimumRolesAre
  <2>2. PairsOf(CountedIn(e, l, "train")) = {}
    BY DEF PairsOf, CountedIn
  <2>3. MonthCount(e, l, "train") = 0
    BY <2>2, CountIsPairs, FS_EmptySet
  <2> QED BY <1>1, <2>1, <2>3
<1>4. PICK gap \in PromotionGaps(e, l) : gap \in ForwardGaps
  OBVIOUS
<1>5. gap \in MetricGaps(e, l)
  BY <1>2, <1>3, <1>4 DEF PromotionGaps
<1> QED BY <1>5 DEF MetricGaps, WereRead

\* Where a model lacks months it is built upon models that do not, or one of those is
\* asked for first: with nothing wanted no model lacks any.
LEMMA NothingWanted ==
    ASSUME EvidenceAssumption, Tables, NEW e, WereRead(e), LayersWanting(e) = {}
    PROVE  \A l \in ModelLayers : MinimumSatisfied(e, l)
<1> DEFINE S == {l \in ModelLayers : ~MinimumSatisfied(e, l)}
<1> SUFFICES ASSUME S # {}
             PROVE  FALSE
  OBVIOUS
<1>1. S \in SUBSET Nat
  BY DEF EvidenceAssumption
<1>2. PICK m \in S : \A x \in S : m <= x
  BY <1>1, LeastOf
<1>3. UpstreamReady(e, m)
  <2> SUFFICES ASSUME NEW d \in DependsOn[m], ~MinimumSatisfied(e, d)
               PROVE  FALSE
    BY DEF UpstreamReady
  <2>1. d \in ModelLayers /\ d < m /\ d \in Nat /\ m \in Nat
    BY DEF EvidenceAssumption
  <2> QED BY <1>2, <2>1
<1>4. PICK r \in Range(MinimumRoles) : ~(MonthCount(e, m, r) >= MinimumMonths[r])
  BY DEF MinimumSatisfied
<1>5. MonthCount(e, m, r) \in Nat /\ MinimumMonths[r] \in Nat
  BY CountIsNumber DEF EvidenceAssumption, SplitRoles
<1>6. r \in RolesWanted(e, m)
  BY <1>4, <1>5 DEF RolesWanted
<1> QED BY <1>3, <1>6 DEF LayersWanting

\* A plan is orderly when it is written.
LEMMA PlanIsOrderly ==
    ASSUME EvidenceAssumption, Tables, WereRead(evidence), NEW named \in BOOLEAN,
           PlanExpansion(named), Tables', TablesGrow
    PROVE  ExpansionIsOrderly'
<1> DEFINE plan == PlanFor(evidence, named)
           wanting == LayersWanting(evidence)
<1>1. expansion' = plan
  BY DEF PlanExpansion
<1>2. \A l : MinimumSatisfied(evidence, l) => CoversMinimum(l)'
  BY SatisfiedIsCovered, CoverageGrows
<1>3. CASE wanting = {}
  <2>1. plan.status = "not_applicable"
    BY <1>3 DEF PlanFor
  <2>2. \A l \in ModelLayers : CoversMinimum(l)'
    BY <1>2, <1>3, NothingWanted
  <2> QED BY <1>1, <2>1, <2>2 DEF ExpansionIsOrderly
<1>4. CASE wanting # {}
  <2>1. PICK l \in wanting : l = Min(wanting)
    <3>1. wanting \in SUBSET Nat
      BY DEF LayersWanting, EvidenceAssumption
    <3> QED BY <1>4, <3>1, LeastOf
  <2>2. /\ plan.status \in {"blocked", "prepared"} /\ plan.layer = l
        /\ plan.role = FirstRole(RolesWanted(evidence, l))
    BY <1>4, <2>1 DEF PlanFor
  <2>3. UpstreamReady(evidence, l) /\ RolesWanted(evidence, l) # {}
    BY DEF LayersWanting
  <2>4. \A d \in DependsOn[l] : CoversMinimum(d)'
    BY <1>2, <2>3 DEF UpstreamReady
  <2>5. l = 1 => prepared'
    BY <2>2 DEF PlanExpansion
  <2>6. ASSUME plan.role = "forward_holdout"
        PROVE  CoversMinimum(l)' /\ \E f \in failures' : f.run.layer = l
    <3>1. RolesWanted(evidence, l) = {"forward_holdout"}
      BY <2>2, <2>3, <2>6, ForwardIsLast DEF RolesWanted
    <3>2. PromotionGaps(evidence, l) \cap ForwardGaps # {}
      BY <3>1, MinimumRolesAre DEF RolesWanted
    <3>3. MinimumSatisfied(evidence, l)
      <4> SUFFICES ASSUME NEW r \in Range(MinimumRoles)
                   PROVE  MonthCount(evidence, l, r) >= MinimumMonths[r]
        BY DEF MinimumSatisfied
      <4>1. ~(MonthCount(evidence, l, r) < MinimumMonths[r])
        BY <3>1, MinimumRolesAre DEF RolesWanted
      <4>2. MonthCount(evidence, l, r) \in Nat /\ MinimumMonths[r] \in Nat
        BY CountIsNumber DEF EvidenceAssumption, SplitRoles
      <4> QED BY <4>1, <4>2
    <3>4. PICK f \in failures : f.run.layer = l
      BY <3>2, <3>3, ForwardWasReported
    <3> QED BY <1>2, <3>3, <3>4 DEF TablesGrow
  <2> HIDE DEF plan
  <2> QED BY <1>1, <2>2, <2>4, <2>5, <2>6 DEF ExpansionIsOrderly
<1> QED BY <1>3, <1>4

-----------------------------------------------------------------------------
(* DatasetEvidence: the gaps.                                                 *)
\* A role with months is the role of a snapshot of the model, and labels and evaluations
\* are looked for at the first of those.
LEMMA RefIsFirst ==
    ASSUME Tables, NEW e, WereRead(e), NEW l, NEW r, MonthCount(e, l, r) # 0
    PROVE  \E i \in PlacesOf(e, l, r) : /\ SnapshotRef(e, l, r) = e.snapshots[i].id
                                        /\ \A j \in PlacesOf(e, l, r) : i <= j
<1>1. CountedIn(e, l, r) # {}
  <2> SUFFICES ASSUME CountedIn(e, l, r) = {}
               PROVE  FALSE
    OBVIOUS
  <2>1. PairsOf(CountedIn(e, l, r)) = {}
    BY DEF PairsOf
  <2> QED BY <2>1, CountIsPairs, FS_EmptySet
<1>2. PICK t \in SnapshotsOf(e, l) : SplitsIn(e, t.id, r) # {}
  BY <1>1 DEF CountedIn
<1>3. e.snapshots \in Seq(SnapshotRows) /\ t \in Range(e.snapshots)
  BY <1>2 DEF WereRead, SnapshotsOf
<1>4. PICK i \in 1 .. Len(e.snapshots) : e.snapshots[i] = t
  BY <1>3, InPlaces
<1>5. i \in PlacesOf(e, l, r)
  BY <1>2, <1>4 DEF PlacesOf
<1>6. PlacesOf(e, l, r) \in SUBSET Nat
  BY DEF PlacesOf
<1>7. /\ Min(PlacesOf(e, l, r)) \in PlacesOf(e, l, r)
      /\ \A j \in PlacesOf(e, l, r) : Min(PlacesOf(e, l, r)) <= j
  BY <1>5, <1>6, LeastOf
<1> QED BY <1>5, <1>7 DEF SnapshotRef

LEMMA GapsExplained ==
    ASSUME Tables, WereRead(evidence)
    PROVE  GapsAreExplained
<1> SUFFICES ASSUME NEW l \in ModelLayers, SnapshotsOf(evidence, l) # {},
                    NEW r \in {"validation", "test"}
             PROVE  LET places == PlacesOf(evidence, l, r)
                        id(i) == evidence.snapshots[i].id
                    IN  /\ PromotionGaps(evidence, l) = {} =>
                               \E i \in places : /\ id(i) \in labelled
                                                 /\ \E run \in evalRuns :
                                                        run.snapshot = id(i) /\ run.ok
                        /\ "missing_labels" \in RoleGap(evidence, l, r) =>
                               \E i \in places : /\ id(i) \notin evidence.labelled
                                                 /\ \A j \in places :
                                                        id(j) \in evidence.labelled => i < j
  BY DEF GapsAreExplained
<1> DEFINE places == PlacesOf(evidence, l, r)
           id(i) == evidence.snapshots[i].id
           ref == SnapshotRef(evidence, l, r)
<1>1. r \in Range(MinimumRoles) /\ r # "train"
  BY MinimumRolesAre
<1>2. MonthCount(evidence, l, r) \in Nat
  BY CountIsNumber
<1>3. evidence.labelled \subseteq labelled /\ evidence.evalRuns \subseteq evalRuns
  BY DEF WereRead
<1>4. places \subseteq Nat
  BY DEF PlacesOf
<1>5. ASSUME PromotionGaps(evidence, l) = {}
      PROVE  \E i \in places : /\ id(i) \in labelled
                               /\ \E run \in evalRuns : run.snapshot = id(i) /\ run.ok
  <2>1. RoleGap(evidence, l, r) = {}
    BY <1>1, <1>5 DEF PromotionGaps
  <2>2. MonthCount(evidence, l, r) # 0
    BY <2>1 DEF RoleGap
  <2>3. MonthCount(evidence, l, r) > 0
    BY <1>2, <2>2
  <2>4. HasLabels(evidence, l, r)
    BY <1>1, <2>1, <2>2, <2>3 DEF RoleGap
  <2>5. HasEvaluation(evidence, l, r)
    BY <1>1, <2>1, <2>2, <2>3, <2>4 DEF RoleGap
  <2>6. PICK i \in places : ref = id(i)
    BY <2>2, RefIsFirst
  <2> QED BY <1>3, <2>4, <2>5, <2>6 DEF HasLabels, HasEvaluation
<1>6. ASSUME "missing_labels" \in RoleGap(evidence, l, r)
      PROVE  \E i \in places : /\ id(i) \notin evidence.labelled
                               /\ \A j \in places : id(j) \in evidence.labelled => i < j
  <2>1. MonthCount(evidence, l, r) # 0
    BY <1>6 DEF RoleGap
  <2>2. ~HasLabels(evidence, l, r)
    BY <1>6, <2>1 DEF RoleGap
  <2>3. PICK i \in places : ref = id(i) /\ \A j \in places : i <= j
    BY <2>1, RefIsFirst
  <2>4. id(i) \notin evidence.labelled
    BY <2>2, <2>3 DEF HasLabels
  <2>5. ASSUME NEW j \in places, id(j) \in evidence.labelled
        PROVE  i < j
    <3>1. i <= j /\ i # j
      BY <2>3, <2>4, <2>5
    <3>2. i \in Nat /\ j \in Nat
      BY <1>4
    <3> QED BY <3>1, <3>2
  <2> QED BY <2>4, <2>5
<1> QED BY <1>5, <1>6

\* Months that were read were built, unless they are counted more than once.
LEMMA MonthsReal ==
    ASSUME Tables, WereRead(evidence)
    PROVE  MonthsAreReal
<1> SUFFICES ASSUME NEW l \in ModelLayers, NEW r \in SplitRoles,
                    MonthCount(evidence, l, r) > Cardinality(MonthsBuilt(l, r)),
                    ~Exaggerated(l, r)
             PROVE  FALSE
  BY DEF MonthsAreReal
<1>1. MonthCount(evidence, l, r) <= Cardinality(MonthsBuilt(l, r))
  BY CountIsReal
<1>2. MonthCount(evidence, l, r) \in Nat /\ Cardinality(MonthsBuilt(l, r)) \in Nat
  BY CountIsNumber, BuiltIsFinite
<1> QED BY <1>1, <1>2

-----------------------------------------------------------------------------
(* DatasetEvidence: the steps.                                                *)
\* A row that is written again keeps its place among the rows, at their end.
LEMMA Rewritten ==
    ASSUME NEW S, NEW s \in Seq(S), NEW i \in 1 .. Len(s)
    PROVE  /\ Append(RemoveAt(s, i), s[i]) \in Seq(S)
           /\ Range(s) \subseteq Range(Append(RemoveAt(s, i), s[i]))
<1> DEFINE front == SubSeq(s, 1, i - 1)
           back == SubSeq(s, i + 1, Len(s))
           rest == front \o back
           new == Append(rest, s[i])
<1>1. Len(s) \in Nat /\ i \in Nat /\ s[i] \in S /\ RemoveAt(s, i) = rest
  BY DEF RemoveAt
<1>2. /\ front \in Seq(S) /\ Len(front) = i - 1
      /\ \A k \in 1 .. (i - 1) : front[k] = s[k]
  BY <1>1
<1>3. /\ back \in Seq(S) /\ Len(back) = Len(s) - i
      /\ \A k \in 1 .. (Len(s) - i) : back[k] = s[i + k]
  BY <1>1
<1> HIDE DEF front, back
<1>4. /\ rest \in Seq(S) /\ Len(rest) = Len(front) + Len(back)
      /\ \A k \in 1 .. (Len(front) + Len(back)) :
            rest[k] = IF k <= Len(front) THEN front[k] ELSE back[k - Len(front)]
  BY <1>2, <1>3, ConcatProperties, Zenon
<1>5. Len(rest) = Len(s) - 1
  BY <1>1, <1>2, <1>3, <1>4
<1> HIDE DEF rest
<1>6. new \in Seq(S) /\ Len(new) = Len(s) /\ new[Len(s)] = s[i]
  BY <1>1, <1>4, <1>5
<1>7. \A k \in 1 .. (Len(s) - 1) : new[k] = rest[k]
  <2> TAKE k \in 1 .. (Len(s) - 1)
  <2> QED BY <1>1, <1>4, <1>5
<1> HIDE DEF new
<1>8. \A k \in 1 .. Len(s) : \E j \in 1 .. Len(s) : new[j] = s[k]
  <2> TAKE k \in 1 .. Len(s)
  <2>1. CASE k < i
    <3>1. k \in 1 .. (i - 1) /\ k \in 1 .. (Len(s) - 1) /\ k \in 1 .. (Len(front) + Len(back))
          /\ k <= Len(front)
      BY <1>1, <1>2, <1>3, <2>1
    <3> QED BY <1>2, <1>4, <1>7, <3>1
  <2>2. CASE k = i
    <3>1. Len(s) \in 1 .. Len(s)
      BY <1>1
    <3> QED BY <1>6, <2>2, <3>1
  <2>3. CASE k > i
    <3>1. PICK j \in 1 .. (Len(s) - 1) : j = k - 1
      BY <1>1, <2>3
    <3>2. /\ j \in 1 .. (Len(front) + Len(back)) /\ ~(j <= Len(front)) /\ j \in 1 .. Len(s)
          /\ j - Len(front) \in 1 .. (Len(s) - i) /\ i + (j - Len(front)) = k
      BY <1>1, <1>2, <1>3, <2>3, <3>1
    <3>3. new[j] = back[j - Len(front)]
      BY <1>4, <1>7, <3>2
    <3>4. back[j - Len(front)] = s[i + (j - Len(front))]
      BY <1>3, <3>2
    <3> QED BY <3>2, <3>3, <3>4
  <2>4. k < i \/ k = i \/ k > i
    BY <1>1
  <2> QED BY <2>1, <2>2, <2>3, <2>4
<1>9. Range(s) \subseteq Range(new)
  <2>1. \A x \in Range(s) : \E k \in 1 .. Len(s) : s[k] = x
    BY InPlaces
  <2>2. \A j \in 1 .. Len(s) : new[j] \in Range(new)
    BY <1>6, InPlaces
  <2> QED BY <1>8, <2>1, <2>2
<1> QED BY <1>1, <1>6, <1>9 DEF new

\* What the model components do adds to the tables,
LEMMA TablesOnlyGrow ==
    ASSUME EvidenceAssumption, Tables, BuildDatasets
    PROVE  Tables' /\ TablesGrow
<1>0. snapshots \in Seq(SnapshotRows) /\ splits \subseteq SplitRows /\ IsFiniteSet(splits)
  BY DEF Tables
<1>1. ASSUME NEW l \in ModelLayers, NEW shape \in Shapes, BuildSnapshot(l, shape)
      PROVE  Tables' /\ TablesGrow
  <2> DEFINE id == Len(snapshots) + 1
             row == [id |-> id, layer |-> l]
             f == [s \in shape |-> [snapshot |-> id, name |-> s.name, first |-> s.first,
                                    last |-> s.last]]
             new == {[snapshot |-> id, name |-> s.name, first |-> s.first,
                      last |-> s.last] : s \in shape}
  <2>1. id \in Nat /\ row \in SnapshotRows
    BY <1>0 DEF SnapshotRows
  <2>2. snapshots' = Append(snapshots, row) /\ splits' = splits \cup new
        /\ UNCHANGED <<labelled, evalRuns, failures>>
    BY <1>1 DEF BuildSnapshot
  <2>3. IsFiniteSet(shape) /\ \A s \in shape : s \in [name : SplitNames, first : Int, last : Int]
    BY DEF EvidenceAssumption
  <2>4. new \subseteq SplitRows
    BY <2>1, <2>3 DEF SplitRows
  <2>5. IsFiniteSet(new)
    <3>1. f \in Surjection(shape, new)
      BY DEF Surjection
    <3> HIDE DEF f, new
    <3> QED BY <2>3, <3>1, FS_Surjection
  <2> HIDE DEF new, row
  <2>6. IsFiniteSet(splits')
    BY <1>0, <2>2, <2>5, FS_Union
  <2>7. snapshots' \in Seq(SnapshotRows) /\ Range(snapshots) \subseteq Range(snapshots')
    <3>1. /\ Append(snapshots, row) \in Seq(SnapshotRows)
          /\ Len(Append(snapshots, row)) = Len(snapshots) + 1
      BY <1>0, <2>1
    <3>2. \A i \in 1 .. Len(snapshots) : Append(snapshots, row)[i] = snapshots[i]
      <4> TAKE i \in 1 .. Len(snapshots)
      <4> QED BY <1>0, <2>1
    <3> DEFINE longer == Append(snapshots, row)
    <3>3. longer = snapshots'
      BY <2>2
    <3> HIDE DEF longer
    <3>4. \A x \in Range(snapshots) : \E i \in 1 .. Len(snapshots) : snapshots[i] = x
      BY <1>0, InPlaces
    <3>5. \A i \in 1 .. Len(longer) : longer[i] \in Range(longer)
      BY <3>1, InPlaces DEF longer
    <3>6. \A i \in 1 .. Len(snapshots) : i \in 1 .. Len(longer) /\ longer[i] = snapshots[i]
      BY <1>0, <3>1, <3>2 DEF longer
    <3>7. Range(snapshots) \subseteq Range(longer)
      BY <3>4, <3>5, <3>6
    <3> QED BY <3>1, <3>3, <3>7 DEF longer
  <2> QED BY <1>0, <2>2, <2>4, <2>6, <2>7 DEF Tables, TablesGrow
<1>2. ASSUME NEW i \in 1 .. Len(snapshots), RewriteSnapshot(i)
      PROVE  Tables' /\ TablesGrow
  <2>1. /\ snapshots' \in Seq(SnapshotRows) /\ Range(snapshots) \subseteq Range(snapshots')
        /\ UNCHANGED <<splits, labelled, evalRuns, failures>>
    BY <1>0, <1>2, Rewritten DEF RewriteSnapshot
  <2> QED BY <1>0, <2>1 DEF Tables, TablesGrow
<1>3. ASSUME \/ \E i \in 1 .. Len(snapshots) :
                    \/ LabelSnapshot(snapshots[i].id)
                    \/ \E ok \in BOOLEAN : EvaluateSnapshot(snapshots[i], ok)
             \/ \E run \in evalRuns : ReportFailure(run, "drift")
      PROVE  Tables' /\ TablesGrow
  <2>1. UNCHANGED <<snapshots, splits>>
        /\ labelled \subseteq labelled' /\ evalRuns \subseteq evalRuns'
        /\ failures \subseteq failures'
    BY <1>3 DEF LabelSnapshot, EvaluateSnapshot, ReportFailure
  <2> QED BY <1>0, <2>1 DEF Tables, TablesGrow
<1> QED BY <1>1, <1>2, <1>3 DEF BuildDatasets

\* so that what was read of them is still in them.
LEMMA StaysRead ==
    ASSUME TablesGrow, NEW e, WereRead(e)
    PROVE  /\ e = [snapshots |-> e.snapshots, splits |-> e.splits, labelled |-> e.labelled,
                   evalRuns |-> e.evalRuns, failures |-> e.failures]
           /\ e.snapshots \in Seq(SnapshotRows) /\ Range(e.snapshots) \subseteq Range(snapshots')
           /\ e.splits \subseteq splits' /\ e.labelled \subseteq labelled'
           /\ e.evalRuns \subseteq evalRuns' /\ e.failures \subseteq failures'
BY DEF WereRead, TablesGrow

LEMMA EvidenceStarts ==
    ASSUME EvidenceInit
    PROVE  EvidenceInv
<1>1. Tables
  BY FS_EmptySet DEF EvidenceInit, Tables
<1>2. WereRead(NoRows)
  BY DEF WereRead, NoRows, EvidenceInit, Range
<1>3. query \in 0 .. 5 /\ rows = NoRows /\ evidence = NoRows /\ expansion.status = "none"
  BY DEF EvidenceInit, NoPlan
<1>4. ExpansionIsOrderly
  BY <1>3 DEF ExpansionIsOrderly
<1> QED BY <1>1, <1>2, <1>3, <1>4 DEF EvidenceInv

LEMMA EvidenceSteps ==
    ASSUME EvidenceAssumption, EvidenceInv, [EvidenceNext]_evidenceVars
    PROVE  EvidenceInv'
<1>0. Tables /\ query \in 0 .. 5 /\ WereRead(rows) /\ WereRead(evidence) /\ ExpansionIsOrderly
  BY DEF EvidenceInv
<1>1. ASSUME UNCHANGED evidenceTables
      PROVE  Tables' /\ TablesGrow
  BY <1>0, <1>1 DEF evidenceTables, Tables, TablesGrow
<1>2. ASSUME TablesGrow, NEW e, WereRead(e), rows' = e
      PROVE  WereRead(rows)'
  BY <1>2, StaysRead DEF WereRead
<1>3. ASSUME TablesGrow, NEW e, WereRead(e), evidence' = e
      PROVE  WereRead(evidence)'
  BY <1>3, StaysRead DEF WereRead
<1>4. WereRead(NoRows)
  BY <1>0 DEF WereRead, NoRows, Range
<1>5. CASE BuildDatasets
  <2>1. Tables' /\ TablesGrow
    BY <1>0, <1>5, TablesOnlyGrow
  <2>2. UNCHANGED <<query, rows, evidence, expansion, prepared>>
    BY <1>5 DEF BuildDatasets
  <2>3. ExpansionIsOrderly'
    BY <1>0, <2>1, <2>2, OrderStays
  <2> QED BY <1>0, <1>2, <1>3, <2>1, <2>2, <2>3 DEF EvidenceInv
<1>6. CASE StartCollection
  <2>1. Tables' /\ TablesGrow
    BY <1>1, <1>6 DEF StartCollection
  <2>2. UNCHANGED <<evidence, expansion, prepared>> /\ query' = 1
        /\ rows' = [NoRows EXCEPT !.snapshots = snapshots]
    BY <1>6 DEF StartCollection
  <2>3. ExpansionIsOrderly'
    BY <1>0, <2>1, <2>2, OrderStays
  <2>4. WereRead(rows')
    BY <1>0, <1>4, <2>2 DEF WereRead, Tables
  <2> QED BY <1>0, <1>2, <1>3, <2>1, <2>2, <2>3, <2>4 DEF EvidenceInv
<1>7. CASE QueryTable
  <2>1. Tables' /\ TablesGrow
    BY <1>1, <1>7 DEF QueryTable
  <2>2. UNCHANGED <<evidence, expansion, prepared>> /\ query \in 1 .. 4 /\ query' = query + 1
    BY <1>7 DEF QueryTable
  <2>3. ExpansionIsOrderly'
    BY <1>0, <2>1, <2>2, OrderStays
  <2>4. \/ rows' = [rows EXCEPT !.splits = splits]
        \/ rows' = [rows EXCEPT !.labelled = labelled]
        \/ rows' = [rows EXCEPT !.evalRuns = evalRuns]
        \/ rows' = [rows EXCEPT !.failures = failures]
    <3>1. query \in {1, 2, 3, 4}
      BY <2>2
    <3> QED BY <1>7, <3>1 DEF QueryTable
  <2>5. WereRead(rows')
    BY <1>0, <2>4 DEF WereRead
  <2>6. query' \in 0 .. 5
    BY <2>2
  <2> QED BY <1>0, <1>2, <1>3, <2>1, <2>2, <2>3, <2>5, <2>6 DEF EvidenceInv
<1>8. CASE WriteEvidence
  <2>1. Tables' /\ TablesGrow
    BY <1>1, <1>8 DEF WriteEvidence
  <2>2. UNCHANGED <<expansion, prepared>> /\ query' = 0 /\ rows' = NoRows /\ evidence' = rows
    BY <1>8 DEF WriteEvidence
  <2>3. ExpansionIsOrderly'
    BY <1>0, <2>1, <2>2, OrderStays
  <2> QED BY <1>0, <1>2, <1>3, <1>4, <2>1, <2>2, <2>3 DEF EvidenceInv
<1>9. ASSUME NEW named \in BOOLEAN, PlanExpansion(named)
      PROVE  EvidenceInv'
  <2>1. Tables' /\ TablesGrow
    BY <1>1, <1>9 DEF PlanExpansion
  <2>2. UNCHANGED <<query, rows, evidence>>
    BY <1>9 DEF PlanExpansion
  <2>3. ExpansionIsOrderly'
    BY <1>0, <1>9, <2>1, PlanIsOrderly
  <2> QED BY <1>0, <1>2, <1>3, <2>1, <2>2, <2>3 DEF EvidenceInv
<1>10. CASE UNCHANGED evidenceVars
  <2>1. UNCHANGED evidenceTables /\ UNCHANGED <<query, rows, evidence, expansion, prepared>>
    BY <1>10 DEF evidenceVars, evidenceTables
  <2>2. Tables' /\ TablesGrow
    BY <1>1, <2>1
  <2>3. ExpansionIsOrderly'
    BY <1>0, <2>1, <2>2, OrderStays
  <2> QED BY <1>0, <1>2, <1>3, <2>1, <2>2, <2>3 DEF EvidenceInv
<1> QED BY <1>5, <1>6, <1>7, <1>8, <1>9, <1>10 DEF EvidenceNext, InformationPass

\* What the manager believes of the datasets, and the expansion it asks for, is explained
\* by what was built, at any time and for any tables, shapes and models.
THEOREM EvidenceStaysExplained == EvidenceSpec => []EvidenceIsExplained
<1>1. EvidenceInit => EvidenceInv
  BY EvidenceStarts
<1>2. EvidenceInv /\ [EvidenceNext]_evidenceVars => EvidenceInv'
  BY EvidenceSteps, EvidenceAssumption
<1>3. EvidenceInv => EvidenceIsExplained
  BY MonthsReal, GapsExplained DEF EvidenceInv, EvidenceIsExplained
<1> QED BY <1>1, <1>2, <1>3, PTL DEF EvidenceSpec
=============================================================================
