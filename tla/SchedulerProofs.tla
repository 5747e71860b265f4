---------------------------- MODULE SchedulerProofs ----------------------------
(* SchedulerLock for any set of processes: its types, that a lock is exclusive*)
(* until a replacement has unlinked a live owner's file, and that a release   *)
(* removes nobody else's file before that.  SchedulerLoop for any targets and *)
(* any number of writes by hand: the loop rotates only after a hand did.      *)
(* TaskTimeline for any folds, layers and bounds: the list of tasks that is   *)
(* made of five files which change meanwhile is explained by what was read.   *)
EXTENDS SchedulerLock, SchedulerLoop, TaskTimeline, TLAPS, FiniteSetTheorems,
        WellFoundedInduction

\* What an owner may count on while no replacement has gone wrong: the path
\* still names the file it created, and its pid is in it once it has written
\* it.  Exclusion alone is not inductive: it does not say what a process that
\* creates or unlinks the file finds there.
OwnFile ==
    ~usurped => \A p \in Proc : Owning(p) =>
        /\ lock.owner = p
        /\ lock.phase = IF pc[p] = "write" THEN "empty" ELSE "written"

-----------------------------------------------------------------------------
\* What an exclusive create leaves is a lock file.
LEMMA CreatedIsALock == \A p \in Proc : Created(p) \in Locks
BY DEF Created, Locks

\* Every reachable state has the types of TypeOK.
THEOREM TypeCorrect == Spec => []TypeOK
<1>1. Init => TypeOK
  <2> SUFFICES ASSUME Init PROVE TypeOK
    OBVIOUS
  <2>1. lock \in Locks
    BY DEF Init, Absent, Locks
  <2>2. pc \in [Proc -> {"idle", "inspect", "probe", "replace", "recreate",
                         "write", "held", "dead"}]
    BY DEF Init
  <2>3. seen \in [Proc -> Proc \cup {NoProc}] /\ usurped \in BOOLEAN
    BY DEF Init
  <2>4. QED
    BY <2>1, <2>2, <2>3 DEF TypeOK
<1>2. TypeOK /\ [Next]_vars => TypeOK'
  <2> SUFFICES ASSUME TypeOK, [Next]_vars PROVE TypeOK'
    OBVIOUS
  <2> USE DEF TypeOK, Goto
  <2>1. CASE GrowOld
    BY <2>1 DEF GrowOld, Locks
  <2>2. ASSUME NEW p \in Proc, Create(p) PROVE TypeOK'
    BY <2>2, CreatedIsALock DEF Create
  <2>3. ASSUME NEW p \in Proc, Inspect(p) PROVE TypeOK'
    BY <2>3 DEF Inspect, Locks
  <2>4. ASSUME NEW p \in Proc, Probe(p) PROVE TypeOK'
    BY <2>4 DEF Probe
  <2>5. ASSUME NEW p \in Proc, Unlink(p) PROVE TypeOK'
    BY <2>5 DEF Unlink, Absent, Locks
  <2>6. ASSUME NEW p \in Proc, Recreate(p) PROVE TypeOK'
    BY <2>6, CreatedIsALock DEF Recreate
  <2>7. ASSUME NEW p \in Proc, Write(p) PROVE TypeOK'
    BY <2>7 DEF Write, Locks
  <2>8. ASSUME NEW p \in Proc, Release(p) PROVE TypeOK'
    BY <2>8 DEF Release, Absent, Locks
  <2>9. ASSUME NEW p \in Proc, Die(p) PROVE TypeOK'
    BY <2>9 DEF Die
  <2>10. CASE UNCHANGED vars
    BY <2>10 DEF vars
  <2>11. QED
    BY <2>1, <2>2, <2>3, <2>4, <2>5, <2>6, <2>7, <2>8, <2>9, <2>10 DEF Next, Step
<1>3. QED
  BY <1>1, <1>2, PTL DEF Spec

-----------------------------------------------------------------------------
\* OwnFile is kept by every step.  The history variable never goes back, so the
\* hypothesis of OwnFile' gives the one of OwnFile.
LEMMA OwnFileStep == TypeOK /\ OwnFile /\ [Next]_vars => OwnFile'
<1> SUFFICES ASSUME TypeOK, OwnFile, [Next]_vars, ~usurped',
                    NEW q \in Proc, Owning(q)'
             PROVE  /\ lock'.owner = q
                    /\ lock'.phase = IF pc'[q] = "write" THEN "empty" ELSE "written"
  BY DEF OwnFile
<1> USE DEF TypeOK, OwnFile, Owning, Goto
<1>1. CASE GrowOld
  BY <1>1 DEF GrowOld, Locks
<1>2. ASSUME NEW p \in Proc, Create(p)
      PROVE  /\ lock'.owner = q
             /\ lock'.phase = IF pc'[q] = "write" THEN "empty" ELSE "written"
  BY <1>2 DEF Create, Created
<1>3. ASSUME NEW p \in Proc, Inspect(p)
      PROVE  /\ lock'.owner = q
             /\ lock'.phase = IF pc'[q] = "write" THEN "empty" ELSE "written"
  BY <1>3 DEF Inspect
<1>4. ASSUME NEW p \in Proc, Probe(p)
      PROVE  /\ lock'.owner = q
             /\ lock'.phase = IF pc'[q] = "write" THEN "empty" ELSE "written"
  BY <1>4 DEF Probe
<1>5. ASSUME NEW p \in Proc, Unlink(p)
      PROVE  /\ lock'.owner = q
             /\ lock'.phase = IF pc'[q] = "write" THEN "empty" ELSE "written"
  <2>1. Owning(q) /\ lock.owner = q /\ lock.phase # "absent"
    BY <1>5 DEF Unlink
  <2>2. usurped'
    BY <1>5, <2>1 DEF Unlink
  <2>3. QED
    BY <2>2
<1>6. ASSUME NEW p \in Proc, Recreate(p)
      PROVE  /\ lock'.owner = q
             /\ lock'.phase = IF pc'[q] = "write" THEN "empty" ELSE "written"
  BY <1>6 DEF Recreate, Created
<1>7. ASSUME NEW p \in Proc, Write(p)
      PROVE  /\ lock'.owner = q
             /\ lock'.phase = IF pc'[q] = "write" THEN "empty" ELSE "written"
  BY <1>7 DEF Write
<1>8. ASSUME NEW p \in Proc, Release(p)
      PROVE  /\ lock'.owner = q
             /\ lock'.phase = IF pc'[q] = "write" THEN "empty" ELSE "written"
  BY <1>8 DEF Release
<1>9. ASSUME NEW p \in Proc, Die(p)
      PROVE  /\ lock'.owner = q
             /\ lock'.phase = IF pc'[q] = "write" THEN "empty" ELSE "written"
  BY <1>9 DEF Die, Alive
<1>10. CASE UNCHANGED vars
  BY <1>10 DEF vars
<1>11. QED
  BY <1>1, <1>2, <1>3, <1>4, <1>5, <1>6, <1>7, <1>8, <1>9, <1>10 DEF Next, Step

\* An owner has its own file until a replacement has gone wrong.
THEOREM OwnersHaveTheirFile == Spec => []OwnFile
<1>1. Init => OwnFile
  BY DEF Init, OwnFile, Owning
<1>2. QED
  BY <1>1, TypeCorrect, OwnFileStep, PTL DEF Spec

-----------------------------------------------------------------------------
\* The lock of scheduler_locks.py is exclusive, for any number of processes and
\* any interleaving of creates, releases, deaths and replacements, unless a
\* replacement unlinks the file of a live owner between its look and its unlink.
THEOREM ExclusiveLock == Spec => []ExclusiveUnlessUsurped
<1>1. OwnFile => ExclusiveUnlessUsurped
  BY DEF OwnFile, ExclusiveUnlessUsurped
<1>2. QED
  BY <1>1, OwnersHaveTheirFile, PTL

\* A release removes the file of the process that releases, until then.
THEOREM ReleaseIsOwn == Spec => ReleaseRemovesOwnFile
<1> DEFINE A == \A p \in Proc : Release(p) /\ ~usurped => lock.owner = p
<1>1. OwnFile => [A]_vars
  BY DEF OwnFile, Owning, Release
<1>2. QED
  BY <1>1, OwnersHaveTheirFile, PTL DEF ReleaseRemovesOwnFile

-----------------------------------------------------------------------------
(* The loop of the daemon (SchedulerLoop), for any queue of targets.          *)

\* Nothing that is enabled comes before the target t in the queue.
Leads(t) ==
    \A i \in DOMAIN Queue : Queue[i] = t => \A j \in 1 .. i - 1 : Queue[j] \notin enabled

\* The targets the loop may work for: that of the turn, of its checkpoint, and of
\* the checkpoint it would begin with after a death.  A target that leads goes on to
\* do so, since targets are only ever disabled.
OnlyLeaders ==
    /\ enabled \subseteq Target /\ enabled # {}
    /\ DOMAIN lane = Target
    /\ "target" \in DOMAIN mem \cap DOMAIN disk \cap DOMAIN turn
    /\ turn.target \in Target
    /\ Leads(mem.target) /\ Leads(disk.target) /\ Leads(turn.target)

\* The least element of a set of numbers is one of them.
LEMMA LeastPlace ==
    ASSUME NEW S \in SUBSET Nat, S # {}
    PROVE  Min(S) \in S /\ \A x \in S : Min(S) <= x
<1> DEFINE R == {ss \in Nat \X Nat : ss[1] < ss[2]}
<1>1. IsWellFoundedOn(R, Nat)
  BY NatLessThanWellFounded DEF OpToRel
<1> HIDE DEF R
<1>2. PICK m \in S : \A x \in S : ~(<<x, m>> \in R)
  BY <1>1, WFMin
<1>3. \A x, y \in Nat : x < y => <<x, y>> \in R
  BY DEF R
<1>4. ASSUME NEW x \in S PROVE m <= x
  <2>1. x \in Nat /\ m \in Nat
    OBVIOUS
  <2>2. ~(x < m)
    BY <1>2, <1>3, <2>1
  <2>3. QED
    BY <2>1, <2>2
<1>5. QED
  BY <1>4 DEF Min

\* The target the loop takes up is enabled, and none is before it unless the
\* checkpoint asked for it.
LEMMA ActiveLeads ==
    ASSUME enabled \subseteq Target, enabled # {}, NEW asked, Leads(asked)
    PROVE  Active(asked) \in enabled /\ Leads(Active(asked))
<1> DEFINE places == {i \in DOMAIN Queue : Queue[i] \in enabled}
<1>1. Queue \in Seq(Target) /\ DOMAIN Queue = 1 .. Len(Queue) /\ Len(Queue) \in Nat
  BY LoopAssumption
<1>2. CASE asked \in enabled
  BY <1>2 DEF Active
<1>3. CASE asked \notin enabled
  <2>1. places # {}
    BY <1>1 DEF Target, ToSet
  <2>2. places \in SUBSET Nat
    BY <1>1
  <2>3. PICK m \in places : m = Min(places) /\ \A x \in places : m <= x
    BY <2>1, <2>2, LeastPlace
  <2>4. Active(asked) = Queue[m]
    BY <1>3, <2>3 DEF Active
  <2>5. \A i \in DOMAIN Queue : Queue[i] = Queue[m] => i = m
    BY <2>3, LoopAssumption DEF IsInjective
  <2>6. \A j \in 1 .. m - 1 : j \in DOMAIN Queue /\ Queue[j] \notin enabled
    BY <1>1, <2>3
  <2>7. QED
    BY <2>3, <2>4, <2>5, <2>6 DEF Leads
<1>4. QED
  BY <1>2, <1>3

\* What is noted of a decision does not change the target of the checkpoint.
LEMMA DecidedFor ==
    ASSUME NEW s, NEW outcome, "target" \in DOMAIN s
    PROVE  "target" \in DOMAIN Decided(s, outcome) /\ Decided(s, outcome).target = s.target
  BY DEF Decided

\* A new selection is made for the target the checkpoint asks for.
LEMMA RefreshedFor ==
    ASSUME NEW s, NEW from, "target" \in DOMAIN s
    PROVE  "target" \in DOMAIN Refreshed(s, from) /\ Refreshed(s, from).target = Active(s.target)
<1>1. \A t : "target" \in DOMAIN Selection(t, from) /\ Selection(t, from).target = t
  BY DEF Selection
<1>2. QED
  BY <1>1 DEF Refreshed

\* The checkpoint and the turn keep their target in a step of the workers, or go
\* over to that of the turn; the lane of another target is left alone.
Works ==
    /\ UNCHANGED <<enabled, disk>>
    /\ "target" \in DOMAIN mem' /\ mem'.target \in {mem.target, turn.target}
    /\ "target" \in DOMAIN turn' /\ turn'.target = turn.target
    /\ DOMAIN lane' = Target /\ \A t \in Target : lane[t] # lane'[t] => t = turn.target

\* An acquisition for the turn keeps the targets that are held,
LEMMA IngestWorks ==
    ASSUME OnlyLeaders, NEW outcome, Ingest(outcome) PROVE Works
<1>1. UNCHANGED <<lane, enabled, disk>>
  BY DEF Ingest
<1>2. CASE UNCHANGED <<mem, turn>>
  BY <1>1, <1>2 DEF OnlyLeaders, Works
<1>3. ASSUME NEW m, turn' = [turn EXCEPT !.decided = TRUE],
             mem' = Decided([mem EXCEPT !.scope = <<"month", m>>, !.open = {m}], outcome)
      PROVE  Works
  <2> DEFINE s == [mem EXCEPT !.scope = <<"month", m>>, !.open = {m}]
  <2>1. "target" \in DOMAIN s /\ s.target = mem.target
    BY DEF OnlyLeaders
  <2>2. "target" \in DOMAIN mem' /\ mem'.target = mem.target
    BY <1>3, <2>1, DecidedFor
  <2>3. QED
    BY <1>1, <1>3, <2>2 DEF OnlyLeaders, Works
<1>4. QED
  BY <1>2, <1>3 DEF Ingest

\* and so does a model stage,
LEMMA ModelWorks ==
    ASSUME OnlyLeaders, NEW outcome, Model(outcome) PROVE Works
<1>1. UNCHANGED <<enabled, disk>>
  BY DEF Model
<1>2. CASE UNCHANGED <<lane, mem, turn>>
  BY <1>1, <1>2 DEF OnlyLeaders, Works
<1>3. ASSUME NEW f, NEW s, lane' = [lane EXCEPT ![turn.target][f] = s],
             turn' = [turn EXCEPT !.decided = TRUE],
             mem' = Decided([mem EXCEPT !.scope = <<"fold", f>>, !.reason = "worker selected",
                                        !.open = 1 .. f, !.target = turn.target], outcome)
      PROVE  Works
  <2> DEFINE r == [mem EXCEPT !.scope = <<"fold", f>>, !.reason = "worker selected",
                              !.open = 1 .. f, !.target = turn.target]
  <2>1. "target" \in DOMAIN r /\ r.target = turn.target
    BY DEF OnlyLeaders
  <2>2. "target" \in DOMAIN mem' /\ mem'.target = turn.target
    BY <1>3, <2>1, DecidedFor
  <2>3. QED
    BY <1>1, <1>3, <2>2 DEF OnlyLeaders, Works
<1>4. QED
  BY <1>2, <1>3 DEF Model

\* a step of the life after training,
LEMMA LifecycleWorks ==
    ASSUME OnlyLeaders, NEW outcome, Lifecycle(outcome) PROVE Works
<1>1. UNCHANGED <<enabled, disk>>
  BY DEF Lifecycle
<1>2. CASE UNCHANGED <<lane, mem, turn>>
  BY <1>1, <1>2 DEF OnlyLeaders, Works
<1>3. ASSUME NEW f, NEW s, lane' = [lane EXCEPT ![turn.target][f] = s],
             turn' = [turn EXCEPT !.decided = TRUE],
             mem' = Decided([mem EXCEPT !.scope = <<"month", active>>,
                                        !.reason = "lifecycle ready"], outcome)
      PROVE  Works
  <2> DEFINE r == [mem EXCEPT !.scope = <<"month", active>>, !.reason = "lifecycle ready"]
  <2>1. "target" \in DOMAIN r /\ r.target = mem.target
    BY DEF OnlyLeaders
  <2>2. "target" \in DOMAIN mem' /\ mem'.target = mem.target
    BY <1>3, <2>1, DecidedFor
  <2>3. QED
    BY <1>1, <1>3, <2>2 DEF OnlyLeaders, Works
<1>4. QED
  BY <1>2, <1>3 DEF Lifecycle

\* and one of the evaluation.
LEMMA EvaluationWorks ==
    ASSUME OnlyLeaders, NEW outcome, Evaluation(outcome) PROVE Works
<1>1. UNCHANGED <<enabled, disk, turn>>
  BY DEF Evaluation
<1>2. CASE UNCHANGED lane /\ mem' \in {mem, [mem EXCEPT !.scope = <<"fold", turn.block>>,
                                     !.reason = "lifecycle holds", !.target = turn.target]}
  BY <1>1, <1>2 DEF OnlyLeaders, Works
<1>3. ASSUME NEW f,
             lane' = [lane EXCEPT ![turn.target][f] = IF outcome = "executed" THEN "done" ELSE @],
             mem' = [Decided([mem EXCEPT !.scope = <<"month", active>>], outcome) EXCEPT
                        !.reason = IF outcome = "executed" THEN "evaluation complete"
                                   ELSE "evaluation ready",
                        !.atBoundary = outcome = "executed"]
      PROVE  Works
  <2> DEFINE r == [mem EXCEPT !.scope = <<"month", active>>]
             d == Decided(r, outcome)
  <2>1. "target" \in DOMAIN r /\ r.target = mem.target
    BY DEF OnlyLeaders
  <2>2. "target" \in DOMAIN d /\ d.target = mem.target
    BY <2>1, DecidedFor
  <2>3. "target" \in DOMAIN mem' /\ mem'.target = d.target
    BY <1>3, <2>2
  <2>4. DOMAIN lane' = Target /\ \A t \in Target : t # turn.target => lane'[t] = lane[t]
    BY <1>3 DEF OnlyLeaders
  <2>5. QED
    BY <1>1, <2>2, <2>3, <2>4 DEF OnlyLeaders, Works
<1>4. CASE outcome = "none" /\ UNCHANGED lane
           /\ mem' = IF turn.block # 0 /\ ~turn.decided
                     THEN [mem EXCEPT !.scope = <<"fold", turn.block>>,
                                      !.reason = "lifecycle holds", !.target = turn.target]
                     ELSE mem
  BY <1>2, <1>4
<1>5. QED
  BY <1>3, <1>4 DEF Evaluation

\* A worker's step leaves the targets leading.
LEMMA WorksKeeps ==
    ASSUME OnlyLeaders, Works PROVE OnlyLeaders'
  BY DEF OnlyLeaders, Works, Leads

\* Whatever the loop does, the targets it holds lead the queue, and it works for
\* that of its turn.
LEMMA LoopStep ==
    ASSUME OnlyLeaders, [LoopNext]_loopVars
    PROVE  OnlyLeaders' /\ \A t \in Target : lane[t] # lane'[t] => t = turn.target
<1> USE DEF OnlyLeaders
<1>1. CASE Start \/ Top \/ Stall
  <2>1. UNCHANGED <<lane, enabled, disk>>
    BY <1>1 DEF Start, Top, Stall, world
  <2>2. \A t : Leads(t) => Active(t) \in Target /\ Leads(Active(t))
    BY ActiveLeads
  <2>3. \A s, from : "target" \in DOMAIN s =>
           "target" \in DOMAIN Refreshed(s, from) /\ Refreshed(s, from).target = Active(s.target)
    BY RefreshedFor
  <2>4. \A t : Leads(t) => Leads(t)'
    BY <2>1 DEF Leads
  <2>5. CASE Start
    <3>1. mem' = Refreshed(disk, 1) /\ UNCHANGED turn
      BY <2>5 DEF Start
    <3>2. QED
      BY <2>1, <2>2, <2>3, <3>1 DEF Leads
  <2>6. CASE Top
    <3>1. UNCHANGED mem
      BY <2>6 DEF Top
    <3>2. "target" \in DOMAIN turn' /\ turn'.target = Active(mem.target)
      BY <2>6 DEF Top
    <3>3. QED
      BY <2>1, <2>2, <3>1, <3>2 DEF Leads
  <2>7. CASE Stall
    <3>1. UNCHANGED turn
      BY <2>7 DEF Stall
    <3>2. mem' \in {mem, Refreshed(mem, mem.scope[2]), [mem EXCEPT !.alarmed = TRUE]}
      BY <2>7 DEF Stall
    <3>3. "target" \in DOMAIN mem' /\ mem'.target \in {mem.target, Active(mem.target)}
      BY <2>3, <3>2
    <3>4. QED
      BY <2>1, <2>2, <3>1, <3>3 DEF Leads
  <2>8. QED
    BY <1>1, <2>5, <2>6, <2>7
<1>2. CASE \E outcome \in Outcomes :
              Ingest(outcome) \/ Model(outcome) \/ Lifecycle(outcome) \/ Evaluation(outcome)
  <2>1. Works
    BY <1>2, IngestWorks, ModelWorks, LifecycleWorks, EvaluationWorks
  <2>2. QED
    BY <2>1, WorksKeeps DEF Works
<1>3. CASE Raise \/ Age
  <2>1. UNCHANGED <<lane, enabled, turn>>
    BY <1>3 DEF Raise, Age, world
  <2>2. /\ "target" \in DOMAIN mem' \cap DOMAIN disk'
        /\ mem'.target = mem.target /\ disk'.target = disk.target
    BY <1>3 DEF Raise, Age
  <2>3. QED
    BY <2>1, <2>2 DEF Leads
<1>4. CASE WriteState \/ CrashLoop
  <2>1. UNCHANGED <<lane, enabled, turn>> /\ mem' \in {mem, disk} /\ disk' \in {mem, disk}
    BY <1>4 DEF WriteState, CrashLoop, world
  <2>2. QED
    BY <2>1 DEF Leads
<1>5. CASE DisableTarget
  <2>1. UNCHANGED <<lane, mem, disk, turn>>
    BY <1>5 DEF DisableTarget, Move
  <2>2. enabled' \subseteq enabled /\ enabled' # {}
    BY <1>5 DEF DisableTarget
  <2>3. \A t : Leads(t) => Leads(t)'
    BY <2>2 DEF Leads
  <2>4. QED
    BY <2>1, <2>2, <2>3 DEF Leads
<1>6. CASE WorkByHand \/ Reset \/ RunTask \/ UNCHANGED loopVars
  <2>1. UNCHANGED <<lane, enabled, mem, disk, turn>>
    BY <1>6 DEF WorkByHand, Reset, RunTask, Move, loopVars, world
  <2>2. QED
    BY <2>1 DEF Leads
<1>7. QED
  BY <1>1, <1>2, <1>3, <1>4, <1>5, <1>6 DEF LoopNext, Iteration

\* The targets the loop may work for lead the queue in every reachable state.
THEOREM LoopWorksForLeaders == LoopSpec => []OnlyLeaders
<1>1. LoopInit => OnlyLeaders
  <2> SUFFICES ASSUME LoopInit PROVE OnlyLeaders
    OBVIOUS
  <2>1. Queue \in Seq(Target) /\ DOMAIN Queue = 1 .. Len(Queue) /\ Queue # <<>>
    BY LoopAssumption
  <2>2. 1 \in DOMAIN Queue /\ Head(Queue) = Queue[1] /\ Head(Queue) \in Target
    BY <2>1
  <2>3. \A i \in DOMAIN Queue : Queue[i] = Head(Queue) => i = 1
    BY <2>2, LoopAssumption DEF IsInjective
  <2>4. \A i \in DOMAIN Queue : Queue[i] # "none"
    BY <2>1, LoopAssumption
  <2>5. Leads(Head(Queue)) /\ Leads("none")
    BY <2>3, <2>4 DEF Leads
  <2>6. QED
    BY <2>2, <2>5 DEF LoopInit, OnlyLeaders, NewState, Leads
<1>2. QED
  BY <1>1, LoopStep, PTL DEF LoopSpec

\* A target takes a step only when every target before it in the queue has been
\* disabled, however long the queue and whatever the deaths and the reports between:
\* the queue of active_model_worker_target_symbol moves on by hand.
THEOREM RotationTakesAHand == LoopSpec => RotationIsByHand
<1> DEFINE A == \A i \in DOMAIN Queue :
                   LET t == Queue[i] IN
                   lane[t] # lane'[t] => \A j \in 1 .. i - 1 : Queue[j] \notin enabled
<1>1. OnlyLeaders /\ [LoopNext]_loopVars => [A]_loopVars
  <2> SUFFICES ASSUME OnlyLeaders, [LoopNext]_loopVars,
                      NEW i \in DOMAIN Queue, lane[Queue[i]] # lane'[Queue[i]]
               PROVE  \A j \in 1 .. i - 1 : Queue[j] \notin enabled
    OBVIOUS
  <2>1. Queue[i] \in Target
    BY LoopAssumption
  <2>2. Queue[i] = turn.target
    BY <2>1, LoopStep
  <2>3. QED
    BY <2>2 DEF OnlyLeaders, Leads
<1>2. QED
  BY <1>1, LoopWorksForLeaders, PTL DEF RotationIsByHand, LoopSpec

-----------------------------------------------------------------------------
(* The list of tasks: what the files, the log and the view hold.              *)

Statuses == {"blocked", "ready", "started", "succeeded", "failed", "reset"}
Checkpoints == {<<>>} \cup [StageIds -> Statuses]
Decisions == [fold : Nat, task : Nat, status : {"none", "executed", "failed", "idle", "waiting"}]
Handlings == {"none", "open", "awaiting_retry", "closed"}
Failures == [stage : StageIds, month : Nat]

FileTypes ==
    /\ foldFile \in [FoldIds -> Checkpoints]
    /\ lifecycle \in [FoldIds -> 0 .. HandedOver]
    /\ register \subseteq Failures
    /\ handled \in [StageIds -> Handlings]
    /\ wasReset \in [FoldIds -> {"never", "before", "now"}]

LogTypes ==
    /\ lastDecision \in Decisions /\ unlogged \in Decisions
    /\ stops \in Nat

ViewTypes ==
    /\ looking \in 0 .. 6
    /\ DOMAIN found = {"decision", "selection", "up", "files", "unbuilt", "pre", "life",
                       "frozen", "handoff", "handled", "register"}
    /\ found.decision \in Decisions
    /\ found.files \in [FoldIds -> Checkpoints]
    /\ found.life \in [FoldIds -> 0 .. HandedOver]
    /\ found.register \subseteq Failures

TimelineTypes == FileTypes /\ LogTypes /\ ViewTypes

\* In the checkpoint of a fold a stage is no longer blocked once those before it
\* have succeeded.
Layered ==
    \A f \in FoldIds : foldFile[f] # <<>> =>
        \A i \in StageIds : foldFile[f][i] # "blocked" =>
            \A j \in 1 .. i - 1 : foldFile[f][j] = "succeeded"

\* How far a fold can have come later on.
Later(n, m) == n = m \/ (n < m /\ n # Rejected)

\* What a step of the others does not take back from a fold, unless it resets it.
Kept(f) ==
    /\ \A i \in StageIds : foldFile[f] # <<>> /\ foldFile[f][i] = "succeeded" =>
                            foldFile'[f][i] = "succeeded"
    /\ Later(lifecycle[f], lifecycle'[f])
ResetNow(f) ==
    wasReset[f] = "never" /\ wasReset'[f] # "never" /\ (looking > 0 => wasReset'[f] = "now")
Grows ==
    /\ handoff => handoff'
    /\ \A f \in FoldIds :
          /\ foldFile[f] # <<>> => foldFile'[f] # <<>>
          /\ Kept(f) \/ ResetNow(f)
          /\ wasReset[f] # "never" => wasReset'[f] # "never"
          /\ wasReset[f] = "now" => wasReset'[f] = "now" \/ looking' = 0

\* A fold is taken up when no other has the lane.
TakesUp ==
    \A f \in FoldIds : foldFile[f] = <<>> /\ foldFile'[f] # <<>> =>
        Lane = {} /\ \A g \in FoldIds : g # f => foldFile'[g] = foldFile[g]

\* The sizes that the constants give.
LEMMA Counts ==
    /\ LaneFolds \in Nat \ {0} /\ NumLayers \in Nat \ {0}
    /\ FoldIds \subseteq Nat /\ StageIds \subseteq Nat /\ LayerTasks \subseteq Nat
    /\ 1 \in StageIds /\ 2 * NumLayers \in StageIds
  BY TimelineAssumption DEF FoldIds, StageIds, LayerTasks

\* A layer has two stages, and every stage is of one layer.
LEMMA LayersOfStages ==
    /\ \A i \in StageIds : LayerOf(i) \in LayerTasks
                           /\ i \in {2 * LayerOf(i) - 1, 2 * LayerOf(i)}
    /\ \A l \in LayerTasks : /\ 2 * l - 1 \in StageIds /\ 2 * l \in StageIds
                             /\ LayerOf(2 * l - 1) = l /\ LayerOf(2 * l) = l
  BY TimelineAssumption DEF StageIds, LayerTasks, LayerOf

\* A checkpoint that exists is not the missing one.
LEMMA CheckpointIsThere ==
    /\ \A x \in [StageIds -> Statuses] : x # <<>>
    /\ \A x \in Checkpoints : x # <<>> => x \in [StageIds -> Statuses]
<1>1. \A x \in [StageIds -> Statuses] : DOMAIN x # {}
  BY Counts
<1>2. DOMAIN <<>> = {}
  OBVIOUS
<1>3. QED
  BY <1>1, <1>2 DEF Checkpoints

\* In a new checkpoint only the first two stages are not blocked.
LEMMA NewFoldType ==
    /\ NewFold \in [StageIds -> Statuses] /\ NewFold # <<>>
    /\ \A i \in StageIds : NewFold[i] # "blocked" => \A j \in 1 .. i - 1 : NewFold[j] = "succeeded"
    /\ \A i \in StageIds : NewFold[i] \in {"succeeded", "ready", "blocked"}
    /\ NewFold[1] = "succeeded"
<1>1. NewFold \in [StageIds -> Statuses]
  BY DEF NewFold, Statuses
<1>2. \A i \in StageIds : NewFold[i] = IF i = 1 THEN "succeeded" ELSE IF i = 2 THEN "ready" ELSE "blocked"
  BY DEF NewFold
<1>3. \A i \in StageIds : i \in Nat
  BY Counts
<1>4. QED
  BY <1>1, <1>2, <1>3, Counts, CheckpointIsThere

\* The next stage of a fold is the first that has not succeeded.
LEMMA NextStageIsFirst ==
    ASSUME FileTypes, NEW f \in FoldIds, foldFile[f] # <<>>, ~Trained(foldFile[f])
    PROVE  /\ foldFile[f] \in [StageIds -> Statuses]
           /\ NextStageOf(f) \in StageIds /\ foldFile[f][NextStageOf(f)] # "succeeded"
           /\ \A j \in 1 .. NextStageOf(f) - 1 : foldFile[f][j] = "succeeded"
<1> DEFINE S == {i \in StageIds : foldFile[f][i] # "succeeded"}
<1>1. foldFile[f] \in [StageIds -> Statuses]
  BY CheckpointIsThere DEF FileTypes
<1>2. S # {} /\ S \in SUBSET Nat
  BY Counts DEF Trained
<1>3. Min(S) \in S /\ \A x \in S : Min(S) <= x
  BY <1>2, LeastPlace
<1>4. NextStageOf(f) = Min(S)
  BY DEF NextStageOf
<1> HIDE DEF S
<1>5. PICK n : n = Min(S)
  OBVIOUS
<1>6. n \in StageIds /\ foldFile[f][n] # "succeeded"
  BY <1>3, <1>5 DEF S
<1>7. ASSUME NEW j \in 1 .. n - 1 PROVE foldFile[f][j] = "succeeded"
  <2>1. j \in StageIds /\ ~(n <= j)
    BY <1>6, Counts DEF StageIds
  <2>2. j \notin S
    BY <1>3, <1>5, <2>1
  <2>3. QED
    BY <2>1, <2>2 DEF S
<1>8. QED
  BY <1>1, <1>4, <1>5, <1>6, <1>7

\* A fold in the lane has a checkpoint and is not closed.
LEMMA InLane ==
    ASSUME FileTypes, NEW f \in Lane
    PROVE  f \in FoldIds /\ foldFile[f] \in [StageIds -> Statuses] /\ foldFile[f] # <<>>
           /\ ~Closed(f)
<1>1. f \in Holding \cup Untrained
  BY DEF Lane
<1>2. f \in FoldIds /\ foldFile[f] # <<>> /\ ~Closed(f)
  BY <1>1 DEF Holding, Untrained, Closed, Trained
<1>3. QED
  BY <1>2, CheckpointIsThere DEF FileTypes

\* When none is in it, every fold that has a checkpoint is closed.
LEMMA EmptyLane ==
    ASSUME FileTypes, Lane = {}, NEW f \in FoldIds, foldFile[f] # <<>>
    PROVE  Closed(f)
<1>1. Holding = {}
  BY DEF Lane
<1>2. Untrained = {}
  <2>1. SUFFICES ASSUME Untrained # {} PROVE FALSE
    OBVIOUS
  <2>2. Untrained \in SUBSET Nat
    BY Counts DEF Untrained
  <2>3. Min(Untrained) \in Untrained /\ \A x \in Untrained : Min(Untrained) <= x
    BY <2>1, <2>2, LeastPlace
  <2>4. Min(Untrained) \in Lane
    BY <1>1, <2>3 DEF Lane
  <2>5. QED
    BY <2>4
<1>3. QED
  BY <1>1, <1>2 DEF Holding, Untrained

\* The effects of the steps on the files.
LEMMA BeginEffect ==
    ASSUME FileTypes, NEW f \in Lane, BeginStage(f)
    PROVE  /\ \E i \in StageIds :
                 foldFile[f][i] = "ready" /\ foldFile' = [foldFile EXCEPT ![f][i] = "started"]
           /\ UNCHANGED <<lifecycle, handoff, register, handled, wasReset,
                          lastDecision, unlogged, stops>>
<1>1. NextStageOf(f) \in StageIds
  BY InLane, NextStageIsFirst DEF BeginStage
<1>2. QED
  BY <1>1 DEF BeginStage, lifeVars, errorVars, resetVars, logVars

\* The checkpoint after stage i of it has ended.
Ended(file, i, ok) ==
    [j \in StageIds |-> IF j = i THEN IF ok THEN "succeeded" ELSE "failed"
                        ELSE IF j = i + 1 /\ ok THEN "ready" ELSE file[j]]

\* What the end of a stage does to the files.
LEMMA EndEffect ==
    ASSUME FileTypes, NEW f \in Lane, NEW ok \in BOOLEAN, EndStage(f, ok)
    PROVE  /\ \E i \in StageIds :
                 /\ foldFile[f][i] = "started"
                 /\ \A j \in 1 .. i - 1 : foldFile[f][j] = "succeeded"
                 /\ foldFile' = [foldFile EXCEPT ![f] = Ended(foldFile[f], i, ok)]
                 /\ unlogged' = [fold |-> f, task |-> LayerOf(i),
                                 status |-> IF ok THEN "executed" ELSE "failed"]
                 /\ handled' = [handled EXCEPT ![i] =
                                   IF ~ok THEN "open" ELSE IF @ = "none" THEN @ ELSE "closed"]
           /\ register' \subseteq Failures
           /\ unlogged = NoDecision
           /\ UNCHANGED <<lifecycle, handoff, wasReset, lastDecision, stops>>
<1> DEFINE i == NextStageOf(f)
<1>1. /\ i \in StageIds /\ foldFile[f][i] = "started"
      /\ \A j \in 1 .. i - 1 : foldFile[f][j] = "succeeded"
      /\ f \in FoldIds
  BY InLane, NextStageIsFirst DEF EndStage
<1>2. foldFile' = [foldFile EXCEPT ![f] = Ended(foldFile[f], i, ok)]
  BY <1>1 DEF EndStage, Ended, FileTypes
<1>3. handled' = [handled EXCEPT ![i] =
                     IF ~ok THEN "open" ELSE IF @ = "none" THEN @ ELSE "closed"]
  BY DEF EndStage
<1>4. register' \subseteq Failures
  <2>1. CASE register' \subseteq register
    BY <2>1 DEF FileTypes
  <2>2. CASE \E m \in MonthsOf[f] : register' = register \cup {[stage |-> i, month |-> m]}
    <3>1. \A m \in MonthsOf[f] : m \in Nat
      BY <1>1, TimelineAssumption DEF FoldIds
    <3>2. \A m \in MonthsOf[f] : [stage |-> i, month |-> m] \in Failures
      BY <1>1, <3>1 DEF Failures
    <3>3. QED
      BY <2>2, <3>2 DEF FileTypes
  <2>3. QED
    BY <2>1, <2>2 DEF EndStage
<1>5. unlogged' = [fold |-> f, task |-> LayerOf(i), status |-> IF ok THEN "executed" ELSE "failed"]
  BY DEF EndStage
<1>6. unlogged = NoDecision /\ UNCHANGED <<lifecycle, handoff, wasReset, lastDecision, stops>>
  BY DEF EndStage, Decides, lifeVars, resetVars
<1>7. QED
  BY <1>1, <1>2, <1>3, <1>4, <1>5, <1>6

\* What is decided of a trained fold is not a failure.
LEMMA DecisionType ==
    ASSUME FileTypes, NEW f \in FoldIds
    PROVE  \E t \in Nat : DecisionOf(f) = [fold |-> f, task |-> t, status |-> "executed"]
<1>1. lifecycle[f] \in Nat
  BY DEF FileTypes, HandedOver
<1>2. NextTask(f) \in Nat
  BY <1>1, Counts DEF NextTask, Replay
<1>3. QED
  BY <1>2 DEF DecisionOf

\* What a step after training does,
LEMMA AdvanceEffect ==
    ASSUME FileTypes, NEW f \in Lane, AdvanceLifecycle(f)
    PROVE  /\ Trained(foldFile[f])
           /\ \E n \in 0 .. HandedOver : /\ Later(lifecycle[f], n)
                                         /\ lifecycle' = [lifecycle EXCEPT ![f] = n]
           /\ \E t \in Nat : unlogged' = [fold |-> f, task |-> t, status |-> "executed"]
           /\ unlogged = NoDecision
           /\ UNCHANGED <<foldFile, handoff, register, handled, wasReset, lastDecision, stops>>
<1>1. f \in FoldIds /\ lifecycle[f] \in 0 .. 5
  BY InLane DEF FileTypes, HandedOver
<1>2. PICK n \in IF lifecycle[f] = Reviewed THEN {Rejected, Eligible} ELSE {lifecycle[f] + 1} :
              lifecycle' = [lifecycle EXCEPT ![f] = n]
  BY DEF AdvanceLifecycle
<1>3. lifecycle[f] < 3
  BY DEF AdvanceLifecycle, Rejected
<1>4. n \in 0 .. HandedOver /\ Later(lifecycle[f], n)
  BY <1>1, <1>2, <1>3 DEF Later, Reviewed, Rejected, Eligible, HandedOver
<1>5. QED
  BY <1>1, <1>2, <1>4, DecisionType DEF AdvanceLifecycle, Decides, errorVars, resetVars

\* and what the hand-over does.
LEMMA HandOverEffect ==
    ASSUME FileTypes, NEW f \in FoldIds, HandOver(f)
    PROVE  /\ \E n \in 0 .. HandedOver : /\ Later(lifecycle[f], n)
                                         /\ lifecycle' = [lifecycle EXCEPT ![f] = n]
           /\ handoff'
           /\ UNCHANGED <<foldFile, register, handled, wasReset, lastDecision, unlogged, stops>>
  BY DEF HandOver, Later, Rejected, Eligible, HandedOver, errorVars, resetVars, logVars

\* The dataset is frozen for all folds by the one that holds the lane.
LEMMA FreezeEffect ==
    ASSUME FileTypes, NEW f \in Lane, FreezeDataset(f)
    PROVE  /\ Trained(foldFile[f])
           /\ \E t \in Nat : unlogged' = [fold |-> f, task |-> t, status |-> "executed"]
           /\ unlogged = NoDecision
           /\ UNCHANGED <<foldFile, lifecycle, handoff, register, handled, wasReset,
                          lastDecision, stops>>
  BY InLane, DecisionType DEF FreezeDataset, Decides, errorVars, resetVars

\* What a tick without work does: one line of the log.
LEMMA BackOffEffect ==
    ASSUME FileTypes, NEW f \in Lane, BackOff(f)
    PROVE  /\ \E t \in Nat :
                 \/ /\ ~Trained(foldFile[f])
                    /\ lastDecision' = [fold |-> f, task |-> t, status |-> "idle"]
                 \/ /\ Trained(foldFile[f])
                    /\ lastDecision' = [fold |-> f, task |-> t, status |-> "waiting"]
           /\ unlogged = NoDecision
           /\ UNCHANGED <<foldFile, lifecycle, handoff, register, handled, wasReset,
                          unlogged, stops>>
<1>1. UNCHANGED <<foldFile, lifecycle, handoff, register, handled, wasReset, unlogged, stops>>
      /\ unlogged = NoDecision
  BY DEF BackOff, Decides, fileVars, lifeVars, errorVars
<1>2. CASE ~Trained(foldFile[f])
  <2>1. NextStageOf(f) \in StageIds
    BY <1>2, InLane, NextStageIsFirst
  <2>2. PICK k \in StageIds : k = NextStageOf(f)
    BY <2>1
  <2>3. PICK m \in Nat : m = k + 1
    BY Counts
  <2>4. {m, 2 * NumLayers} \in SUBSET Nat /\ {m, 2 * NumLayers} # {}
    BY <2>3, Counts
  <2>5. PICK n \in Nat : n = Min({m, 2 * NumLayers})
    BY <2>4, LeastPlace
  <2>6. LayerOf(n) \in Nat
    BY <2>5 DEF LayerOf
  <2>7. lastDecision' = [fold |-> f, status |-> "idle", task |-> LayerOf(n)]
    BY <1>2, <2>2, <2>5, <2>3 DEF BackOff
  <2>8. QED
    BY <1>1, <1>2, <2>6, <2>7
<1>3. CASE Trained(foldFile[f])
  <2>1. PICK t \in Nat : DecisionOf(f) = [fold |-> f, task |-> t, status |-> "executed"]
    BY InLane, DecisionType
  <2>2. lastDecision' = [DecisionOf(f) EXCEPT !.status = "waiting"]
    BY <1>3 DEF BackOff
  <2>3. lastDecision' = [fold |-> f, task |-> t, status |-> "waiting"]
    BY <2>1, <2>2
  <2>4. QED
    BY <1>1, <1>3, <2>3
<1>4. QED
  BY <1>2, <1>3

\* What a new checkpoint changes,
LEMMA CreateEffect ==
    ASSUME NEW f \in FoldIds, CreateFold(f)
    PROVE  /\ foldFile[f] = <<>> /\ Lane = {}
           /\ foldFile' = [foldFile EXCEPT ![f] = NewFold]
           /\ UNCHANGED <<lifecycle, handoff, register, handled, wasReset,
                          lastDecision, unlogged, stops>>
  BY DEF CreateFold, logVars, lifeVars, errorVars, resetVars

\* what the foundation changes that a fold is given again,
LEMMA SeedEffect ==
    ASSUME NEW f \in Lane, SeedFold(f)
    PROVE  /\ foldFile[f][1] = "reset" /\ foldFile' = [foldFile EXCEPT ![f] = NewFold]
           /\ UNCHANGED <<lifecycle, handoff, register, handled, wasReset,
                          lastDecision, unlogged, stops>>
  BY DEF SeedFold, logVars, lifeVars, errorVars, resetVars

\* what a retry changes,
LEMMA RetryEffect ==
    ASSUME NEW f \in FoldIds, NEW i \in StageIds, RetryStage(f, i)
    PROVE  /\ foldFile[f] # <<>> /\ foldFile[f][i] = "failed" /\ handled[i] = "awaiting_retry"
           /\ foldFile' = [foldFile EXCEPT ![f][i] = "ready"]
           /\ UNCHANGED <<lifecycle, handoff, register, handled, wasReset,
                          lastDecision, unlogged, stops>>
  BY DEF RetryStage, logVars, lifeVars, errorVars, resetVars

\* The checkpoint after it was reset from stage c on.
Cleared(file, c) ==
    [i \in StageIds |-> IF i < c THEN file[i]
                        ELSE IF c = 1 /\ i = 1 THEN "reset"
                        ELSE IF i = c /\ file[i - 1] = "succeeded" THEN "ready"
                        ELSE "blocked"]

\* what a reset changes,
LEMMA ResetEffect ==
    ASSUME FileTypes, NEW f \in FoldIds, NEW c \in StageIds, ResetFold(f, c)
    PROVE  /\ foldFile[f] # <<>> /\ ResetNow(f)
           /\ foldFile' = [foldFile EXCEPT ![f] = Cleared(foldFile[f], c)]
           /\ lifecycle' = [lifecycle EXCEPT ![f] = 0]
           /\ wasReset' \in [FoldIds -> {"never", "before", "now"}]
           /\ \A g \in FoldIds : g # f => wasReset'[g] = wasReset[g]
           /\ UNCHANGED <<handoff, register, handled, lastDecision, unlogged, stops>>
<1>1. foldFile' = [foldFile EXCEPT ![f] = Cleared(foldFile[f], c)]
  BY DEF ResetFold, Cleared, FileTypes
<1>2. wasReset' = [wasReset EXCEPT ![f] = IF looking > 0 THEN "now" ELSE "before"]
  BY DEF ResetFold
<1>3. wasReset[f] = "never" /\ wasReset \in [FoldIds -> {"never", "before", "now"}]
  BY DEF ResetFold, FileTypes
<1>4. ResetNow(f)
  BY <1>2, <1>3 DEF ResetNow
<1>5. QED
  BY <1>1, <1>2, <1>3, <1>4 DEF ResetFold, errorVars, logVars

\* what a repair changes.
LEMMA RepairEffect ==
    ASSUME NEW i \in StageIds, RepairError(i)
    PROVE  /\ handled[i] = "open" /\ handled' = [handled EXCEPT ![i] = "awaiting_retry"]
           /\ UNCHANGED <<foldFile, lifecycle, handoff, register, wasReset,
                          lastDecision, unlogged, stops>>
  BY DEF RepairError, logVars, lifeVars, resetVars

\* What else can be written: nothing of the folds.
Others == SelectWork \/ LogDecision \/ StopDaemon \/ StartDaemon \/ \E m \in unbuilt : BuildMonth(m)

\* Nothing of the folds changes with it.
LEMMA OtherEffect ==
    ASSUME Others
    PROVE  /\ UNCHANGED <<foldFile, lifecycle, handoff, register, handled, wasReset>>
           /\ \/ unlogged # NoDecision /\ lastDecision' = unlogged
                 /\ unlogged' = NoDecision /\ stops' = stops
              \/ lastDecision' = lastDecision /\ unlogged' = NoDecision /\ stops' = stops + 1
              \/ UNCHANGED <<lastDecision, unlogged, stops>>
  BY DEF Others, SelectWork, BuildMonth, LogDecision, StopDaemon, StartDaemon, fileVars, lifeVars,
         errorVars, logVars

\* A step of the others is one of these; what is read is left alone.
LEMMA Movers ==
    ASSUME WritersMove
    PROVE  /\ looking < 6 /\ UNCHANGED viewVars
           /\ \/ \E f \in Lane : \/ SeedFold(f) \/ BeginStage(f)
                                 \/ \E ok \in BOOLEAN : EndStage(f, ok)
                                 \/ FreezeDataset(f) \/ AdvanceLifecycle(f)
                                 \/ BackOff(f)
              \/ Others
              \/ \E f \in FoldIds : CreateFold(f) \/ HandOver(f)
              \/ \E f \in FoldIds, c \in StageIds : ResetFold(f, c)
              \/ \E i \in StageIds : RepairError(i)
              \/ \E f \in FoldIds, i \in StageIds : RetryStage(f, i)
<1>1. \A r \in Reruns : r.fold \in FoldIds /\ r.stage \in StageIds
  BY TimelineAssumption DEF FoldIds, StageIds
<1>2. QED
  BY <1>1 DEF WritersMove, Others

-----------------------------------------------------------------------------
\* A checkpoint that only gains successes keeps the others, and their order.
LEMMA FileGrowth ==
    ASSUME FileTypes, Layered, NEW f \in FoldIds, NEW new \in [StageIds -> Statuses],
           foldFile' = [foldFile EXCEPT ![f] = new],
           foldFile[f] # <<>> => \A i \in StageIds : foldFile[f][i] = "succeeded" => new[i] = "succeeded",
           \A i \in StageIds : new[i] # "blocked" => \A j \in 1 .. i - 1 : new[j] = "succeeded",
           UNCHANGED <<lifecycle, handoff, wasReset>>,
           register' \subseteq Failures, handled' \in [StageIds -> Handlings],
           foldFile[f] = <<>> => Lane = {}
    PROVE  FileTypes' /\ Layered' /\ Grows /\ TakesUp
<1>1. \A g \in FoldIds : foldFile'[g] = IF g = f THEN new ELSE foldFile[g]
  BY DEF FileTypes
<1>2. foldFile' \in [FoldIds -> Checkpoints]
  BY DEF FileTypes, Checkpoints
<1>3. new # <<>>
  BY CheckpointIsThere
<1>4. Layered'
  BY <1>1 DEF Layered
<1>5. \A g \in FoldIds : Kept(g)
  BY <1>1 DEF Kept, Later
<1>6. Grows
  BY <1>1, <1>3, <1>5 DEF Grows
<1>7. TakesUp
  BY <1>1 DEF TakesUp
<1>8. QED
  BY <1>2, <1>4, <1>6, <1>7 DEF FileTypes

\* How far a fold can come is an order.
LEMMA LaterIsOrder ==
    /\ \A n \in 0 .. HandedOver : Later(n, n)
    /\ \A n, m, k \in 0 .. HandedOver : Later(n, m) /\ Later(m, k) => Later(n, k)
  BY DEF Later, HandedOver, Rejected

\* A step after training only takes the fold on.
LEMMA LifeGrowth ==
    ASSUME FileTypes, Layered, NEW f \in FoldIds, NEW n \in 0 .. HandedOver, Later(lifecycle[f], n),
           lifecycle' = [lifecycle EXCEPT ![f] = n], handoff => handoff',
           UNCHANGED <<foldFile, register, handled, wasReset>>
    PROVE  FileTypes' /\ Layered' /\ Grows /\ TakesUp
<1>1. \A g \in FoldIds : lifecycle'[g] = IF g = f THEN n ELSE lifecycle[g]
  BY DEF FileTypes
<1>2. lifecycle' \in [FoldIds -> 0 .. HandedOver]
  BY DEF FileTypes
<1>3. \A g \in FoldIds : Kept(g)
  BY <1>1 DEF Kept, Later
<1>4. QED
  BY <1>2, <1>3 DEF FileTypes, Layered, Grows, TakesUp

\* Nor does a step that leaves the folds alone.
LEMMA NothingGrows ==
    ASSUME FileTypes, Layered, UNCHANGED <<foldFile, lifecycle, register>>,
           handled' \in [StageIds -> Handlings], handoff => handoff', UNCHANGED wasReset
    PROVE  FileTypes' /\ Layered' /\ Grows /\ TakesUp
<1>1. \A g \in FoldIds : Kept(g)
  BY DEF Kept, Later
<1>2. QED
  BY <1>1 DEF FileTypes, Layered, Grows, TakesUp

\* A reset takes the successes back from one fold, in their order.
LEMMA ResetGrowth ==
    ASSUME FileTypes, Layered, NEW f \in FoldIds, NEW c \in StageIds, ResetFold(f, c)
    PROVE  FileTypes' /\ Layered' /\ Grows /\ TakesUp
<1>1. /\ foldFile[f] # <<>> /\ ResetNow(f)
      /\ foldFile' = [foldFile EXCEPT ![f] = Cleared(foldFile[f], c)]
      /\ lifecycle' = [lifecycle EXCEPT ![f] = 0]
      /\ wasReset' \in [FoldIds -> {"never", "before", "now"}]
      /\ \A g \in FoldIds : g # f => wasReset'[g] = wasReset[g]
      /\ UNCHANGED <<handoff, register, handled, lastDecision, unlogged, stops>>
  BY ResetEffect
<1> DEFINE new == Cleared(foldFile[f], c)
<1>2. foldFile[f] \in [StageIds -> Statuses]
  BY <1>1, CheckpointIsThere DEF FileTypes
<1>3. \A i \in StageIds : new[i] = IF i < c THEN foldFile[f][i]
                                  ELSE IF c = 1 /\ i = 1 THEN "reset"
                                  ELSE IF i = c /\ foldFile[f][i - 1] = "succeeded" THEN "ready"
                                  ELSE "blocked"
  BY DEF Cleared
<1>4. new \in [StageIds -> Statuses]
  BY <1>2 DEF Cleared, Statuses
<1> HIDE DEF new
<1>5. ASSUME NEW i \in StageIds, new[i] # "blocked", NEW j \in 1 .. i - 1
      PROVE  new[j] = "succeeded"
  <2>1. i \in Nat /\ j \in Nat /\ c \in Nat /\ j < i /\ j \in StageIds /\ c >= 1 /\ j >= 1
    BY Counts DEF StageIds
  <2>2. CASE i < c
    <3>1. foldFile[f][i] # "blocked" /\ new[j] = foldFile[f][j]
      BY <1>3, <1>5, <2>1, <2>2
    <3>2. QED
      BY <1>1, <3>1 DEF Layered
  <2>3. CASE ~(i < c)
    <3>1. i = c /\ foldFile[f][i - 1] = "succeeded" /\ i - 1 \in StageIds
      BY <1>3, <1>5, <2>1, <2>3, Counts DEF StageIds
    <3>2. new[j] = foldFile[f][j]
      BY <1>3, <2>1, <3>1
    <3>3. j = i - 1 \/ j \in 1 .. (i - 1) - 1
      BY <2>1
    <3>4. foldFile[f][j] = "succeeded"
      BY <1>1, <3>1, <3>3 DEF Layered
    <3>5. QED
      BY <3>2, <3>4
  <2>4. QED
    BY <2>2, <2>3
<1>6. \A g \in FoldIds : foldFile'[g] = IF g = f THEN new ELSE foldFile[g]
  BY <1>1 DEF FileTypes, new
<1>7. foldFile' \in [FoldIds -> Checkpoints] /\ new # <<>>
  BY <1>1, <1>4, CheckpointIsThere DEF FileTypes, Checkpoints, new
<1>8. lifecycle' \in [FoldIds -> 0 .. HandedOver]
  BY <1>1 DEF FileTypes, HandedOver
<1>9. Layered'
  BY <1>5, <1>6 DEF Layered
<1>10. \A g \in FoldIds : g # f => Kept(g)
  BY <1>1, <1>6 DEF FileTypes, Kept, Later
<1>11. Grows
  BY <1>1, <1>6, <1>7, <1>10 DEF Grows, ResetNow
<1>12. TakesUp
  BY <1>1, <1>6 DEF TakesUp
<1>13. QED
  BY <1>1, <1>7, <1>8, <1>9, <1>11, <1>12 DEF FileTypes

\* A step keeps the types of the files, and takes back no success.
LEMMA FilesStep ==
    ASSUME TimelineTypes, Layered, [TimelineNext]_timelineVars
    PROVE  FileTypes' /\ Layered' /\ Grows /\ TakesUp
<1> USE DEF TimelineTypes
<1>1. CASE UNCHANGED <<foldFile, lifecycle, handoff, register, handled, wasReset>>
  BY <1>1, NothingGrows DEF FileTypes
<1>2. ASSUME NEW f \in Lane, BeginStage(f) PROVE FileTypes' /\ Layered' /\ Grows /\ TakesUp
  <2>1. PICK i \in StageIds : foldFile[f][i] = "ready" /\ foldFile' = [foldFile EXCEPT ![f][i] = "started"]
    BY <1>2, BeginEffect
  <2> DEFINE new == [foldFile[f] EXCEPT ![i] = "started"]
  <2>2. f \in FoldIds /\ foldFile[f] \in [StageIds -> Statuses] /\ foldFile[f] # <<>>
    BY InLane
  <2>3. new \in [StageIds -> Statuses]
    BY <2>2 DEF Statuses
  <2>4. foldFile' = [foldFile EXCEPT ![f] = new]
    BY <2>1
  <2>5. \A j \in StageIds : new[j] = IF j = i THEN "started" ELSE foldFile[f][j]
    BY <2>2
  <2>6. \A j \in StageIds : new[j] # "blocked" => \A k \in 1 .. j - 1 : new[k] = "succeeded"
    <3>1. \A j \in StageIds : \A k \in 1 .. j - 1 : k \in StageIds
      BY Counts DEF StageIds
    <3>2. QED
      BY <2>1, <2>2, <2>5, <3>1 DEF Layered
  <2>7. UNCHANGED <<lifecycle, handoff, register, handled, wasReset>>
    BY <1>2, BeginEffect
  <2>8. \A j \in StageIds : foldFile[f][j] = "succeeded" => new[j] = "succeeded"
    BY <2>1, <2>5
  <2> HIDE DEF new
  <2>9. register' \subseteq Failures /\ handled' \in [StageIds -> Handlings]
    BY <2>7 DEF FileTypes
  <2>10. QED
    BY <2>2, <2>3, <2>4, <2>6, <2>7, <2>9, <2>8, FileGrowth
<1>3. ASSUME NEW f \in Lane, NEW ok \in BOOLEAN, EndStage(f, ok) PROVE FileTypes' /\ Layered' /\ Grows /\ TakesUp
  <2>1. PICK i \in StageIds :
            /\ foldFile[f][i] = "started"
            /\ \A j \in 1 .. i - 1 : foldFile[f][j] = "succeeded"
            /\ foldFile' = [foldFile EXCEPT ![f] = Ended(foldFile[f], i, ok)]
            /\ handled' = [handled EXCEPT ![i] =
                               IF ~ok THEN "open" ELSE IF @ = "none" THEN @ ELSE "closed"]
    BY <1>3, EndEffect
  <2> DEFINE new == Ended(foldFile[f], i, ok)
  <2>2. f \in FoldIds /\ foldFile[f] \in [StageIds -> Statuses] /\ foldFile[f] # <<>>
    BY InLane
  <2>3. new \in [StageIds -> Statuses]
    BY <2>2 DEF Statuses, Ended
  <2>4. \A j \in StageIds : new[j] = IF j = i THEN IF ok THEN "succeeded" ELSE "failed"
                                     ELSE IF j = i + 1 /\ ok THEN "ready" ELSE foldFile[f][j]
    BY DEF Ended
  <2>5. \A j \in StageIds : \A k \in 1 .. j - 1 : k \in StageIds /\ k # j /\ k < j /\ i \in Nat
    BY Counts DEF StageIds
  <2> HIDE DEF new
  <2>6. \A j \in StageIds : j > i => foldFile[f][j] = "blocked"
    <3>1. SUFFICES ASSUME NEW j \in StageIds, j > i, foldFile[f][j] # "blocked" PROVE FALSE
      OBVIOUS
    <3>2. i \in 1 .. j - 1
      BY <3>1, Counts DEF StageIds
    <3>3. QED
      BY <2>1, <2>2, <3>1, <3>2 DEF Layered
  <2>7. \A j \in StageIds : new[j] # "blocked" => \A k \in 1 .. j - 1 : new[k] = "succeeded"
    <3>1. SUFFICES ASSUME NEW j \in StageIds, new[j] # "blocked", NEW k \in 1 .. j - 1
                   PROVE  new[k] = "succeeded"
      OBVIOUS
    <3>2. i \in Nat /\ j \in Nat /\ k \in Nat /\ k \in StageIds /\ k < j
      BY <2>5, Counts
    <3>3. CASE j <= i
      BY <2>1, <2>4, <3>2, <3>3
    <3>4. CASE j > i
      <4>1. j # i /\ foldFile[f][j] = "blocked"
        BY <2>6, <3>2, <3>4
      <4>2. j = i + 1 /\ ok
        <5>1. SUFFICES ASSUME ~(j = i + 1 /\ ok) PROVE FALSE
          OBVIOUS
        <5>2. new[j] = foldFile[f][j]
          BY <2>4, <4>1, <5>1
        <5>3. QED
          BY <3>1, <4>1, <5>2
      <4>3. k = i \/ k \in 1 .. i - 1
        BY <3>2, <4>2
      <4>4. QED
        BY <2>1, <2>4, <3>2, <4>2, <4>3
    <3>5. QED
      BY <3>2, <3>3, <3>4
  <2>8. \A j \in StageIds : foldFile[f][j] = "succeeded" => new[j] = "succeeded"
    <3>1. \A j \in StageIds : foldFile[f][j] = "succeeded" => j # i /\ ~(j > i)
      BY <2>1, <2>6
    <3>2. \A j \in StageIds : i + 1 = j => j > i
      BY Counts
    <3>3. QED
      BY <2>4, <3>1, <3>2
  <2>9. UNCHANGED <<lifecycle, handoff, wasReset>> /\ register' \subseteq Failures
    BY <1>3, EndEffect
  <2>10. handled' \in [StageIds -> Handlings]
    BY <2>1 DEF FileTypes, Handlings
  <2>11. foldFile' = [foldFile EXCEPT ![f] = new]
    BY <2>1 DEF new
  <2> HIDE DEF new
  <2>12. QED
    BY <2>2, <2>3, <2>7, <2>8, <2>9, <2>10, <2>11, FileGrowth
<1>4. ASSUME NEW f \in Lane, AdvanceLifecycle(f) PROVE FileTypes' /\ Layered' /\ Grows /\ TakesUp
  <2>1. UNCHANGED <<foldFile, handoff, register, handled, wasReset>> /\ f \in FoldIds
    BY <1>4, AdvanceEffect, InLane
  <2>2. PICK n \in 0 .. HandedOver : Later(lifecycle[f], n) /\ lifecycle' = [lifecycle EXCEPT ![f] = n]
    BY <1>4, AdvanceEffect
  <2>3. QED
    BY <2>1, <2>2, LifeGrowth
<1>5. ASSUME NEW f \in FoldIds, HandOver(f) PROVE FileTypes' /\ Layered' /\ Grows /\ TakesUp
  <2>1. UNCHANGED <<foldFile, register, handled, wasReset>> /\ handoff'
    BY <1>5, HandOverEffect
  <2>2. PICK n \in 0 .. HandedOver : Later(lifecycle[f], n) /\ lifecycle' = [lifecycle EXCEPT ![f] = n]
    BY <1>5, HandOverEffect
  <2>3. QED
    BY <2>1, <2>2, LifeGrowth
<1>6. ASSUME NEW f \in FoldIds,
              \/ foldFile[f] = <<>> /\ Lane = {}
              \/ foldFile[f] # <<>> /\ foldFile[f][1] = "reset",
              foldFile' = [foldFile EXCEPT ![f] = NewFold],
              UNCHANGED <<lifecycle, handoff, register, handled, wasReset>>
       PROVE  FileTypes' /\ Layered' /\ Grows /\ TakesUp
  <2>1. foldFile[f] # <<>> => \A i \in StageIds : foldFile[f][i] = "succeeded" => NewFold[i] = "succeeded"
    <3>1. SUFFICES ASSUME foldFile[f] # <<>>, NEW i \in StageIds, foldFile[f][i] = "succeeded", i # 1
                   PROVE FALSE
      BY NewFoldType
    <3>2. foldFile[f][1] = "reset" /\ 1 \in 1 .. i - 1
      BY <1>6, <3>1, Counts DEF StageIds
    <3>3. foldFile[f][1] = "succeeded"
      BY <3>1, <3>2 DEF Layered
    <3>4. QED
      BY <3>2, <3>3
  <2>2. foldFile[f] = <<>> => Lane = {}
    BY <1>6
  <2>3. register' \subseteq Failures /\ handled' \in [StageIds -> Handlings]
    BY <1>6 DEF FileTypes
  <2>4. QED
    BY <1>6, <2>1, <2>2, <2>3, NewFoldType, FileGrowth
<1>7. ASSUME NEW f \in FoldIds, NEW i \in StageIds, RetryStage(f, i)
      PROVE  FileTypes' /\ Layered' /\ Grows /\ TakesUp
  <2>1. /\ foldFile[f] # <<>> /\ foldFile[f][i] = "failed"
        /\ foldFile' = [foldFile EXCEPT ![f][i] = "ready"]
        /\ UNCHANGED <<lifecycle, handoff, register, handled, wasReset>>
    BY <1>7, RetryEffect
  <2> DEFINE new == [foldFile[f] EXCEPT ![i] = "ready"]
  <2>2. foldFile[f] \in [StageIds -> Statuses]
    BY <2>1, CheckpointIsThere DEF FileTypes
  <2>3. new \in [StageIds -> Statuses]
    BY <2>2 DEF Statuses
  <2>4. foldFile' = [foldFile EXCEPT ![f] = new]
    BY <2>1
  <2>5. \A j \in StageIds : new[j] = IF j = i THEN "ready" ELSE foldFile[f][j]
    BY <2>2
  <2>6. \A j \in StageIds : new[j] # "blocked" => \A k \in 1 .. j - 1 : new[k] = "succeeded"
    <3>1. \A j \in StageIds : \A k \in 1 .. j - 1 : k \in StageIds
      BY Counts DEF StageIds
    <3>2. QED
      BY <2>1, <2>2, <2>5, <3>1 DEF Layered
  <2>7. \A j \in StageIds : foldFile[f][j] = "succeeded" => new[j] = "succeeded"
    BY <2>1, <2>5
  <2> HIDE DEF new
  <2>8. register' \subseteq Failures /\ handled' \in [StageIds -> Handlings]
    BY <2>1 DEF FileTypes
  <2>9. QED
    BY <2>1, <2>2, <2>3, <2>4, <2>6, <2>7, <2>8, FileGrowth
<1>8. ASSUME NEW i \in StageIds, RepairError(i) PROVE FileTypes' /\ Layered' /\ Grows /\ TakesUp
  <2>1. /\ handled' = [handled EXCEPT ![i] = "awaiting_retry"]
        /\ UNCHANGED <<foldFile, lifecycle, handoff, register, wasReset>>
    BY <1>8, RepairEffect
  <2>2. handled' \in [StageIds -> Handlings]
    BY <2>1 DEF FileTypes, Handlings
  <2>3. QED
    BY <2>1, <2>2, NothingGrows
<1>9. CASE WritersMove
  <2>1. ASSUME NEW f \in Lane, BackOff(f) \/ FreezeDataset(f) PROVE FileTypes' /\ Layered' /\ Grows /\ TakesUp
    BY <1>1, <2>1, BackOffEffect, FreezeEffect
  <2>2. ASSUME Others PROVE FileTypes' /\ Layered' /\ Grows /\ TakesUp
    BY <1>1, <2>2, OtherEffect
  <2>3. ASSUME NEW f \in FoldIds, CreateFold(f) PROVE FileTypes' /\ Layered' /\ Grows /\ TakesUp
    BY <1>6, <2>3, CreateEffect
  <2>4. ASSUME NEW f \in Lane, SeedFold(f) PROVE FileTypes' /\ Layered' /\ Grows /\ TakesUp
    BY <1>6, <2>4, SeedEffect, InLane
  <2>5. ASSUME NEW f \in FoldIds, NEW c \in StageIds, ResetFold(f, c)
        PROVE  FileTypes' /\ Layered' /\ Grows /\ TakesUp
    BY <2>5, ResetGrowth
  <2>6. QED
    BY <1>2, <1>3, <1>4, <1>5, <1>7, <1>8, <1>9, <2>1, <2>2, <2>3, <2>4, <2>5, Movers
<1>10. CASE ReadNext \/ ShowTimeline \/ UNCHANGED timelineVars
  BY <1>1, <1>10 DEF ReadNext, ShowTimeline, timelineVars, fileVars, lifeVars, errorVars
<1>11. CASE LookAway
  <2>1. UNCHANGED <<foldFile, lifecycle, handoff, register, handled>> /\ looking' = 0
    BY <1>11 DEF LookAway, fileVars, lifeVars, errorVars
  <2>2. wasReset' = [f \in FoldIds |-> IF wasReset[f] = "now" THEN "before" ELSE wasReset[f]]
    BY <1>11 DEF LookAway
  <2>3. \A g \in FoldIds : Kept(g)
    BY <2>1 DEF Kept, Later
  <2>4. QED
    BY <2>1, <2>2, <2>3 DEF FileTypes, Layered, Grows, TakesUp
<1>12. QED
  BY <1>9, <1>10, <1>11 DEF TimelineNext

-----------------------------------------------------------------------------
\* A closed fold stays closed, unless it is reset.
LEMMA ClosedStays ==
    ASSUME FileTypes, FileTypes', Grows, NEW f \in FoldIds, ~ResetNow(f)
    PROVE  /\ Trained(foldFile[f]) => Trained(foldFile'[f])
           /\ Closed(f) => Closed(f)'
<1>1. Kept(f) /\ (foldFile[f] # <<>> => foldFile'[f] # <<>>)
  BY DEF Grows
<1>2. Trained(foldFile[f]) => Trained(foldFile'[f])
  BY <1>1 DEF Kept, Trained
<1>3. lifecycle[f] \in {Rejected, HandedOver} => lifecycle'[f] = lifecycle[f]
  BY <1>1 DEF Kept, Later, Rejected, HandedOver, FileTypes
<1>4. QED
  BY <1>2, <1>3 DEF Closed

\* No fold was reset in a step after which none ever was, nor before.
LEMMA NeverReset ==
    ASSUME Grows, ~EverReset'
    PROVE  ~EverReset /\ \A f \in FoldIds : ~ResetNow(f)
  BY DEF Grows, EverReset, ResetNow

\* Without a reset, one fold at most is open.
OneOpen ==
    EverReset \/ \A f, g \in FoldIds :
        foldFile[f] # <<>> /\ foldFile[g] # <<>> /\ ~Closed(f) /\ ~Closed(g) => f = g

\* It stays so, as a fold is taken up when all others are closed.
LEMMA OneOpenStep ==
    ASSUME FileTypes, FileTypes', Grows, TakesUp, OneOpen PROVE OneOpen'
<1>1. SUFFICES ASSUME ~EverReset', NEW f \in FoldIds, NEW g \in FoldIds,
                      foldFile'[f] # <<>>, foldFile'[g] # <<>>, ~Closed(f)', ~Closed(g)'
               PROVE  f = g
  BY DEF OneOpen
<1>2. ~EverReset /\ ~Closed(f) /\ ~Closed(g)
  BY <1>1, NeverReset, ClosedStays
<1>3. CASE foldFile[f] # <<>> /\ foldFile[g] # <<>>
  BY <1>2, <1>3 DEF OneOpen
<1>4. CASE foldFile[f] = <<>>
  <2>1. Lane = {} /\ (g # f => foldFile'[g] = foldFile[g])
    BY <1>1, <1>4 DEF TakesUp
  <2>2. QED
    BY <1>1, <1>2, <2>1, EmptyLane
<1>5. CASE foldFile[g] = <<>>
  <2>1. Lane = {} /\ (g # f => foldFile'[f] = foldFile[f])
    BY <1>1, <1>5 DEF TakesUp
  <2>2. QED
    BY <1>1, <1>2, <2>1, EmptyLane
<1>6. QED
  BY <1>3, <1>4, <1>5

\* A fold that is not trained is then the one at work.
LEMMA OneInLane ==
    ASSUME FileTypes, OneOpen, ~EverReset, NEW f \in FoldIds, foldFile[f] # <<>>,
           ~Trained(foldFile[f]), NEW g \in Lane
    PROVE  g = f
<1>1. g \in FoldIds /\ foldFile[g] # <<>> /\ ~Closed(g)
  BY InLane
<1>2. QED
  BY <1>1 DEF OneOpen, Closed

\* What a step does to the failed stages and to their errors.
Failing ==
    /\ \A f \in FoldIds, i \in StageIds :
          foldFile'[f] # <<>> /\ foldFile'[f][i] = "failed" =>
             \/ foldFile[f] # <<>> /\ foldFile[f][i] = "failed"
             \/ f \in Lane /\ unlogged' = [fold |-> f, task |-> LayerOf(i), status |-> "failed"]
    /\ \A f \in FoldIds, i \in StageIds :
          foldFile[f] # <<>> /\ foldFile[f][i] = "failed" =>
             foldFile'[f][i] = "failed" \/ handled'[i] = "awaiting_retry" \/ ResetNow(f)
    /\ \A i \in StageIds :
          handled[i] \in {"awaiting_retry", "closed"} =>
             \/ handled'[i] \in {"awaiting_retry", "closed"}
             \/ \E f \in Lane : foldFile'[f][i] = "failed"

\* What it does to the log.
Logging ==
    \/ UNCHANGED <<lastDecision, unlogged, stops>>
    \/ /\ unlogged = NoDecision /\ UNCHANGED <<lastDecision, stops>>
       /\ \E f \in Lane, i \in StageIds :
             /\ foldFile[f][i] = "started"
             /\ \/ unlogged' = [fold |-> f, task |-> LayerOf(i), status |-> "executed"]
                \/ /\ unlogged' = [fold |-> f, task |-> LayerOf(i), status |-> "failed"]
                   /\ foldFile'[f][i] = "failed"
    \/ /\ unlogged = NoDecision /\ UNCHANGED <<lastDecision, stops>>
       /\ \E f \in Lane, t \in Nat : Trained(foldFile[f])
                           /\ unlogged' = [fold |-> f, task |-> t, status |-> "executed"]
    \/ /\ unlogged = NoDecision /\ UNCHANGED <<unlogged, stops>>
       /\ \E f \in Lane, t \in Nat :
             \/ lastDecision' = [fold |-> f, task |-> t, status |-> "idle"]
             \/ /\ Trained(foldFile[f])
                /\ lastDecision' = [fold |-> f, task |-> t, status |-> "waiting"]
    \/ /\ unlogged # NoDecision /\ lastDecision' = unlogged
       /\ unlogged' = NoDecision /\ stops' = stops
    \/ lastDecision' = lastDecision /\ unlogged' = NoDecision /\ stops' = stops + 1

\* Where a failed stage comes from in a step.
LEMMA FailureStep ==
    ASSUME TimelineTypes, Layered, [TimelineNext]_timelineVars
    PROVE  Failing /\ Logging
<1> USE DEF TimelineTypes
<1>1. ASSUME UNCHANGED <<foldFile, handled>> PROVE Failing
  BY <1>1 DEF Failing
<1>2. ASSUME NEW f \in Lane, BeginStage(f) PROVE Failing /\ Logging
  <2>1. PICK i \in StageIds : foldFile[f][i] = "ready" /\ foldFile' = [foldFile EXCEPT ![f][i] = "started"]
    BY <1>2, BeginEffect
  <2>2. f \in FoldIds /\ foldFile[f] \in [StageIds -> Statuses] /\ foldFile[f] # <<>>
    BY InLane
  <2>3. \A g \in FoldIds : g # f => foldFile'[g] = foldFile[g]
    BY <2>1, <2>2 DEF FileTypes
  <2>4. \A j \in StageIds : foldFile'[f][j] = IF j = i THEN "started" ELSE foldFile[f][j]
    BY <2>1, <2>2 DEF FileTypes
  <2>5. UNCHANGED <<handled, lastDecision, unlogged, stops>>
    BY <1>2, BeginEffect
  <2>6. Failing
    BY <2>1, <2>2, <2>3, <2>4, <2>5 DEF Failing
  <2>7. QED
    BY <2>5, <2>6 DEF Logging
<1>3. ASSUME NEW f \in Lane, NEW ok \in BOOLEAN, EndStage(f, ok) PROVE Failing /\ Logging
  <2>1. PICK i \in StageIds :
            /\ foldFile[f][i] = "started"
            /\ foldFile' = [foldFile EXCEPT ![f] = Ended(foldFile[f], i, ok)]
            /\ unlogged' = [fold |-> f, task |-> LayerOf(i),
                            status |-> IF ok THEN "executed" ELSE "failed"]
            /\ handled' = [handled EXCEPT ![i] =
                               IF ~ok THEN "open" ELSE IF @ = "none" THEN @ ELSE "closed"]
    BY <1>3, EndEffect
  <2>2. f \in FoldIds /\ foldFile[f] \in [StageIds -> Statuses] /\ foldFile[f] # <<>>
    BY InLane
  <2>3. \A g \in FoldIds : g # f => foldFile'[g] = foldFile[g]
    BY <2>1, <2>2 DEF FileTypes
  <2>4. foldFile'[f] = Ended(foldFile[f], i, ok)
    BY <2>1, <2>2 DEF FileTypes
  <2>5. \A j \in StageIds : foldFile[f][j] = "failed" => j # i /\ j # i + 1
    <3>1. SUFFICES ASSUME foldFile[f][i + 1] = "failed", i + 1 \in StageIds PROVE FALSE
      BY <2>1
    <3>2. i \in 1 .. (i + 1) - 1
      BY Counts DEF StageIds
    <3>3. QED
      BY <2>1, <2>2, <3>1, <3>2 DEF Layered
  <2>6. \A j \in StageIds : foldFile[f][j] = "failed" => foldFile'[f][j] = "failed"
    BY <2>4, <2>5 DEF Ended
  <2>7. \A j \in StageIds : foldFile'[f][j] = "failed" =>
           foldFile[f][j] = "failed" \/ (j = i /\ ~ok)
    BY <2>4 DEF Ended
  <2>8. ~ok => foldFile'[f][i] = "failed"
    BY <2>4 DEF Ended
  <2>9. \A j \in StageIds : handled'[j] = handled[j] \/ j = i
    BY <2>1 DEF FileTypes
  <2>10. handled[i] # "none" /\ ok => handled'[i] = "closed"
    BY <2>1 DEF FileTypes
  <2>11. Failing
    BY <2>1, <2>2, <2>3, <2>6, <2>7, <2>8, <2>9, <2>10 DEF Failing
  <2>12. unlogged = NoDecision /\ UNCHANGED <<lastDecision, stops>>
    BY <1>3, EndEffect
  <2>13. CASE ok
    BY <2>1, <2>11, <2>12, <2>13 DEF Logging
  <2>14. CASE ~ok
    BY <2>1, <2>8, <2>11, <2>12, <2>14 DEF Logging
  <2>15. QED
    BY <2>13, <2>14
<1>4. ASSUME NEW f \in Lane, AdvanceLifecycle(f) \/ FreezeDataset(f) PROVE Failing /\ Logging
  <2>1. /\ Trained(foldFile[f]) /\ unlogged = NoDecision
        /\ UNCHANGED <<foldFile, handled, lastDecision, stops>>
    BY <1>4, AdvanceEffect, FreezeEffect
  <2>2. PICK t \in Nat : unlogged' = [fold |-> f, task |-> t, status |-> "executed"]
    BY <1>4, AdvanceEffect, FreezeEffect
  <2>3. QED
    BY <1>1, <2>1, <2>2 DEF Logging
<1>5. ASSUME NEW f \in Lane, BackOff(f) PROVE Failing /\ Logging
  <2>1. PICK t \in Nat :
           \/ lastDecision' = [fold |-> f, task |-> t, status |-> "idle"]
           \/ /\ Trained(foldFile[f])
              /\ lastDecision' = [fold |-> f, task |-> t, status |-> "waiting"]
    BY <1>5, BackOffEffect
  <2>2. unlogged = NoDecision /\ UNCHANGED <<foldFile, lifecycle, register, handled, unlogged, stops>>
    BY <1>5, BackOffEffect
  <2>3. QED
    BY <1>1, <2>1, <2>2 DEF Logging
<1>6. ASSUME NEW f \in FoldIds,
             \/ foldFile[f] = <<>>
             \/ foldFile[f] # <<>> /\ foldFile[f][1] = "reset",
             foldFile' = [foldFile EXCEPT ![f] = NewFold],
             UNCHANGED <<handled, lastDecision, unlogged, stops>>
      PROVE  Failing /\ Logging
  <2>1. \A g \in FoldIds : foldFile'[g] = IF g = f THEN NewFold ELSE foldFile[g]
    BY <1>6 DEF FileTypes
  <2>2. ASSUME NEW i \in StageIds, foldFile[f] # <<>>, foldFile[f][i] = "failed" PROVE FALSE
    <3>1. i # 1 /\ foldFile[f][1] = "reset"
      BY <1>6, <2>2
    <3>2. 1 \in 1 .. i - 1
      BY <3>1, Counts DEF StageIds
    <3>3. QED
      BY <2>2, <3>1, <3>2 DEF Layered
  <2>3. QED
    BY <1>6, <2>1, <2>2, NewFoldType DEF Failing, Logging
<1>7. ASSUME NEW f \in FoldIds, NEW i \in StageIds, RetryStage(f, i) PROVE Failing /\ Logging
  <2>1. /\ foldFile[f] # <<>> /\ foldFile[f][i] = "failed" /\ handled[i] = "awaiting_retry"
        /\ foldFile' = [foldFile EXCEPT ![f][i] = "ready"]
        /\ UNCHANGED <<lifecycle, register, handled, lastDecision, unlogged, stops>>
    BY <1>7, RetryEffect
  <2>2. foldFile[f] \in [StageIds -> Statuses]
    BY <2>1, CheckpointIsThere DEF FileTypes
  <2>3. \A g \in FoldIds : g # f => foldFile'[g] = foldFile[g]
    BY <2>1 DEF FileTypes
  <2>4. \A j \in StageIds : foldFile'[f][j] = IF j = i THEN "ready" ELSE foldFile[f][j]
    BY <2>1, <2>2 DEF FileTypes
  <2>5. Failing
    BY <2>1, <2>3, <2>4 DEF Failing
  <2>6. QED
    BY <2>1, <2>5 DEF Logging
<1>8. ASSUME NEW i \in StageIds, RepairError(i) PROVE Failing /\ Logging
  <2>1. /\ handled[i] = "open" /\ handled' = [handled EXCEPT ![i] = "awaiting_retry"]
        /\ UNCHANGED <<foldFile, lifecycle, register, lastDecision, unlogged, stops>>
    BY <1>8, RepairEffect
  <2>2. QED
    BY <2>1 DEF Failing, Logging, FileTypes
<1>9. ASSUME NEW f \in FoldIds, NEW c \in StageIds, ResetFold(f, c) PROVE Failing /\ Logging
  <2>1. /\ foldFile[f] # <<>> /\ ResetNow(f)
        /\ foldFile' = [foldFile EXCEPT ![f] = Cleared(foldFile[f], c)]
        /\ UNCHANGED <<handled, lastDecision, unlogged, stops>>
    BY <1>9, ResetEffect
  <2>2. \A g \in FoldIds : g # f => foldFile'[g] = foldFile[g]
    BY <2>1 DEF FileTypes
  <2>3. foldFile'[f] = Cleared(foldFile[f], c)
    BY <2>1 DEF FileTypes
  <2>4. \A i \in StageIds : foldFile'[f][i] = "failed" => foldFile[f][i] = "failed"
    BY <2>3 DEF Cleared
  <2>5. Failing
    BY <2>1, <2>2, <2>4 DEF Failing
  <2>6. QED
    BY <2>1, <2>5 DEF Logging
<1>10. CASE Others
  BY <1>1, <1>10, OtherEffect DEF Logging
<1>11. ASSUME NEW f \in FoldIds, HandOver(f) PROVE Failing /\ Logging
  BY <1>1, <1>11, HandOverEffect DEF Logging
<1>12. CASE WritersMove
  <2>1. ASSUME NEW f \in FoldIds, CreateFold(f) PROVE Failing /\ Logging
    BY <1>6, <2>1, CreateEffect
  <2>2. ASSUME NEW f \in Lane, SeedFold(f) PROVE Failing /\ Logging
    BY <1>6, <2>2, SeedEffect, InLane
  <2>3. QED
    BY <1>2, <1>3, <1>4, <1>5, <1>7, <1>8, <1>10, <1>12, <1>9, <1>11, <2>1, <2>2, Movers
<1>13. CASE ReadNext \/ ShowTimeline \/ LookAway \/ UNCHANGED timelineVars
  <2>1. UNCHANGED <<foldFile, handled>> /\ UNCHANGED <<lastDecision, unlogged, stops>>
    BY <1>13 DEF ReadNext, ShowTimeline, LookAway, timelineVars, fileVars, logVars, errorVars
  <2>2. QED
    BY <1>1, <2>1 DEF Logging
<1>14. QED
  BY <1>12, <1>13 DEF TimelineNext

-----------------------------------------------------------------------------
\* The failure of stage i of fold f, as it is logged.
FailureOf(f, i) == [fold |-> f, task |-> LayerOf(i), status |-> "failed"]

\* The decision is of another fold, which is at work since a fold was reset.
Elsewhere(d, f) == d.fold # f /\ EverReset

\* The failure of a stage is the last decision, but for those that found nothing to
\* do since or that are of another fold, or is still to be logged; unless the daemon
\* stopped in between.
IsLogged(f, i) ==
    \/ stops > 0
    \/ unlogged = FailureOf(f, i)
    \/ /\ unlogged = NoDecision \/ Elsewhere(unlogged, f)
       /\ \/ lastDecision = FailureOf(f, i)
          \/ lastDecision.fold = f /\ lastDecision.status = "idle"
          \/ Elsewhere(lastDecision, f)
FailuresAreLogged ==
    \A f \in FoldIds, i \in StageIds :
        foldFile[f] # <<>> /\ foldFile[f][i] = "failed" => IsLogged(f, i)

\* Of a failure that was noted once: the stage is still failed, or its error was
\* taken up, or the fold is trained; unless a fold was reset.
TakenUp(f, l) ==
    \/ Trained(foldFile[f]) \/ HasFailed(f, l) \/ EverReset
    \/ \E i \in StageIds : LayerOf(i) = l /\ handled[i] \in {"awaiting_retry", "closed"}
KnownFailure(d) ==
    d.status = "failed" => d.fold \in FoldIds /\ foldFile[d.fold] # <<>> /\ TakenUp(d.fold, d.task)

\* A step keeps the types of the log.
LEMMA LogStep ==
    ASSUME TimelineTypes, Layered, [TimelineNext]_timelineVars PROVE LogTypes'
<1>1. Logging /\ LogTypes /\ FileTypes
  BY FailureStep DEF TimelineTypes
<1>2. \A f \in Lane : f \in Nat
  BY <1>1, InLane, Counts
<1>3. \A i \in StageIds : LayerOf(i) \in Nat
  BY LayersOfStages, Counts
<1>4. NoDecision \in Decisions
  BY DEF NoDecision, Decisions
<1>5. QED
  BY <1>1, <1>2, <1>3, <1>4 DEF Logging, LogTypes, Decisions

\* Once a fold was reset, it stays so.
LEMMA ResetStays ==
    ASSUME Grows, EverReset PROVE EverReset'
  BY DEF Grows, EverReset

\* A failed stage stays explained by the log.
LEMMA LoggedStep ==
    ASSUME TimelineTypes, Layered, OneOpen, FailuresAreLogged, [TimelineNext]_timelineVars
    PROVE  FailuresAreLogged'
<1> SUFFICES ASSUME NEW f \in FoldIds, NEW i \in StageIds,
                    foldFile'[f] # <<>>, foldFile'[f][i] = "failed"
             PROVE  \/ stops' > 0
                    \/ unlogged' = FailureOf(f, i)
                    \/ /\ unlogged' = NoDecision \/ Elsewhere(unlogged, f)'
                       /\ \/ lastDecision' = FailureOf(f, i)
                          \/ lastDecision'.fold = f /\ lastDecision'.status = "idle"
                          \/ Elsewhere(lastDecision, f)'
  BY DEF FailuresAreLogged, IsLogged, FailureOf
<1>1. FileTypes /\ FileTypes' /\ Grows /\ Failing /\ Logging
  BY FilesStep, FailureStep DEF TimelineTypes
<1>2. CASE f \in Lane /\ unlogged' = FailureOf(f, i)
  BY <1>2
<1>3. CASE foldFile[f] # <<>> /\ foldFile[f][i] = "failed"
  <2>1. ~Trained(foldFile[f])
    BY <1>3 DEF Trained
  <2>2. \A g \in Lane : g = f \/ (g # f /\ EverReset)
    BY <1>1, <1>3, <2>1, OneInLane
  <2>3. EverReset => EverReset'
    BY <1>1, ResetStays
  <2>4. ASSUME NEW j \in StageIds, foldFile[f][j] = "started" PROVE FALSE
    <3>1. i \in Nat /\ j \in Nat /\ i >= 1 /\ j >= 1
      BY Counts DEF StageIds
    <3>2. ~(i < j)
      BY <1>3, <2>4, <3>1 DEF Layered
    <3>3. ~(j < i)
      BY <1>3, <2>4, <3>1 DEF Layered
    <3>4. QED
      BY <1>3, <2>4, <3>1, <3>2, <3>3
  <2>5. stops \in Nat
    BY DEF TimelineTypes, LogTypes
  <2>6. IsLogged(f, i)
    BY <1>3 DEF FailuresAreLogged
  <2>7. FailureOf(f, i).status = "failed" /\ NoDecision.status = "none"
    BY DEF FailureOf, NoDecision
  <2>8. CASE UNCHANGED <<lastDecision, unlogged, stops>>
    BY <2>3, <2>6, <2>8 DEF IsLogged, Elsewhere
  <2>9. ASSUME unlogged = NoDecision, UNCHANGED <<lastDecision, stops>>, NEW g \in Lane,
               unlogged'.fold = g, g # f
        PROVE  stops' > 0 \/ (Elsewhere(unlogged, f)'
                              /\ \/ lastDecision' = FailureOf(f, i)
                                 \/ lastDecision'.fold = f /\ lastDecision'.status = "idle"
                                 \/ Elsewhere(lastDecision, f)')
    BY <2>2, <2>3, <2>6, <2>7, <2>9 DEF IsLogged, Elsewhere
  <2>10. CASE /\ unlogged = NoDecision /\ UNCHANGED <<lastDecision, stops>>
              /\ \E g \in Lane, j \in StageIds :
                    /\ foldFile[g][j] = "started"
                    /\ \/ unlogged' = [fold |-> g, task |-> LayerOf(j), status |-> "executed"]
                       \/ /\ unlogged' = [fold |-> g, task |-> LayerOf(j), status |-> "failed"]
                          /\ foldFile'[g][j] = "failed"
    BY <2>4, <2>9, <2>10
  <2>11. CASE /\ unlogged = NoDecision /\ UNCHANGED <<lastDecision, stops>>
              /\ \E g \in Lane, t \in Nat : Trained(foldFile[g])
                                 /\ unlogged' = [fold |-> g, task |-> t, status |-> "executed"]
    BY <2>1, <2>9, <2>11
  <2>12. CASE /\ unlogged = NoDecision /\ UNCHANGED <<unlogged, stops>>
              /\ \E g \in Lane, t \in Nat :
                    \/ lastDecision' = [fold |-> g, task |-> t, status |-> "idle"]
                    \/ /\ Trained(foldFile[g])
                       /\ lastDecision' = [fold |-> g, task |-> t, status |-> "waiting"]
    BY <2>1, <2>2, <2>3, <2>12 DEF Elsewhere
  <2>13. CASE unlogged # NoDecision /\ lastDecision' = unlogged /\ unlogged' = NoDecision
              /\ stops' = stops
    BY <2>3, <2>6, <2>13 DEF IsLogged, Elsewhere
  <2>14. CASE stops' = stops + 1
    BY <2>5, <2>14
  <2>15. QED
    BY <1>1, <2>8, <2>10, <2>11, <2>12, <2>13, <2>14 DEF Logging
<1>4. QED
  BY <1>1, <1>2, <1>3 DEF Failing, FailureOf

\* A failure that is known stays known through a step of the files.
LEMMA KnownStays ==
    ASSUME TimelineTypes, Layered, OneOpen, [TimelineNext]_timelineVars, NEW f \in FoldIds, NEW l,
           foldFile[f] # <<>>, TakenUp(f, l)
    PROVE  foldFile'[f] # <<>> /\ TakenUp(f, l)'
<1>1. FileTypes /\ FileTypes' /\ Grows /\ Failing
  BY FilesStep, FailureStep DEF TimelineTypes
<1>2. foldFile'[f] # <<>>
  BY <1>1 DEF Grows
<1>3. CASE EverReset'
  BY <1>2, <1>3 DEF TakenUp
<1>4. CASE ~EverReset'
  <2>1. ~EverReset /\ ~ResetNow(f) /\ \A g \in FoldIds : ~ResetNow(g)
    BY <1>1, <1>4, NeverReset
  <2>2. CASE Trained(foldFile[f])
    <3>1. Trained(foldFile'[f])
      BY <1>1, <2>1, <2>2, ClosedStays
    <3>2. QED
      BY <1>2, <3>1 DEF TakenUp
  <2>3. CASE HasFailed(f, l)
    <3>1. PICK i \in StageIds : LayerOf(i) = l /\ foldFile[f][i] = "failed"
      BY <2>3 DEF HasFailed
    <3>2. foldFile'[f][i] = "failed" \/ handled'[i] = "awaiting_retry"
      BY <1>1, <2>1, <3>1 DEF Failing
    <3>3. QED
      BY <1>2, <3>1, <3>2 DEF TakenUp, HasFailed
  <2>4. CASE /\ ~Trained(foldFile[f])
             /\ \E i \in StageIds : LayerOf(i) = l /\ handled[i] \in {"awaiting_retry", "closed"}
    <3>1. \A g \in Lane : g = f
      BY <1>1, <2>1, <2>4, OneInLane
    <3>2. PICK i \in StageIds : LayerOf(i) = l /\ handled[i] \in {"awaiting_retry", "closed"}
      BY <2>4
    <3>3. handled'[i] \in {"awaiting_retry", "closed"} \/ foldFile'[f][i] = "failed"
      BY <1>1, <3>1, <3>2 DEF Failing
    <3>4. QED
      BY <1>2, <3>2, <3>3 DEF TakenUp, HasFailed
  <2>5. QED
    BY <2>1, <2>2, <2>3, <2>4 DEF TakenUp
<1>5. QED
  BY <1>3, <1>4

\* The failures that are logged, are to be logged or were read stay known.
LEMMA KnownStep ==
    ASSUME TimelineTypes, Layered, OneOpen, [TimelineNext]_timelineVars,
           KnownFailure(lastDecision), KnownFailure(unlogged), KnownFailure(found.decision)
    PROVE  KnownFailure(lastDecision)' /\ KnownFailure(unlogged)' /\ KnownFailure(found.decision)'
<1>1. \A d : KnownFailure(d) => (\A e : e = d => KnownFailure(e)')
  <2>1. SUFFICES ASSUME NEW d, KnownFailure(d), d.status = "failed"
                 PROVE  /\ d.fold \in FoldIds /\ foldFile'[d.fold] # <<>>
                        /\ TakenUp(d.fold, d.task)'
    BY DEF KnownFailure
  <2>2. QED
    BY <2>1, KnownStays DEF KnownFailure
<1>2. Logging /\ LogTypes /\ FileTypes /\ FileTypes' /\ Grows
  BY FilesStep, FailureStep DEF TimelineTypes
<1>3. \A e : e = lastDecision' => KnownFailure(e)'
  <2>1. \/ lastDecision' \in {lastDecision, unlogged}
        \/ lastDecision'.status \in {"idle", "waiting"}
    BY <1>2 DEF Logging
  <2>2. CASE lastDecision' \in {lastDecision, unlogged}
    BY <1>1, <2>2
  <2>3. CASE lastDecision'.status \in {"idle", "waiting"}
    BY <2>3 DEF KnownFailure
  <2>4. QED
    BY <2>1, <2>2, <2>3
<1>4. \A e : e = unlogged' => KnownFailure(e)'
  <2>1. CASE unlogged' = unlogged
    BY <1>1, <2>1
  <2>2. CASE unlogged' = NoDecision
    BY <2>2 DEF KnownFailure, NoDecision
  <2>3. CASE unlogged'.status = "executed"
    BY <2>3 DEF KnownFailure
  <2>4. ASSUME NEW f \in Lane, NEW i \in StageIds, foldFile'[f][i] = "failed",
               unlogged' = [fold |-> f, task |-> LayerOf(i), status |-> "failed"],
               NEW e, e = unlogged'
        PROVE  KnownFailure(e)'
    <3>1. f \in FoldIds /\ foldFile[f] # <<>>
      BY <1>2, InLane
    <3>2. foldFile'[f] # <<>>
      BY <1>2, <3>1 DEF Grows
    <3>3. HasFailed(f, LayerOf(i))'
      BY <2>4 DEF HasFailed
    <3>4. e.fold = f /\ e.task = LayerOf(i)
      BY <2>4
    <3>5. QED
      BY <3>1, <3>2, <3>3, <3>4 DEF KnownFailure, TakenUp
  <2>5. QED
    BY <1>2, <2>1, <2>2, <2>3, <2>4 DEF Logging
<1>5. \A e : e = found'.decision => KnownFailure(e)'
  <2>1. found'.decision \in {found.decision, lastDecision, NoDecision}
    <3>1. CASE WritersMove \/ UNCHANGED timelineVars \/ ShowTimeline
      BY <3>1, Movers DEF timelineVars, ShowTimeline, viewVars
    <3>2. CASE ReadNext
      BY <3>2 DEF ReadNext, TimelineTypes, ViewTypes
    <3>3. CASE LookAway
      BY <3>3 DEF LookAway, NothingSeen
    <3>4. QED
      BY <3>1, <3>2, <3>3 DEF TimelineNext
  <2>2. CASE found'.decision \in {found.decision, lastDecision}
    BY <1>1, <2>2
  <2>3. CASE found'.decision = NoDecision
    BY <2>3 DEF KnownFailure, NoDecision
  <2>4. QED
    BY <2>1, <2>2, <2>3
<1>6. QED
  BY <1>3, <1>4, <1>5 DEF KnownFailure, TakenUp, HasFailed, Trained, EverReset

-----------------------------------------------------------------------------
\* What was read is not taken back, but by a reset since: the stages that had succeeded
\* have, and a fold is no less far than it was.
ReachedStages ==
    looking >= 2 => \A f \in FoldIds : found.files[f] # <<>> =>
        /\ foldFile[f] # <<>>
        /\ wasReset[f] # "now" => \A i \in StageIds :
               found.files[f][i] = "succeeded" => foldFile[f][i] = "succeeded"
ReachedLife ==
    looking >= 3 =>
        /\ found.handoff => handoff
        /\ \A f \in FoldIds : wasReset[f] # "now" =>
               (found.pre[f] => Trained(foldFile[f])) /\ Later(found.life[f], lifecycle[f])

\* Only a list that is complete is shown, and it is made of what was read.
ShownIsMade == shown = IF looking = 6 THEN Timeline(found) ELSE NothingShown

\* What was read stays reached while the files change.
LEMMA ReachedStep ==
    ASSUME TimelineTypes, FileTypes', Grows, ReachedStages, ReachedLife, ShownIsMade,
           looking' = looking, UNCHANGED <<found, shown>>
    PROVE  ViewTypes' /\ ReachedStages' /\ ReachedLife' /\ ShownIsMade'
<1>1. FileTypes /\ ViewTypes
  BY DEF TimelineTypes
<1>2. ViewTypes'
  BY <1>1 DEF ViewTypes
<1>3. ASSUME looking >= 2, NEW f \in FoldIds, wasReset'[f] # "now"
      PROVE  Kept(f) /\ wasReset[f] # "now" /\ ~ResetNow(f)
  <2>1. looking > 0 /\ looking' # 0
    BY <1>1, <1>3 DEF ViewTypes
  <2>2. QED
    BY <1>3, <2>1 DEF Grows, ResetNow
<1>4. ReachedStages'
  <2>1. SUFFICES ASSUME looking >= 2, NEW f \in FoldIds, found.files[f] # <<>>
                 PROVE  /\ foldFile'[f] # <<>>
                        /\ wasReset'[f] # "now" => \A i \in StageIds :
                               found.files[f][i] = "succeeded" => foldFile'[f][i] = "succeeded"
    BY DEF ReachedStages
  <2>2. foldFile[f] # <<>> /\ foldFile'[f] # <<>>
    BY <2>1 DEF ReachedStages, Grows
  <2>3. QED
    BY <1>3, <2>1, <2>2 DEF ReachedStages, Kept
<1>5. ReachedLife'
  <2>1. SUFFICES ASSUME looking >= 3
                 PROVE  /\ found.handoff => handoff'
                        /\ \A f \in FoldIds : wasReset'[f] # "now" =>
                               /\ found.pre[f] => Trained(foldFile'[f])
                               /\ Later(found.life[f], lifecycle'[f])
    BY DEF ReachedLife, Trained
  <2>2. found.handoff => handoff'
    BY <2>1 DEF ReachedLife, Grows
  <2>3. ASSUME NEW f \in FoldIds, wasReset'[f] # "now"
        PROVE  (found.pre[f] => Trained(foldFile'[f])) /\ Later(found.life[f], lifecycle'[f])
    <3>1. Kept(f) /\ wasReset[f] # "now" /\ ~ResetNow(f)
      BY <1>1, <1>3, <2>1, <2>3 DEF ViewTypes
    <3>2. /\ found.life[f] \in 0 .. HandedOver /\ lifecycle[f] \in 0 .. HandedOver
          /\ lifecycle'[f] \in 0 .. HandedOver
      BY <1>1 DEF FileTypes, ViewTypes
    <3>3. Later(found.life[f], lifecycle[f]) /\ (found.pre[f] => Trained(foldFile[f]))
      BY <2>1, <3>1 DEF ReachedLife
    <3>4. Later(found.life[f], lifecycle'[f])
      BY <3>1, <3>2, <3>3, LaterIsOrder DEF Kept
    <3>5. Trained(foldFile[f]) => Trained(foldFile'[f])
      BY <1>1, <3>1, ClosedStays
    <3>6. QED
      BY <3>3, <3>4, <3>5
  <2>4. QED
    BY <2>2, <2>3
<1>6. ShownIsMade'
  BY DEF ShownIsMade
<1>7. QED
  BY <1>2, <1>4, <1>5, <1>6

\* Nor does a step of the one who makes the list forget it.
LEMMA ViewStep ==
    ASSUME TimelineTypes, Layered, ReachedStages, ReachedLife, ShownIsMade,
           [TimelineNext]_timelineVars
    PROVE  ViewTypes' /\ ReachedStages' /\ ReachedLife' /\ ShownIsMade'
<1>1. FileTypes /\ LogTypes /\ ViewTypes /\ FileTypes' /\ Grows
  BY FilesStep DEF TimelineTypes
<1>2. CASE WritersMove \/ UNCHANGED timelineVars
  <2>1. looking' = looking /\ UNCHANGED <<found, shown>>
    BY <1>2, Movers DEF timelineVars, viewVars
  <2>2. QED
    BY <1>1, <2>1, ReachedStep
<1>3. CASE ReadNext
  <2>1. looking \in 0 .. 4 /\ looking' = looking + 1
    BY <1>3 DEF ReadNext
  <2>2. UNCHANGED <<foldFile, lifecycle, handoff, register, handled, wasReset, lastDecision, shown>>
    BY <1>3 DEF ReadNext, fileVars, lifeVars, errorVars, logVars
  <2>3. ViewTypes'
    <3>1. CASE looking = 0
      <4>1. found' = [found EXCEPT !.decision = lastDecision, !.selection = selection,
                                   !.up = daemonUp]
        BY <1>3, <3>1 DEF ReadNext
      <4>2. QED
        BY <1>1, <2>1, <2>2, <3>1, <4>1 DEF ViewTypes, LogTypes
    <3>2. CASE looking = 1
      <4>1. found' = [found EXCEPT !.files = foldFile, !.unbuilt = unbuilt]
        BY <1>3, <3>2 DEF ReadNext
      <4>2. QED
        BY <1>1, <2>1, <2>2, <3>2, <4>1 DEF ViewTypes, FileTypes
    <3>3. CASE looking = 2
      <4>1. found' = [found EXCEPT !.pre = [f \in FoldIds |-> Trained(foldFile[f])],
                                   !.life = lifecycle, !.frozen = frozen, !.handoff = handoff]
        BY <1>3, <3>3 DEF ReadNext
      <4>2. QED
        BY <1>1, <2>1, <2>2, <3>3, <4>1 DEF ViewTypes, FileTypes
    <3>4. CASE looking = 3
      BY <1>1, <1>3, <2>1, <2>2, <3>4 DEF ReadNext, ViewTypes, FileTypes
    <3>5. CASE looking = 4
      BY <1>1, <1>3, <2>1, <2>2, <3>5 DEF ReadNext, ViewTypes, FileTypes
    <3>6. QED
      BY <2>1, <3>1, <3>2, <3>3, <3>4, <3>5
  <2>4. CASE looking = 0
    BY <1>3, <2>1, <2>2, <2>3, <2>4 DEF ReadNext, ViewTypes, ReachedStages, ReachedLife, ShownIsMade
  <2>5. CASE looking = 1
    <3>1. found' = [found EXCEPT !.files = foldFile, !.unbuilt = unbuilt]
      BY <1>3, <2>5 DEF ReadNext
    <3>2. found'.files = foldFile
      BY <1>1, <3>1 DEF ViewTypes
    <3>3. QED
      BY <2>1, <2>2, <2>3, <2>5, <3>2 DEF ReachedStages, ReachedLife, ShownIsMade
  <2>6. CASE looking = 2
    <3>1. found' = [found EXCEPT !.pre = [f \in FoldIds |-> Trained(foldFile[f])],
                                 !.life = lifecycle, !.frozen = frozen, !.handoff = handoff]
      BY <1>3, <2>6 DEF ReadNext
    <3>2. /\ found'.files = found.files /\ found'.life = lifecycle /\ found'.handoff = handoff
          /\ found'.pre = [f \in FoldIds |-> Trained(foldFile[f])]
      BY <1>1, <3>1 DEF ViewTypes
    <3>3. \A f \in FoldIds : found'.pre[f] => Trained(foldFile[f])
      BY <3>2
    <3>4. \A f \in FoldIds : Later(lifecycle[f], lifecycle[f])
      BY DEF Later
    <3>5. ReachedStages'
      BY <2>1, <2>2, <2>6, <3>2 DEF ReachedStages
    <3>6. ReachedLife'
      BY <2>1, <2>2, <2>6, <3>2, <3>3, <3>4 DEF ReachedLife, Trained
    <3>7. QED
      BY <2>1, <2>2, <2>3, <2>6, <3>5, <3>6 DEF ShownIsMade
  <2>7. CASE looking \in {3, 4}
    <3>1. /\ found'.files = found.files /\ found'.life = found.life /\ found'.pre = found.pre
          /\ found'.handoff = found.handoff
      BY <1>1, <1>3, <2>7 DEF ReadNext, ViewTypes
    <3>2. ReachedStages'
      BY <2>1, <2>2, <2>7, <3>1 DEF ReachedStages
    <3>3. ReachedLife'
      BY <2>1, <2>2, <2>7, <3>1 DEF ReachedLife, Trained, Later
    <3>4. QED
      BY <2>1, <2>2, <2>3, <2>7, <3>2, <3>3 DEF ShownIsMade
  <2>8. QED
    BY <2>1, <2>4, <2>5, <2>6, <2>7
<1>4. CASE ShowTimeline
  <2>1. looking = 5 /\ looking' = 6 /\ shown' = Timeline(found)
        /\ UNCHANGED <<foldFile, lifecycle, handoff, wasReset, found>>
    BY <1>4 DEF ShowTimeline, fileVars, lifeVars
  <2>2. ViewTypes'
    BY <1>1, <2>1 DEF ViewTypes
  <2>3. ReachedStages' /\ ReachedLife'
    BY <2>1 DEF ReachedStages, ReachedLife, Trained, Later
  <2>4. QED
    BY <2>1, <2>2, <2>3 DEF ShownIsMade
<1>5. CASE LookAway
  <2>1. looking' = 0 /\ found' = NothingSeen /\ shown' = NothingShown
    BY <1>5 DEF LookAway
  <2>2. ViewTypes'
    BY <2>1 DEF ViewTypes, NothingSeen, NoDecision, Decisions, Checkpoints, HandedOver
  <2>3. QED
    BY <2>1, <2>2 DEF ReachedStages, ReachedLife, ShownIsMade
<1>6. QED
  BY <1>2, <1>3, <1>4, <1>5 DEF TimelineNext

-----------------------------------------------------------------------------
\* The invariant of the list: it is made of what was read, which is not taken back but
\* by a reset, and of failures that the others have left as they leave them.
TimelineInv ==
    /\ TimelineTypes /\ Layered /\ OneOpen
    /\ FailuresAreLogged
    /\ KnownFailure(lastDecision) /\ KnownFailure(unlogged) /\ KnownFailure(found.decision)
    /\ ReachedStages /\ ReachedLife /\ ShownIsMade

\* The invariant is inductive,
LEMMA TimelineInvStep == TimelineInv /\ [TimelineNext]_timelineVars => TimelineInv'
<1> SUFFICES ASSUME TimelineInv, [TimelineNext]_timelineVars PROVE TimelineInv'
  OBVIOUS
<1>1. FileTypes' /\ Layered' /\ Grows /\ TakesUp
  BY FilesStep DEF TimelineInv
<1>2. OneOpen'
  BY <1>1, OneOpenStep DEF TimelineInv, TimelineTypes
<1>3. LogTypes' /\ FailuresAreLogged' /\ KnownFailure(lastDecision)' /\ KnownFailure(unlogged)'
      /\ KnownFailure(found.decision)'
  BY LogStep, LoggedStep, KnownStep DEF TimelineInv
<1>4. ViewTypes' /\ ReachedStages' /\ ReachedLife' /\ ShownIsMade'
  BY ViewStep DEF TimelineInv
<1>5. QED
  BY <1>1, <1>2, <1>3, <1>4 DEF TimelineInv, TimelineTypes

\* and holds at the start.
LEMMA TimelineInvInit == TimelineInit => TimelineInv
<1> SUFFICES ASSUME TimelineInit PROVE TimelineInv
  OBVIOUS
<1>1. NoDecision \in Decisions
  BY DEF NoDecision, Decisions
<1>2. \A f \in FoldIds : foldFile[f] = IF f = 1 THEN NewFold ELSE <<>>
  BY DEF TimelineInit
<1>3. FileTypes
  BY NewFoldType DEF TimelineInit, FileTypes, Checkpoints, HandedOver, Handlings
<1>4. LogTypes
  BY <1>1 DEF TimelineInit, LogTypes
<1>5. ViewTypes
  BY <1>1 DEF TimelineInit, ViewTypes, NothingSeen, Checkpoints, HandedOver
<1>6. Layered /\ FailuresAreLogged
  BY <1>2, NewFoldType DEF Layered, FailuresAreLogged
<1>7. OneOpen
  BY <1>2 DEF OneOpen
<1>8. KnownFailure(lastDecision) /\ KnownFailure(unlogged) /\ KnownFailure(found.decision)
  BY DEF TimelineInit, KnownFailure, NoDecision, NothingSeen
<1>9. ReachedStages /\ ReachedLife /\ ShownIsMade
  BY DEF TimelineInit, ReachedStages, ReachedLife, ShownIsMade
<1>10. QED
  BY <1>3, <1>4, <1>5, <1>6, <1>7, <1>8, <1>9 DEF TimelineInv, TimelineTypes

\* In every reachable state the list is made of what was read.
THEOREM TimelineInvariant == TimelineSpec => []TimelineInv
  BY TimelineInvInit, TimelineInvStep, PTL DEF TimelineSpec

-----------------------------------------------------------------------------
(* From what was read to what is shown: pure functions of found.            *)

Visibly(f) == f \in FoldIds /\ found.files[f] # <<>> /\ found.files[f] \in [StageIds -> Statuses]

\* A fold that is visible was read with a checkpoint.
LEMMA VisibleFolds ==
    ASSUME ViewTypes, NEW f \in Visible(found) PROVE Visibly(f)
  BY CheckpointIsThere DEF ViewTypes, Visible, Visibly

\* What the rows of a layer and of a lifecycle task are.
LEMMA LayerRows ==
    ASSUME ViewTypes, NEW f \in Visible(found), NEW l \in LayerTasks
    PROVE  LET r == LayerRow(found, f, l)
               a == found.files[f][2 * l - 1]
               m == found.files[f][2 * l]
           IN  /\ r.fold = f /\ r.task = l /\ r.status = LayerShown(found, f, l)
               /\ r.status \in {"blocked", "ready", "running", "succeeded", "failed"}
               /\ r.status = "succeeded" <=> a = "succeeded" /\ m = "succeeded"
               /\ r.state \in {"failed", "completed", "current", "future"}
               /\ r.state = "completed" => r.status = "succeeded"
               /\ r.status = "succeeded" => r.state \in {"completed", "failed"}
               /\ r.state = "failed" <=> FailedLast(found, f, l)
               /\ r.state = "current" => r.status \in {"ready", "running"}
<1> DEFINE a == found.files[f][2 * l - 1]
           m == found.files[f][2 * l]
<1>1. a \in Statuses /\ m \in Statuses
  BY VisibleFolds, LayersOfStages DEF Visibly
<1> DEFINE sa == StageShown(found, f, 2 * l - 1)
           sm == StageShown(found, f, 2 * l)
<1>2. /\ sa = IF a = "succeeded" THEN "succeeded" ELSE IF OnHold(found, f) THEN "blocked"
              ELSE IF a = "started" THEN "running" ELSE IF a = "reset" THEN "ready" ELSE a
      /\ sm = IF m = "succeeded" THEN "succeeded" ELSE IF OnHold(found, f) THEN "blocked"
              ELSE IF m = "started" THEN "running" ELSE IF m = "reset" THEN "ready" ELSE m
  BY DEF StageShown
<1>3. LayerShown(found, f, l) = IF "failed" \in {sa, sm} THEN "failed"
                                 ELSE IF sa # "succeeded" THEN sa ELSE sm
  BY DEF LayerShown
<1> HIDE DEF a, m, sa, sm
<1>4. LayerShown(found, f, l) \in {"blocked", "ready", "running", "succeeded", "failed"}
  BY <1>1, <1>2, <1>3 DEF Statuses
<1>5. LayerShown(found, f, l) = "succeeded" <=> a = "succeeded" /\ m = "succeeded"
  BY <1>1, <1>2, <1>3 DEF Statuses
<1>6. IsCurrent(found, f, l) => LayerShown(found, f, l) \in {"ready", "running"}
  BY DEF IsCurrent, Heads
<1> DEFINE r == LayerRow(found, f, l)
<1>7. r.fold = f /\ r.task = l /\ r.status = LayerShown(found, f, l)
  BY DEF LayerRow
<1>8. r.state = IF FailedLast(found, f, l) THEN "failed"
                ELSE IF LayerShown(found, f, l) = "succeeded" THEN "completed"
                ELSE IF IsCurrent(found, f, l) THEN "current" ELSE "future"
  <2>1. CASE FailedLast(found, f, l)
    BY <2>1 DEF LayerRow
  <2>2. CASE ~FailedLast(found, f, l) /\ LayerShown(found, f, l) = "succeeded"
    BY <1>6, <2>2 DEF LayerRow
  <2>3. CASE ~FailedLast(found, f, l) /\ LayerShown(found, f, l) # "succeeded" /\ IsCurrent(found, f, l)
    BY <2>3 DEF LayerRow
  <2>4. CASE ~FailedLast(found, f, l) /\ LayerShown(found, f, l) # "succeeded" /\ ~IsCurrent(found, f, l)
    BY <2>4 DEF LayerRow
  <2>5. QED
    BY <2>1, <2>2, <2>3, <2>4
<1> HIDE DEF r
<1>9. QED
  BY <1>4, <1>5, <1>6, <1>7, <1>8 DEF a, m, r

\* A task is done once the fold is as far as DoneBy says, or was handed over as another was.
LEMMA LifecycleRows ==
    ASSUME ViewTypes, NEW f \in Visible(found), NEW t \in LifecycleTasks
    PROVE  LET r == LifecycleRow(found, f, t)
           IN  /\ r.fold = f /\ r.task = t
               /\ r.state \in {"completed", "skipped", "current", "future"}
               /\ r.status \in {"rejected", "succeeded", "not_applicable", "ready", "blocked"}
               /\ r.state \in {"current", "completed", "skipped"} => found.pre[f]
               /\ r.state = "completed" =>
                      \/ found.life[f] \in DoneBy(t)
                      \/ t = Maintenance /\ found.life[f] = Eligible /\ found.handoff
               /\ r.state = "skipped" => found.life[f] = Rejected
               /\ IsTerminal(r) => r.state \in {"completed", "skipped"}
               /\ t = Maintenance /\ r.state \in {"completed", "skipped"} =>
                      \/ found.life[f] \in {Rejected, HandedOver}
                      \/ found.life[f] = Eligible /\ found.handoff
<1> DEFINE n == LifeShown(found, f)
           done == IsDone(found, f, t)
           due == IsDue(found, f, t)
           can == IF t = Replay THEN DatasetFrozen(found, f) ELSE due
           skip == t = Maintenance /\ IsRejected(found, f)
           r == LifecycleRow(found, f, t)
<1>1. f \in FoldIds /\ found.life[f] \in 0 .. 5
  BY DEF ViewTypes, Visible, HandedOver
<1>2. n \in 0 .. 5 /\ (n # 0 => found.pre[f] /\ n = found.life[f])
  BY <1>1 DEF LifeShown
<1>3. PICK k \in 1 .. 5 : t = NumLayers + k
  BY Counts DEF LifecycleTasks, Replay, Maintenance
<1>4. t - NumLayers = k /\ NumLayers \in Nat
  BY <1>3, Counts
<1>5. /\ k = 1 <=> t = Replay
      /\ k = 2 <=> t = Replay + 1
      /\ k = 3 <=> t = Replay + 2
      /\ k = 4 <=> t = Promotion
      /\ k = 5 <=> t = Maintenance
  BY <1>3, <1>4 DEF Replay, Promotion, Maintenance
<1>6. DoneBy(t) = CASE k = 1 -> {1, 2, 3, 4, 5}
                    [] k = 2 -> {2, 3, 4, 5}
                    [] k = 3 -> {3, 4, 5}
                    [] k = 4 -> {3, 4, 5}
                    [] k = 5 -> {5}
  <2>1. CASE k = 1
    BY <1>5, <2>1, <1>4 DEF DoneBy, Replayed, Reviewed, Rejected, Eligible, HandedOver, Replay, Promotion, Maintenance
  <2>2. CASE k = 2
    BY <1>5, <2>2, <1>4 DEF DoneBy, Replayed, Reviewed, Rejected, Eligible, HandedOver, Replay, Promotion, Maintenance
  <2>3. CASE k = 3
    BY <1>5, <2>3, <1>4 DEF DoneBy, Replayed, Reviewed, Rejected, Eligible, HandedOver, Replay, Promotion, Maintenance
  <2>4. CASE k = 4
    BY <1>5, <2>4, <1>4 DEF DoneBy, Replayed, Reviewed, Rejected, Eligible, HandedOver, Replay, Promotion, Maintenance
  <2>5. CASE k = 5
    BY <1>5, <2>5, <1>4 DEF DoneBy, Replayed, Reviewed, Rejected, Eligible, HandedOver, Replay, Promotion, Maintenance
  <2>6. QED
    BY <2>1, <2>2, <2>3, <2>4, <2>5
<1>7. /\ k = 1 => (done <=> n >= 1) /\ (due <=> found.pre[f])
      /\ k = 2 => (done <=> n >= 2) /\ (due <=> n >= 1)
      /\ k = 3 => (done <=> n >= 3) /\ (due <=> n >= 2)
      /\ k = 4 => (done <=> n >= 3) /\ (due <=> n >= 3)
      /\ k = 5 => (done <=> n >= 4 /\ found.handoff) /\ (due <=> n >= 4)
  <2>1. ASSUME k = 1 PROVE (done <=> n >= 1) /\ (due <=> found.pre[f])
    BY <1>4, <1>5, <2>1 DEF IsDone, IsDue, ReplayDone, ReviewDone, PromotionDecided, IsEligible,
                    HandedOn, Replayed, Reviewed, Rejected, Eligible
  <2>2. ASSUME k = 2 PROVE (done <=> n >= 2) /\ (due <=> n >= 1)
    BY <1>4, <1>5, <2>2 DEF IsDone, IsDue, ReplayDone, ReviewDone, PromotionDecided, IsEligible,
                    HandedOn, Replayed, Reviewed, Rejected, Eligible
  <2>3. ASSUME k = 3 PROVE (done <=> n >= 3) /\ (due <=> n >= 2)
    BY <1>4, <1>5, <2>3 DEF IsDone, IsDue, ReplayDone, ReviewDone, PromotionDecided, IsEligible,
                    HandedOn, Replayed, Reviewed, Rejected, Eligible
  <2>4. ASSUME k = 4 PROVE (done <=> n >= 3) /\ (due <=> n >= 3)
    BY <1>4, <1>5, <2>4 DEF IsDone, IsDue, ReplayDone, ReviewDone, PromotionDecided, IsEligible,
                    HandedOn, Replayed, Reviewed, Rejected, Eligible
  <2>5. ASSUME k = 5 PROVE (done <=> n >= 4 /\ found.handoff) /\ (due <=> n >= 4)
    BY <1>4, <1>5, <2>5 DEF IsDone, IsDue, ReplayDone, ReviewDone, PromotionDecided, IsEligible,
                    HandedOn, Replayed, Reviewed, Rejected, Eligible
  <2>6. QED
    BY <2>1, <2>2, <2>3, <2>4, <2>5
<1>8. skip <=> k = 5 /\ n = 3
  BY <1>5 DEF IsRejected, Rejected
<1>9. r = [fold |-> f, task |-> t,
           state |-> CASE done -> "completed"
                       [] skip -> "skipped"
                       [] due /\ ~done /\ ~skip -> "current"
                       [] OTHER -> "future",
           status |-> CASE done -> IF t = Promotion /\ IsRejected(found, f)
                                   THEN "rejected" ELSE "succeeded"
                        [] skip -> "not_applicable"
                        [] can /\ ~done /\ ~skip -> "ready"
                        [] OTHER -> "blocked"]
  BY DEF LifecycleRow
<1> HIDE DEF done, due, can, skip, n, r
<1>10. done => n # 0 /\ (n \in DoneBy(t) \/ (k = 5 /\ n = 4 /\ found.handoff))
  BY <1>2, <1>3, <1>7, <1>6
<1>11. due => found.pre[f]
  BY <1>2, <1>3, <1>7
<1>12. ~(done /\ skip)
  BY <1>2, <1>7, <1>8
<1>13. r.fold = f /\ r.task = t
  BY <1>9
<1>14. r.state = IF done THEN "completed" ELSE IF skip THEN "skipped" ELSE IF due THEN "current" ELSE "future"
  <2>1. CASE done
    BY <1>9, <1>12, <2>1
  <2>2. CASE ~done /\ skip
    BY <1>9, <2>2
  <2>3. CASE ~done /\ ~skip
    BY <1>9, <2>3
  <2>4. QED
    BY <2>1, <2>2, <2>3
<1>15. /\ done => r.status \in {"rejected", "succeeded"}
       /\ ~done /\ skip => r.status = "not_applicable"
       /\ ~done /\ ~skip => r.status \in {"ready", "blocked"}
  <2>1. CASE done
    BY <1>9, <1>12, <2>1
  <2>2. CASE ~done /\ skip
    BY <1>9, <2>2
  <2>3. CASE ~done /\ ~skip
    BY <1>9, <2>3
  <2>4. QED
    BY <2>1, <2>2, <2>3
<1>16. IsTerminal(r) => r.state \in {"completed", "skipped"}
  BY <1>14, <1>15 DEF IsTerminal
<1>17. done => /\ found.pre[f]
               /\ \/ found.life[f] \in DoneBy(t)
                  \/ t = Maintenance /\ found.life[f] = Eligible /\ found.handoff
  BY <1>2, <1>5, <1>10 DEF Eligible
<1>18. skip => found.pre[f] /\ found.life[f] = Rejected
  BY <1>2, <1>8 DEF Rejected
<1>19. t = Maintenance /\ (done \/ skip) =>
          \/ found.life[f] \in {Rejected, HandedOver}
          \/ found.life[f] = Eligible /\ found.handoff
  BY <1>2, <1>7, <1>5, <1>8 DEF Rejected, HandedOver, Eligible
<1>20. QED
  BY <1>11, <1>13, <1>14, <1>15, <1>16, <1>17, <1>18, <1>19 DEF r

-----------------------------------------------------------------------------
TaskRows ==
    [fold : FoldIds, task : Nat,
     status : {"blocked", "ready", "running", "succeeded", "failed", "rejected", "not_applicable"},
     state : {"failed", "completed", "skipped", "current", "future", "blocked"}]

\* The types of the rows.
LEMMA RowsTyped ==
    ASSUME ViewTypes, NEW r \in Rows(found) PROVE r \in TaskRows
<1>1. CASE \E f \in Visible(found), l \in LayerTasks : r = LayerRow(found, f, l)
  <2>1. PICK f \in Visible(found), l \in LayerTasks : r = LayerRow(found, f, l)
    BY <1>1
  <2>2. r = [fold |-> f, task |-> l, status |-> r.status, state |-> r.state]
    BY <2>1 DEF LayerRow
  <2>3. f \in FoldIds /\ l \in Nat
    BY Counts DEF Visible
  <2>4. /\ r.status \in {"blocked", "ready", "running", "succeeded", "failed"}
        /\ r.state \in {"failed", "completed", "current", "future"}
    BY <2>1, LayerRows
  <2>5. QED
    BY <2>2, <2>3, <2>4 DEF TaskRows
<1>2. CASE \E f \in Visible(found), t \in LifecycleTasks : r = LifecycleRow(found, f, t)
  <2>1. PICK f \in Visible(found), t \in LifecycleTasks : r = LifecycleRow(found, f, t)
    BY <1>2
  <2>2. r = [fold |-> f, task |-> t, status |-> r.status, state |-> r.state]
    BY <2>1 DEF LifecycleRow
  <2>3. f \in FoldIds /\ t \in Nat
    BY Counts DEF Visible, LifecycleTasks, Replay, Maintenance
  <2>4. /\ r.state \in {"completed", "skipped", "current", "future"}
        /\ r.status \in {"rejected", "succeeded", "not_applicable", "ready", "blocked"}
    BY <2>1, LifecycleRows
  <2>5. QED
    BY <2>2, <2>3, <2>4 DEF TaskRows
<1>3. QED
  BY <1>1, <1>2 DEF Rows

\* What the gate makes of the row r of the rows.
Behind(rows, r) == \E q \in rows : ~IsTerminal(q) /\ q.fold < r.fold
GateOf(rows, r, g) ==
    /\ g \in TaskRows /\ g.fold = r.fold /\ g.task = r.task
    /\ IsTerminal(r) => g = r
    /\ ~IsTerminal(r) /\ Behind(rows, r) => g.state = "blocked" /\ g.status = "blocked"
    /\ ~IsTerminal(r) /\ ~Behind(rows, r) =>
          g = r \/ (r.status = "blocked" /\ g = [r EXCEPT !.state = "blocked"])

\* Every row passes the gate, and nothing else comes out of it.
LEMMA GatedRows ==
    ASSUME NEW rows \in SUBSET TaskRows
    PROVE  /\ \A g \in Gated(rows) : \E r \in rows : GateOf(rows, r, g)
           /\ \A r \in rows : \E g \in Gated(rows) : GateOf(rows, r, g)
<1> DEFINE open == {t.fold : t \in {u \in rows : ~IsTerminal(u)}}
           Gate(t) ==
            CASE IsTerminal(t) \/ t.fold < Min(open) -> t
              [] ~IsTerminal(t) /\ t.fold > Min(open) ->
                    [t EXCEPT !.state = "blocked", !.status = "blocked"]
              [] ~IsTerminal(t) /\ t.fold = Min(open) ->
                    IF t.status = "blocked" /\ t.state # "current"
                    THEN [t EXCEPT !.state = "blocked"] ELSE t
<1>1. Gated(rows) = IF open = {} THEN rows ELSE {Gate(t) : t \in rows}
  BY DEF Gated
<1>2. \A r \in rows : ~IsTerminal(r) => r.fold \in open
  OBVIOUS
<1>3. \A x \in open : \E r \in rows : ~IsTerminal(r) /\ r.fold = x
  OBVIOUS
<1>4. open \in SUBSET Nat
  BY Counts DEF TaskRows
<1> DEFINE low == Min(open)
<1>5. open # {} => low \in open /\ \A x \in open : low <= x
  BY <1>4, LeastPlace
<1>6. CASE open = {}
  <2>1. \A r \in rows : IsTerminal(r)
    BY <1>2, <1>6
  <2>2. QED
    BY <1>1, <1>6, <2>1 DEF GateOf
<1>7. CASE open # {}
  <2>1. ASSUME NEW r \in rows PROVE GateOf(rows, r, Gate(r))
    <3>1. low \in Nat /\ low \in open /\ r.fold \in Nat /\ r \in TaskRows
      BY <1>4, <1>5, <1>7, Counts DEF TaskRows
    <3>2. CASE IsTerminal(r)
      <4>1. Gate(r) = r
        BY <3>2
      <4>2. QED
        BY <3>1, <3>2, <4>1 DEF GateOf
    <3>3. CASE ~IsTerminal(r) /\ r.fold > low
      <4>1. Gate(r) = [r EXCEPT !.state = "blocked", !.status = "blocked"]
        BY <3>1, <3>3
      <4>2. Behind(rows, r)
        BY <1>3, <3>1, <3>3 DEF Behind
      <4>3. QED
        BY <3>1, <3>3, <4>1, <4>2 DEF GateOf, TaskRows
    <3>4. CASE ~IsTerminal(r) /\ r.fold = low
      <4>1. Gate(r) = IF r.status = "blocked" /\ r.state # "current"
                      THEN [r EXCEPT !.state = "blocked"] ELSE r
        BY <3>1, <3>4
      <4>2. ~Behind(rows, r)
        <5>1. SUFFICES ASSUME NEW q \in rows, ~IsTerminal(q), q.fold < r.fold PROVE FALSE
          BY DEF Behind
        <5>2. low <= q.fold /\ q.fold \in Nat
          BY <1>2, <1>4, <1>5, <1>7, <5>1
        <5>3. QED
          BY <3>1, <3>4, <5>1, <5>2
      <4>3. QED
        BY <3>1, <3>4, <4>1, <4>2 DEF GateOf, TaskRows
    <3>5. ~IsTerminal(r) => r.fold >= low
      BY <1>2, <1>5, <1>7, <3>1
    <3>6. QED
      BY <3>1, <3>2, <3>3, <3>4, <3>5
  <2> HIDE DEF Gate
  <2>2. \A g \in Gated(rows) : \E r \in rows : g = Gate(r)
    BY <1>1, <1>7
  <2>3. \A r \in rows : Gate(r) \in Gated(rows)
    BY <1>1, <1>7
  <2>4. QED
    BY <2>1, <2>2, <2>3
<1>8. QED
  BY <1>6, <1>7

\* What becomes of a row after the gate: a failure that waits makes it current, and
\* of a current one only the status is changed for being the named one.
LEMMA AttachedRows ==
    ASSUME NEW v, NEW g \in TaskRows
    PROVE  LET u == Attached(v, g)
           IN  /\ u \in TaskRows /\ u.fold = g.fold /\ u.task = g.task
               /\ \/ u = g
                  \/ /\ FailuresOf(v, g) # {} /\ u.state = "current" /\ u.status = "running"
                     /\ g.state \notin {"completed", "skipped", "failed"}
               /\ u = g => \/ FailuresOf(v, g) = {}
                           \/ ErrorsOf(v, g) # {} /\ "open" \notin ErrorsOf(v, g)
                           \/ g.state # "future"
<1>1. CASE Attached(v, g) = g /\ ~(/\ FailuresOf(v, g) # {}
                                   /\ ErrorsOf(v, g) = {} \/ "open" \in ErrorsOf(v, g)
                                   /\ g.state \notin {"completed", "skipped", "failed"})
  BY <1>1
<1>2. CASE /\ FailuresOf(v, g) # {} /\ g.state \notin {"completed", "skipped", "failed"}
           /\ Attached(v, g) = [g EXCEPT !.state = "current", !.status = "running"]
  <2>1. /\ Attached(v, g) \in TaskRows
        /\ Attached(v, g).state = "current" /\ Attached(v, g).status = "running"
        /\ Attached(v, g).fold = g.fold /\ Attached(v, g).task = g.task
    BY <1>2 DEF TaskRows
  <2>2. g.state = "future" => Attached(v, g) # g
    BY <2>1
  <2>3. QED
    BY <1>2, <2>1, <2>2
<1>3. QED
  BY <1>1, <1>2 DEF Attached

\* The active task differs from its row by its status only.
LEMMA ShownActiveRows ==
    ASSUME NEW v, NEW u \in TaskRows
    PROVE  LET t == ShownActive(v, u)
           IN  /\ t.fold = u.fold /\ t.task = u.task /\ t.state = u.state
               /\ u.state # "current" => t = u
               /\ t.status \in {u.status, "blocked", "running"}
<1>1. ShownActive(v, u) \in {u, [u EXCEPT !.status = "blocked"], [u EXCEPT !.status = "running"]}
      /\ (u.state # "current" => ShownActive(v, u) = u)
  BY DEF ShownActive
<1>2. QED
  BY <1>1 DEF TaskRows

\* The active task is one of the rows.
LEMMA ActiveIsARow ==
    ASSUME NEW v, NEW rows PROVE ShownTask(v, rows) \subseteq rows
<1>1. \A S : FirstRow(S) \subseteq S /\ Latest(S) \subseteq S
  BY DEF FirstRow, Latest
<1>2. QED
  BY <1>1 DEF ActiveTask, ShownTask

\* A row that is shown comes from one that was read.
LEMMA ShownRows ==
    ASSUME ViewTypes, NEW t \in Timeline(found).tasks
    PROVE  \E r \in Rows(found), g \in TaskRows :
              /\ GateOf(Rows(found), r, g)
              /\ Attached(found, g).state # "future"
              /\ \/ t = Attached(found, g)
                 \/ t = ShownActive(found, Attached(found, g))
<1> DEFINE rows == PublicRows(found)
           named == ShownTask(found, rows)
<1>1. Timeline(found).tasks = (rows \ named) \cup {ShownActive(found, u) : u \in named}
  BY DEF Timeline
<1>2. named \subseteq rows
  BY ActiveIsARow
<1> HIDE DEF named
<1>3. PICK u \in rows : t = u \/ t = ShownActive(found, u)
  BY <1>1, <1>2
<1>4. PICK g \in Gated(Rows(found)) : u = Attached(found, g) /\ u.state # "future"
  BY <1>3 DEF PublicRows
<1>5. Rows(found) \in SUBSET TaskRows
  BY RowsTyped
<1>6. PICK r \in Rows(found) : GateOf(Rows(found), r, g)
  BY <1>4, <1>5, GatedRows
<1>7. g \in TaskRows
  BY <1>6 DEF GateOf
<1>8. QED
  BY <1>3, <1>4, <1>6, <1>7

\* A row that was read is shown unless it is of what is to come.
LEMMA RowsAreShown ==
    ASSUME ViewTypes, NEW r \in Rows(found)
    PROVE  \E g \in TaskRows :
              /\ GateOf(Rows(found), r, g)
              /\ \/ Attached(found, g).state = "future"
                 \/ \E t \in Timeline(found).tasks : t.fold = r.fold /\ t.task = r.task
<1> DEFINE rows == PublicRows(found)
           named == ShownTask(found, rows)
<1>1. Timeline(found).tasks = (rows \ named) \cup {ShownActive(found, u) : u \in named}
  BY DEF Timeline
<1>2. Rows(found) \in SUBSET TaskRows
  BY RowsTyped
<1>3. PICK g \in Gated(Rows(found)) : GateOf(Rows(found), r, g)
  BY <1>2, GatedRows
<1>4. g \in TaskRows /\ g.fold = r.fold /\ g.task = r.task
  BY <1>3 DEF GateOf
<1>5. CASE Attached(found, g).state # "future"
  <2> DEFINE u == Attached(found, g)
  <2>1. u \in rows
    BY <1>3, <1>5 DEF PublicRows
  <2>2. u \in TaskRows /\ u.fold = r.fold /\ u.task = r.task
    BY <1>4, AttachedRows
  <2>3. ShownActive(found, u).fold = r.fold /\ ShownActive(found, u).task = r.task
    BY <2>2, ShownActiveRows
  <2> HIDE DEF u, named, rows
  <2>4. u \in Timeline(found).tasks \/ ShownActive(found, u) \in Timeline(found).tasks
    BY <1>1, <2>1
  <2>5. QED
    BY <1>3, <1>4, <2>2, <2>3, <2>4
<1>6. QED
  BY <1>3, <1>4, <1>5

\* A row is of a layer or of a task after training.
LEMMA RowKinds ==
    ASSUME NEW r \in Rows(found)
    PROVE  \/ \E f \in Visible(found), l \in LayerTasks : r = LayerRow(found, f, l)
           \/ \E f \in Visible(found), t \in LifecycleTasks : r = LifecycleRow(found, f, t)
  BY DEF Rows

\* The tasks after training are not layers.
LEMMA TasksAreApart ==
    /\ \A t \in LifecycleTasks : t \notin LayerTasks /\ t \in Nat
    /\ Maintenance \in LifecycleTasks
  BY Counts DEF LifecycleTasks, LayerTasks, Replay, Maintenance

\* No failure of the register is of a lifecycle task.
LEMMA NoLifecycleFailures ==
    ASSUME ViewTypes, NEW t, t.task \in LifecycleTasks PROVE FailuresOf(found, t) = {}
<1>1. \A x \in found.register : LayerOf(x.stage) \in LayerTasks
  BY LayersOfStages DEF ViewTypes, Failures
<1>2. QED
  BY <1>1, TasksAreApart DEF FailuresOf

\* Nothing is terminal and at work.
LEMMA TerminalRows ==
    ASSUME ViewTypes, NEW r \in Rows(found), IsTerminal(r)
    PROVE  r.state \in {"completed", "skipped", "failed"} /\ r.status # "running"
<1>1. ASSUME NEW f \in Visible(found), NEW l \in LayerTasks, r = LayerRow(found, f, l)
      PROVE  r.state \in {"completed", "skipped", "failed"} /\ r.status # "running"
  <2>1. r.status = "succeeded"
    BY <1>1, LayerRows DEF IsTerminal
  <2>2. QED
    BY <1>1, <2>1, LayerRows
<1>2. ASSUME NEW f \in Visible(found), NEW t \in LifecycleTasks, r = LifecycleRow(found, f, t)
      PROVE  r.state \in {"completed", "skipped", "failed"} /\ r.status # "running"
  BY <1>2, LifecycleRows
<1>3. QED
  BY <1>1, <1>2, RowKinds

\* A fold that is not closed, as it was read, has a row that is not terminal.
ClosedAsRead(f) ==
    /\ Trained(found.files[f]) /\ found.pre[f]
    /\ \/ found.life[f] \in {Rejected, HandedOver}
       \/ found.life[f] = Eligible /\ found.handoff

\* Such a fold has an open row, which closes the gate behind it.
LEMMA OpenFoldHasARow ==
    ASSUME ViewTypes, NEW f \in Visible(found), ~ClosedAsRead(f)
    PROVE  \E q \in Rows(found) : ~IsTerminal(q) /\ q.fold = f
<1>1. CASE ~Trained(found.files[f])
  <2>1. PICK i \in StageIds : found.files[f][i] # "succeeded"
    BY <1>1 DEF Trained, Visible
  <2>2. PICK l \in LayerTasks : i \in {2 * l - 1, 2 * l}
    BY LayersOfStages
  <2> DEFINE q == LayerRow(found, f, l)
  <2>3. q \in Rows(found)
    BY DEF Rows
  <2>4. q.fold = f /\ q.status # "succeeded" /\ ~IsTerminal(q)
    BY <2>1, <2>2, LayerRows DEF IsTerminal
  <2>5. QED
    BY <2>3, <2>4
<1>2. CASE ~(/\ found.pre[f]
             /\ \/ found.life[f] \in {Rejected, HandedOver}
                \/ found.life[f] = Eligible /\ found.handoff)
  <2> DEFINE q == LifecycleRow(found, f, Maintenance)
  <2>1. q \in Rows(found)
    BY TasksAreApart DEF Rows
  <2>2. q.fold = f /\ ~IsTerminal(q)
    BY <1>2, TasksAreApart, LifecycleRows
  <2>3. QED
    BY <2>1, <2>2
<1>3. QED
  BY <1>1, <1>2 DEF ClosedAsRead

-----------------------------------------------------------------------------
(* The four parts of the property.                                           *)

\* What a fold has done it has done later on.
LEMMA DoneStays ==
    ASSUME NEW t \in LifecycleTasks, NEW n \in 0 .. HandedOver, NEW m \in 0 .. HandedOver,
           Later(n, m), n \in DoneBy(t)
    PROVE  m \in DoneBy(t)
<1>1. PICK k \in 1 .. 5 : t = NumLayers + k
  BY Counts DEF LifecycleTasks, Replay, Maintenance
<1>2. DoneBy(t) \in {{1, 2, 3, 4, 5}, {2, 3, 4, 5}, {3, 4, 5}, {5}}
  BY <1>1, Counts DEF DoneBy, Replay, Promotion, Maintenance, Replayed, Reviewed, Rejected, Eligible, HandedOver
<1>3. n \in 0 .. 5 /\ m \in 0 .. 5 /\ n <= m
  BY DEF Later, HandedOver
<1>4. QED
  BY <1>2, <1>3

\* What is shown as done or due is so in the files.
LEMMA AheadOfNothing ==
    ASSUME TimelineInv PROVE NothingIsAhead
<1> USE DEF TimelineInv, TimelineTypes
<1>1. SUFFICES ASSUME NEW t \in shown.tasks, wasReset[t.fold] # "now"
      PROVE
        /\ t.task \in LayerTasks /\ (t.state = "completed" \/ t.status = "succeeded") =>
               \A i \in {2 * t.task - 1, 2 * t.task} :
                   foldFile[t.fold][i] = "succeeded"
        /\ t.task \in LifecycleTasks /\ t.state \in {"current", "completed", "skipped"} =>
               Trained(foldFile[t.fold])
        /\ t.task \in LifecycleTasks /\ t.state = "completed" =>
               \/ lifecycle[t.fold] \in DoneBy(t.task)
               \/ t.task = Maintenance /\ lifecycle[t.fold] = Eligible /\ handoff
        /\ t.state = "skipped" => lifecycle[t.fold] = Rejected
  BY DEF NothingIsAhead
<1>2. looking = 6 /\ t \in Timeline(found).tasks
  BY DEF ShownIsMade, NothingShown
<1>3. PICK r \in Rows(found), g \in TaskRows :
              /\ GateOf(Rows(found), r, g)
              /\ Attached(found, g).state # "future"
              /\ \/ t = Attached(found, g)
                 \/ t = ShownActive(found, Attached(found, g))
  BY <1>2, ShownRows
<1> DEFINE u == Attached(found, g)
<1>4. r \in TaskRows
  BY RowsTyped
<1>5. g.fold = r.fold /\ g.task = r.task /\ (g = r \/ g.state = "blocked") /\ g.status \in {r.status, "blocked"}
  BY <1>3, <1>4 DEF GateOf, TaskRows
<1>6. /\ u \in TaskRows /\ u.fold = g.fold /\ u.task = g.task
      /\ u = g \/ (FailuresOf(found, g) # {} /\ u.state = "current" /\ u.status = "running")
  BY AttachedRows
<1> HIDE DEF u
<1>7. t.fold = u.fold /\ t.task = u.task /\ t.state = u.state /\ t.status \in {u.status, "blocked", "running"}
  BY <1>3, <1>6, ShownActiveRows DEF u
<1>8. t.fold = r.fold /\ t.task = r.task
  BY <1>5, <1>6, <1>7
<1>9. t.status = "succeeded" => r.status = "succeeded"
  BY <1>5, <1>6, <1>7
<1>10. t.state \in {"completed", "skipped"} => t.state = r.state
  BY <1>5, <1>6, <1>7
<1>11. t.task \in LifecycleTasks /\ t.state = "current" => r.state = "current"
  <2>1. t.task \in LifecycleTasks => FailuresOf(found, g) = {}
    BY <1>5, <1>8, NoLifecycleFailures
  <2>2. QED
    BY <1>5, <1>6, <1>7, <2>1
<1>12. ASSUME NEW f \in Visible(found), NEW l \in LayerTasks, r = LayerRow(found, f, l)
       PROVE  /\ t.task \in LayerTasks /\ (t.state = "completed" \/ t.status = "succeeded") =>
                     \A i \in {2 * t.task - 1, 2 * t.task} :
                         foldFile[t.fold][i] = "succeeded"
              /\ t.task \notin LifecycleTasks /\ t.state # "skipped"
  <2>1. r.fold = f /\ r.task = l /\ r.state # "skipped"
    BY <1>12, LayerRows
  <2>2. (t.state = "completed" \/ t.status = "succeeded") =>
           found.files[f][2 * l - 1] = "succeeded" /\ found.files[f][2 * l] = "succeeded"
    BY <1>9, <1>10, <1>12, LayerRows
  <2>3. f \in FoldIds /\ found.files[f] # <<>> /\ 2 * l - 1 \in StageIds /\ 2 * l \in StageIds
    BY LayersOfStages DEF Visible
  <2>4. (t.state = "completed" \/ t.status = "succeeded") =>
           foldFile[f][2 * l - 1] = "succeeded" /\ foldFile[f][2 * l] = "succeeded"
    BY <1>1, <1>2, <1>8, <2>1, <2>2, <2>3 DEF ReachedStages
  <2>5. t.task \notin LifecycleTasks /\ t.state # "skipped"
    BY <1>8, <1>10, <2>1, TasksAreApart
  <2>6. QED
    BY <1>8, <2>1, <2>4, <2>5
<1>13. ASSUME NEW f \in Visible(found), NEW k \in LifecycleTasks, r = LifecycleRow(found, f, k)
       PROVE  /\ t.task \notin LayerTasks
              /\ t.state \in {"current", "completed", "skipped"} => Trained(foldFile[t.fold])
              /\ t.state = "completed" =>
                     \/ lifecycle[t.fold] \in DoneBy(t.task)
                     \/ t.task = Maintenance /\ lifecycle[t.fold] = Eligible /\ handoff
              /\ t.state = "skipped" => lifecycle[t.fold] = Rejected
  <2>1. t.fold = f /\ t.task = k /\ f \in FoldIds
    BY <1>8, <1>13, LifecycleRows DEF Visible
  <2>2. t.state \in {"current", "completed", "skipped"} => r.state = t.state
    BY <1>10, <1>11, <2>1
  <2>3. t.state \in {"current", "completed", "skipped"} => Trained(foldFile[f])
    BY <1>1, <1>2, <1>13, <2>1, <2>2, LifecycleRows DEF ReachedLife
  <2>4. /\ Later(found.life[f], lifecycle[f]) /\ lifecycle[f] \in 0 .. HandedOver
        /\ found.handoff => handoff
    BY <1>1, <1>2, <2>1 DEF ReachedLife, FileTypes
  <2>5. found.life[f] \in DoneBy(k) => lifecycle[f] \in DoneBy(k)
    BY <2>1, <2>4, DoneStays DEF ViewTypes
  <2>6. found.life[f] = Eligible => lifecycle[f] \in {Eligible, HandedOver}
    BY <2>4 DEF Later, Eligible, HandedOver
  <2>7. k = Maintenance => HandedOver \in DoneBy(k)
    BY Counts DEF DoneBy, Replay, Promotion, Maintenance
  <2>8. t.state = "completed" =>
           \/ lifecycle[f] \in DoneBy(k)
           \/ k = Maintenance /\ lifecycle[f] = Eligible /\ handoff
    BY <1>13, <2>2, <2>4, <2>5, <2>6, <2>7, LifecycleRows
  <2>9. t.state = "skipped" => lifecycle[f] = Rejected
    BY <1>13, <2>2, <2>4, LifecycleRows DEF Later
  <2>10. QED
    BY <2>1, <2>3, <2>8, <2>9, TasksAreApart
<1>14. QED
  BY <1>12, <1>13, RowKinds

\* A row comes to be current or running through the gate only when no task of an
\* earlier fold is open.
LEMMA OneAtATime ==
    ASSUME TimelineInv PROVE OneFoldAtATime
<1> USE DEF TimelineInv, TimelineTypes
<1>1. SUFFICES ASSUME NEW t \in shown.tasks,
                      t.state = "current" \/ t.status = "running",
                      FailuresOf(found, t) = {}
      PROVE  \A f \in 1 .. t.fold - 1 : found.files[f] # <<>> => ClosedAsRead(f)
  BY DEF OneFoldAtATime, ClosedAsRead
<1>2. looking = 6 /\ t \in Timeline(found).tasks
  BY DEF ShownIsMade, NothingShown
<1>3. PICK r \in Rows(found), g \in TaskRows :
              /\ GateOf(Rows(found), r, g)
              /\ Attached(found, g).state # "future"
              /\ \/ t = Attached(found, g)
                 \/ t = ShownActive(found, Attached(found, g))
  BY <1>2, ShownRows
<1> DEFINE u == Attached(found, g)
<1>4. r \in TaskRows /\ g.fold = r.fold /\ g.task = r.task
  BY <1>3, RowsTyped DEF GateOf
<1>5. /\ u \in TaskRows /\ u.fold = g.fold /\ u.task = g.task
      /\ u = g \/ FailuresOf(found, g) # {}
  BY AttachedRows
<1> HIDE DEF u
<1>6. t.fold = u.fold /\ t.task = u.task /\ t.state = u.state
      /\ (u.state # "current" => t = u)
  BY <1>3, <1>5, ShownActiveRows DEF u
<1>7. FailuresOf(found, g) = FailuresOf(found, t)
  BY <1>5, <1>6 DEF FailuresOf
<1>8. u = g /\ (g.state = "current" \/ g.status = "running")
  BY <1>1, <1>5, <1>6, <1>7
<1>9. ~IsTerminal(r)
  <2>1. SUFFICES ASSUME IsTerminal(r) PROVE FALSE
    OBVIOUS
  <2>2. g = r
    BY <1>3, <2>1 DEF GateOf
  <2>3. r.state \in {"completed", "skipped", "failed"} /\ r.status # "running"
    BY <2>1, TerminalRows
  <2>4. QED
    BY <1>8, <2>2, <2>3
<1>10. ~Behind(Rows(found), r)
  BY <1>3, <1>8, <1>9 DEF GateOf
<1>11. ASSUME NEW f \in 1 .. t.fold - 1, found.files[f] # <<>> PROVE ClosedAsRead(f)
  <2>1. t.fold = r.fold /\ r.fold \in FoldIds
    BY <1>4, <1>5, <1>6 DEF TaskRows
  <2>2. f \in Visible(found) /\ f < r.fold
    BY <1>11, <2>1, Counts DEF Visible, FoldIds
  <2>3. SUFFICES ASSUME ~ClosedAsRead(f) PROVE FALSE
    OBVIOUS
  <2>4. \E q \in Rows(found) : ~IsTerminal(q) /\ q.fold = f
    BY <2>2, <2>3, OpenFoldHasARow
  <2>5. QED
    BY <1>10, <2>2, <2>4 DEF Behind
<1>12. QED
  BY <1>11

\* A failed stage is hidden only by a decision other than that of its failure.
LEMMA FailuresShow ==
    ASSUME TimelineInv PROVE FailuresAreShown
<1> USE DEF TimelineInv, TimelineTypes
<1>1. SUFFICES ASSUME NEW f \in Visible(found), NEW l \in LayerTasks, looking = 6,
                      LayerShown(found, f, l) = "failed",
                      \A t \in shown.tasks : t.fold # f \/ t.task # l
      PROVE  /\ \/ found.decision.fold = f /\ found.decision.status = "idle"
                \/ found.decision.fold # f /\ EverReset
                \/ unlogged = [fold |-> f, task |-> l, status |-> "failed"]
                \/ found.decision # lastDecision
                \/ stops > 0
                \/ ~HasFailed(f, l)
             /\ \/ "open" \notin ErrorsOf(found, LayerRow(found, f, l))
                \/ FailuresOf(found, LayerRow(found, f, l)) = {}
  BY DEF FailuresAreShown
<1> DEFINE r == LayerRow(found, f, l)
<1>2. r \in Rows(found)
  BY DEF Rows
<1>3. r.fold = f /\ r.task = l /\ r.status = "failed"
  BY <1>1, LayerRows
<1>4. r.state \in {"failed", "completed", "current", "future"} /\ r.state # "completed"
      /\ (r.state = "failed" <=> FailedLast(found, f, l)) /\ r.state # "current"
  BY <1>3, LayerRows
<1>5. ~IsTerminal(r)
  BY <1>3, <1>4 DEF IsTerminal
<1>6. PICK g \in TaskRows :
              /\ GateOf(Rows(found), r, g)
              /\ \/ Attached(found, g).state = "future"
                 \/ \E t \in Timeline(found).tasks : t.fold = r.fold /\ t.task = r.task
  BY <1>2, RowsAreShown
<1>7. Attached(found, g).state = "future"
  BY <1>1, <1>3, <1>6 DEF ShownIsMade
<1>8. /\ Attached(found, g) = g
      /\ \/ FailuresOf(found, g) = {}
         \/ ErrorsOf(found, g) # {} /\ "open" \notin ErrorsOf(found, g)
         \/ g.state # "future"
  BY <1>7, AttachedRows
<1>9. g.state = "future"
  BY <1>7, <1>8
<1>10. g = r
  BY <1>3, <1>5, <1>6, <1>9 DEF GateOf
<1>11. \/ "open" \notin ErrorsOf(found, r)
       \/ FailuresOf(found, r) = {}
  BY <1>8, <1>9, <1>10
<1>12. ~FailedLast(found, f, l)
  BY <1>4, <1>9, <1>10
<1> HIDE DEF r
<1>13. ASSUME HasFailed(f, l), found.decision = lastDecision, ~(stops > 0),
              unlogged # [fold |-> f, task |-> l, status |-> "failed"]
       PROVE  \/ found.decision.fold = f /\ found.decision.status = "idle"
              \/ found.decision.fold # f /\ EverReset
  <2>1. PICK i \in StageIds : LayerOf(i) = l /\ foldFile[f][i] = "failed"
    BY <1>13 DEF HasFailed
  <2>2. f \in FoldIds /\ foldFile[f] # <<>>
    BY <1>1 DEF ReachedStages, Visible
  <2>3. FailureOf(f, i) = [fold |-> f, task |-> l, status |-> "failed"]
    BY <2>1 DEF FailureOf
  <2>4. \/ lastDecision = FailureOf(f, i)
        \/ lastDecision.fold = f /\ lastDecision.status = "idle"
        \/ lastDecision.fold # f /\ EverReset
    BY <1>13, <2>1, <2>2, <2>3 DEF FailuresAreLogged, IsLogged, Elsewhere
  <2>5. QED
    BY <1>12, <1>13, <2>3, <2>4 DEF FailedLast
<1>14. QED
  BY <1>11, <1>13 DEF r

\* A task that is shown as failed is one whose failure was the last decision.
LEMMA FailureIsKnown ==
    ASSUME TimelineInv PROVE FailedIsKnown
<1> USE DEF TimelineInv, TimelineTypes
<1>1. SUFFICES ASSUME NEW t \in shown.tasks, t.state = "failed"
      PROVE  /\ shown.owner \in {"running_with_failure", "action_required"}
             /\ TakenUp(t.fold, t.task)
  BY DEF FailedIsKnown, TakenUp
<1>2. looking = 6 /\ shown = Timeline(found) /\ t \in Timeline(found).tasks
  BY DEF ShownIsMade, NothingShown
<1>3. PICK r \in Rows(found), g \in TaskRows :
              /\ GateOf(Rows(found), r, g)
              /\ Attached(found, g).state # "future"
              /\ \/ t = Attached(found, g)
                 \/ t = ShownActive(found, Attached(found, g))
  BY <1>2, ShownRows
<1> DEFINE u == Attached(found, g)
<1>4. r \in TaskRows /\ g.fold = r.fold /\ g.task = r.task /\ (g = r \/ g.state = "blocked")
  BY <1>3, RowsTyped DEF GateOf, TaskRows
<1>5. /\ u \in TaskRows /\ u.fold = g.fold /\ u.task = g.task
      /\ u = g \/ u.state = "current"
  BY AttachedRows
<1> HIDE DEF u
<1>6. t.fold = u.fold /\ t.task = u.task /\ t.state = u.state
  BY <1>3, <1>5, ShownActiveRows DEF u
<1>7. r.state = "failed" /\ t.fold = r.fold /\ t.task = r.task
  BY <1>1, <1>4, <1>5, <1>6
<1>8. PICK f \in Visible(found), l \in LayerTasks : r = LayerRow(found, f, l)
  BY <1>7, RowKinds, LifecycleRows
<1>9. FailedLast(found, f, l) /\ t.fold = f /\ t.task = l
  BY <1>7, <1>8, LayerRows
<1>10. /\ found.decision.status = "failed"
       /\ found.decision.fold = f /\ found.decision.task = l
  BY <1>9 DEF FailedLast
<1>11. TakenUp(t.fold, t.task)
  BY <1>9, <1>10 DEF KnownFailure
<1>12. shown.owner = OwnerStatus(found, PublicRows(found))
  BY <1>2 DEF Timeline
<1>13. OwnerStatus(found, PublicRows(found)) \in {"running_with_failure", "action_required"}
  BY <1>10 DEF OwnerStatus
<1>14. QED
  BY <1>11, <1>12, <1>13

\* The list of tasks, whenever its five sources are read while they change, is never
\* ahead of the workflow, shows one fold at work, and hides no failure but for a
\* decision, for any number of folds and layers.
THEOREM ListIsExplained == TimelineSpec => []TimelineIsExplained
<1>1. TimelineInv => TimelineIsExplained
  BY AheadOfNothing, OneAtATime, FailuresShow, FailureIsKnown DEF TimelineIsExplained
<1>2. QED
  BY <1>1, TimelineInvariant, PTL

=============================================================================
