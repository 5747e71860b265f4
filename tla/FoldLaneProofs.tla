---------------------------- MODULE FoldLaneProofs ----------------------------
(* FoldLane for any number of folds, any scopes of resets and any bounds: its *)
(* types, that what a fold is closed with is current, and that the lane       *)
(* implements FoldSequence.                                                   *)
EXTENDS FoldLane, TLAPS, FiniteSetTheorems, WellFoundedInduction

Labels == {"probe", "ingest", "worker", "training", "dataset", "replay", "replaying",
           "review", "reviewing", "evaluate", "settling", "decided"}

Gens == 0..(MaxResets + 1)

Jobs == [fold : 0..Folds, had : Statuses, gen : Gens, parent : Gens]

Runs == [fold : Fold, gen : 1..(MaxResets + 1), rows : BOOLEAN, reviewed : BOOLEAN,
         verdict : {"none", "terminal", "eligible"}, fresh : BOOLEAN,
         settled : BOOLEAN, created : Nat]

Typed ==
    /\ TypeOK
    /\ pc \in Labels /\ job \in Jobs
    /\ \E n \in Nat : \A r \in runs : r.created <= n
    /\ pc \in {"training", "replaying", "reviewing", "settling", "decided"} => job.fold \in Fold
    /\ pc = "replaying" => job.gen # 0
    /\ pc = "training" => job.had \in {"open", "built"}

\* Folds are opened one after the other.
Prefix == \A f, g \in Fold : f < g /\ fold[g] # "absent" => fold[f] # "absent"

\* The fold evaluation looks at.
Top(f) == f \in SplitsComplete /\ \A g \in SplitsComplete : g <= f

\* A receipt whose verdict is newer than the state file but whose evaluation is not
\* finished.  Its fold may look complete to the hold of the lane.
Halfway(r) == r.fresh /\ r.rows /\ ~r.settled

\* What a running command may count on, whatever is reset meanwhile.
InHand ==
    /\ pc = "training" => job.fold \in OpenFolds
    /\ pc = "replaying" => RunsOf(job.fold) = {}
    /\ pc \in {"settling", "decided"} =>
        \A r \in RunsOf(job.fold) : r.rows /\ r.reviewed /\ ~r.settled /\ Top(job.fold)

\* A fold's evidence: only the fold evaluation looks at can be halfway, and none is
\* while the daemon may open or train a fold; so the next fold is opened on closed ones.
Evidence ==
    /\ \A r \in runs : r.fresh => r.reviewed
    /\ \A f \in Fold : readiness[f] => \E r \in RunsOf(f) : r.fresh
    /\ \A r \in runs : Halfway(r) => Top(r.fold)
    /\ pc \in {"ingest", "worker", "training"} => \A r \in runs : ~Halfway(r)

\* The generations: a fold that was not reset under a running command has replays of
\* the checkpoint it has, and none while it is trained.
Current ==
    /\ \A f \in PreReplayComplete : alpha[f].gen # 0
    /\ \A f \in Fold \ torn : \A r \in RunsOf(f) :
        f \in PreReplayComplete /\ r.gen = alpha[f].gen
    /\ pc = "replaying" /\ job.fold \notin torn =>
        job.fold \in PreReplayComplete /\ job.gen = alpha[job.fold].gen

\* The parents: while no reset has spared a later fold or hit a running command,
\* nothing is built on a fold that is open.
Lineage ==
    ~lone /\ torn = {} =>
        /\ \A f, g \in Fold : f < g /\ f \in OpenFolds => fold[g] \in {"absent", "open"}
        /\ \A f \in PreReplayComplete \ {1} : alpha[f].parent = alpha[f - 1].gen
        /\ pc = "training" =>
            /\ \A f \in Fold : f < job.fold => f \notin OpenFolds
            /\ job.fold # 1 => job.parent = alpha[job.fold - 1].gen

IInv == Typed /\ Prefix /\ InHand /\ Evidence /\ Current /\ Lineage

-----------------------------------------------------------------------------
\* A set of numbers that is not empty has a least element, and a greatest one when
\* it is bounded.
LEMMA Least ==
    ASSUME NEW S \in SUBSET Nat, S # {}
    PROVE  Min(S) \in S /\ \A x \in S : Min(S) <= x
<1> DEFINE R == {ss \in Nat \X Nat : ss[1] < ss[2]}
<1>1. IsWellFoundedOn(R, Nat)
  BY NatLessThanWellFounded DEF OpToRel
<1> HIDE DEF R
<1>2. \E m \in S : \A x \in S : ~(<<x, m>> \in R)
  BY <1>1, WFMin
<1>3. PICK m \in S : \A x \in S : ~(<<x, m>> \in R)
  BY <1>2
<1>4. \A x, y \in Nat : x < y => <<x, y>> \in R
  BY DEF R
<1>5. ASSUME NEW x \in S PROVE m <= x
  <2>1. x \in Nat /\ m \in Nat
    OBVIOUS
  <2>2. CASE x < m
    <3>1. <<x, m>> \in R
      BY <1>4, <2>1, <2>2
    <3>2. QED
      BY <1>3, <3>1
  <2>3. QED
    BY <2>1, <2>2
<1>6. QED
  BY <1>5 DEF Min

\* The greatest element of a bounded set of numbers is one of them.
LEMMA Greatest ==
    ASSUME NEW n \in Nat, NEW S \in SUBSET (0..n), S # {}
    PROVE  Max(S) \in S /\ \A x \in S : x <= Max(S)
<1> DEFINE below == {n - x : x \in S}
<1>1. below \in SUBSET Nat /\ below # {}
  <2>1. \A x \in S : n - x \in Nat
    OBVIOUS
  <2>2. QED
    BY <2>1
<1>2. Min(below) \in below /\ \A y \in below : Min(below) <= y
  BY <1>1, Least
<1>3. PICK m \in S : Min(below) = n - m
  BY <1>2
<1>4. \A x \in S : n - x \in below /\ n - m <= n - x
  BY <1>2, <1>3
<1>5. \A x \in S : m >= x
  BY <1>4
<1>6. QED
  BY <1>5 DEF Max

\* The receipts afterwards are about the folds the receipts before are about.
Kept ==
    /\ runs' \subseteq Runs
    /\ \A q, r \in runs' : q.fold = r.fold => q = r
    /\ \E n \in Nat : \A r \in runs' : r.created <= n
    /\ \A r \in runs' : \E q \in runs : q.fold = r.fold
    /\ \A q \in runs : \E r \in runs' : q.fold = r.fold

\* Replacing each receipt by one about the same fold, written at the same time.
LEMMA Replaced ==
    ASSUME Typed, NEW new \in [runs -> Runs],
           \A r \in runs : new[r].fold = r.fold /\ new[r].created = r.created,
           runs' = {new[r] : r \in runs}
    PROVE  Kept /\ \A q \in runs, r \in runs' : q.fold = r.fold => r = new[q]
<1>1. \A q, r \in runs : q.fold = r.fold => q = r
  BY DEF Typed, TypeOK
<1>2. PICK n \in Nat : \A r \in runs : r.created <= n
  BY DEF Typed
<1>3. \A r \in runs' : \E q \in runs : r = new[q]
  OBVIOUS
<1>4. \A q \in runs : new[q] \in runs'
  OBVIOUS
<1>5. runs' \subseteq Runs
  BY <1>3
<1>6. \A r \in runs' : r.created <= n
  BY <1>2, <1>3
<1>7. \A q \in runs, r \in runs' : q.fold = r.fold => r = new[q]
  BY <1>1, <1>3
<1>8. \A q, r \in runs' : q.fold = r.fold => q = r
  BY <1>3, <1>7
<1>9. QED
  BY <1>3, <1>4, <1>5, <1>6, <1>7, <1>8 DEF Kept

\* What a write of a state file leaves.
Stored(f, status) ==
    /\ fold' \in [Fold -> Statuses] /\ readiness' \in [Fold -> BOOLEAN]
    /\ fold'[f] = status /\ ~readiness'[f]
    /\ \A g \in Fold \ {f} : fold'[g] = fold[g] /\ readiness'[g] = readiness[g]
    /\ Kept
    /\ \A q \in runs, r \in runs' : q.fold = r.fold => r = IF q.fold = f THEN Stale(q) ELSE q

\* Store leaves what Stored says.
LEMMA StoreStep ==
    ASSUME Typed, NEW f \in Fold, NEW status \in Statuses, Store(f, status)
    PROVE  Stored(f, status)
<1> DEFINE new == [r \in runs |-> IF r.fold = f THEN Stale(r) ELSE r]
<1>1. runs \subseteq Runs
  BY DEF Typed, TypeOK, Runs
<1>2. \A r \in Runs :
        LET s == Stale(r) IN s \in Runs /\ s.fold = r.fold /\ s.created = r.created
  BY DEF Stale, Runs
<1>3. new \in [runs -> Runs]
  BY <1>1, <1>2
<1>4. \A r \in runs : new[r].fold = r.fold /\ new[r].created = r.created
  BY <1>1, <1>2
<1>5. runs' = {new[r] : r \in runs}
  BY DEF Store, Amended
<1> HIDE DEF new
<1>6. Kept /\ \A q \in runs, r \in runs' : q.fold = r.fold => r = new[q]
  BY <1>3, <1>4, <1>5, Replaced
<1>7. \A q \in runs, r \in runs' : q.fold = r.fold => r = IF q.fold = f THEN Stale(q) ELSE q
  BY <1>6 DEF new
<1>8. /\ fold' = [fold EXCEPT ![f] = status] /\ readiness' = [readiness EXCEPT ![f] = FALSE]
      /\ fold \in [Fold -> Statuses] /\ readiness \in [Fold -> BOOLEAN]
  BY DEF Store, Typed, TypeOK
<1>9. QED
  BY <1>6, <1>7, <1>8 DEF Stored

\* The review marks the receipts of its fold reviewed.
LEMMA ReviewedRuns ==
    ASSUME Typed, runs' = Amended(job.fold, Reviewed)
    PROVE  Kept /\ \A q \in runs, r \in runs' :
                    q.fold = r.fold => r = IF q.fold = job.fold THEN Reviewed(q) ELSE q
<1> DEFINE new == [r \in runs |-> IF r.fold = job.fold THEN Reviewed(r) ELSE r]
<1>1. runs \subseteq Runs
  BY DEF Typed, TypeOK, Runs
<1>2. \A r \in Runs :
        LET s == Reviewed(r) IN s \in Runs /\ s.fold = r.fold /\ s.created = r.created
  BY DEF Reviewed, Runs
<1>3. new \in [runs -> Runs]
  BY <1>1, <1>2
<1>4. \A r \in runs : new[r].fold = r.fold /\ new[r].created = r.created
  BY <1>1, <1>2
<1>5. runs' = {new[r] : r \in runs}
  BY DEF Amended
<1> HIDE DEF new
<1>6. Kept /\ \A q \in runs, r \in runs' : q.fold = r.fold => r = new[q]
  BY <1>3, <1>4, <1>5, Replaced
<1>7. QED
  BY <1>6 DEF new

\* The decision gives the receipts of its fold a verdict that counts.
LEMMA DecidedRuns ==
    ASSUME Typed, NEW verdict \in {"terminal", "eligible"},
           runs' = {IF r.fold = job.fold THEN [r EXCEPT !.verdict = verdict, !.fresh = TRUE]
                    ELSE r : r \in runs}
    PROVE  Kept /\ \A q \in runs, r \in runs' : q.fold = r.fold =>
                    r = IF q.fold = job.fold THEN [q EXCEPT !.verdict = verdict, !.fresh = TRUE]
                        ELSE q
<1> DEFINE new == [r \in runs |-> IF r.fold = job.fold
                                  THEN [r EXCEPT !.verdict = verdict, !.fresh = TRUE] ELSE r]
<1>1. runs \subseteq Runs
  BY DEF Typed, TypeOK, Runs
<1>2. \A r \in Runs :
        LET s == [r EXCEPT !.verdict = verdict, !.fresh = TRUE]
        IN  s \in Runs /\ s.fold = r.fold /\ s.created = r.created
  BY DEF Runs
<1>3. new \in [runs -> Runs]
  BY <1>1, <1>2
<1>4. \A r \in runs : new[r].fold = r.fold /\ new[r].created = r.created
  BY <1>1, <1>2
<1>5. runs' = {new[r] : r \in runs}
  BY DEF Amended
<1> HIDE DEF new
<1>6. Kept /\ \A q \in runs, r \in runs' : q.fold = r.fold => r = new[q]
  BY <1>3, <1>4, <1>5, Replaced
<1>7. QED
  BY <1>6 DEF new

\* The end of the evaluation settles the receipts of its fold.
LEMMA SettledRuns ==
    ASSUME Typed, runs' = Amended(job.fold, Settled)
    PROVE  Kept /\ \A q \in runs, r \in runs' :
                    q.fold = r.fold => r = IF q.fold = job.fold THEN Settled(q) ELSE q
<1> DEFINE new == [r \in runs |-> IF r.fold = job.fold THEN Settled(r) ELSE r]
<1>1. runs \subseteq Runs
  BY DEF Typed, TypeOK, Runs
<1>2. \A r \in Runs :
        LET s == Settled(r) IN s \in Runs /\ s.fold = r.fold /\ s.created = r.created
  BY DEF Settled, Runs
<1>3. new \in [runs -> Runs]
  BY <1>1, <1>2
<1>4. \A r \in runs : new[r].fold = r.fold /\ new[r].created = r.created
  BY <1>1, <1>2
<1>5. runs' = {new[r] : r \in runs}
  BY DEF Amended
<1> HIDE DEF new
<1>6. Kept /\ \A q \in runs, r \in runs' : q.fold = r.fold => r = new[q]
  BY <1>3, <1>4, <1>5, Replaced
<1>7. QED
  BY <1>6 DEF new

\* The first and the last of a set of folds.
LEMMA Ends ==
    ASSUME NEW S \in SUBSET Fold, S # {}
    PROVE  /\ Min(S) \in S /\ \A f \in S : Min(S) <= f
           /\ Max(S) \in S /\ \A f \in S : f <= Max(S)
<1>1. Folds \in Nat /\ S \in SUBSET Nat /\ S \in SUBSET (0..Folds)
  BY LaneAssumption DEF Fold
<1>2. QED
  BY <1>1, Least, Greatest

-----------------------------------------------------------------------------
\* The steps that start or give up a command.  They change no fold, checkpoint or
\* receipt, so only what depends on where the daemon is has to be shown.
Untouched == UNCHANGED <<fold, alpha, runs, readiness, torn, lone, resets>>

Arrived ==
    /\ pc' \in Labels /\ job' \in Jobs
    /\ ready' \in 0..Folds /\ frozen' \in BOOLEAN /\ crashes' \in 0..MaxCrashes
    /\ pc' \in {"replaying", "reviewing", "settling"} => job'.fold \in Fold
    /\ pc' \notin {"training", "decided"}
    /\ pc' = "replaying" =>
        /\ job'.fold \in PreReplayComplete /\ RunsOf(job'.fold) = {}
        /\ job'.gen = alpha[job'.fold].gen
    /\ pc' = "settling" => \A r \in RunsOf(job'.fold) :
        r.rows /\ r.reviewed /\ ~r.settled /\ Top(job'.fold)
    /\ pc' \in {"ingest", "worker"} => \A r \in runs : ~Halfway(r)

\* A step that leaves the lane as it is keeps the invariant.
LEMMA QuietStep == ASSUME IInv, Untouched, Arrived PROVE IInv'
<1> USE DEF IInv, Untouched, Arrived
<1>1. Typed'
  <2>1. pc' = "replaying" => job'.gen # 0
    BY DEF Current
  <2>2. QED
    BY <2>1 DEF Typed, TypeOK, Jobs
<1>2. Prefix'
  BY DEF Prefix
<1>3. InHand'
  BY DEF InHand, RunsOf, Top, SplitsComplete, In
<1>4. Evidence'
  BY DEF Evidence, RunsOf, Halfway, Top, SplitsComplete, In
<1>5. Current'
  BY DEF Current, RunsOf, PreReplayComplete, In
<1>6. Lineage'
  BY DEF Lineage, OpenFolds, PreReplayComplete, In
<1>7. QED
  BY <1>1, <1>2, <1>3, <1>4, <1>5, <1>6

Quiet ==
    \/ Probe \/ IngestMonths \/ IngestNothing \/ SelectNothing \/ Freeze \/ DatasetWaits
    \/ StartReplay \/ SkipReplay \/ FailReplay \/ StartReview \/ SkipReview
    \/ StartEvaluation \/ SkipEvaluation \/ Crash

\* A fold that is halfway is the one evaluation looks at, and evaluation wants it.
LEMMA HalfwayIsWanted == ASSUME IInv, NEW r \in runs, Halfway(r) PROVE r \in EvaluationRuns
<1>1. Top(r.fold) /\ r.rows /\ r.reviewed /\ ~r.settled /\ r.fold \in Fold
  BY DEF IInv, Evidence, Halfway, Typed, TypeOK
<1>2. SplitsComplete \in SUBSET Fold /\ SplitsComplete # {}
  BY <1>1 DEF Top, SplitsComplete, In
<1>3. Max(SplitsComplete) = r.fold
  <2>1. Max(SplitsComplete) \in SplitsComplete /\ \A f \in SplitsComplete : f <= Max(SplitsComplete)
    BY <1>2, Ends
  <2>2. Max(SplitsComplete) <= r.fold /\ r.fold <= Max(SplitsComplete)
    BY <1>1, <2>1 DEF Top
  <2>3. Max(SplitsComplete) \in Int /\ r.fold \in Int
    <3>1. Fold \in SUBSET Int
      BY DEF Fold
    <3>2. QED
      BY <1>1, <1>2, <2>1, <3>1
  <2>4. QED
    BY <2>2, <2>3
<1>4. QED
  BY <1>1, <1>2, <1>3 DEF EvaluationRuns, RunsOf

\* What evaluation wants is the receipt of the fold it looks at.
LEMMA WantedIsTop ==
    ASSUME IInv, NEW r \in EvaluationRuns
    PROVE  r \in runs /\ r.rows /\ r.reviewed /\ ~r.settled /\ Top(r.fold)
<1>1. SplitsComplete \in SUBSET Fold /\ SplitsComplete # {}
  BY DEF EvaluationRuns, SplitsComplete, In
<1>2. Max(SplitsComplete) \in SplitsComplete /\ \A f \in SplitsComplete : f <= Max(SplitsComplete)
  BY <1>1, Ends
<1>3. r \in runs /\ r.rows /\ r.reviewed /\ ~r.settled /\ r.fold = Max(SplitsComplete)
  BY <1>1 DEF EvaluationRuns, RunsOf
<1>4. QED
  BY <1>2, <1>3 DEF Top

\* Each of these steps arrives where it may be.
LEMMA QuietSteps == ASSUME IInv, Quiet PROVE IInv'
<1> USE DEF IInv
<1>a. /\ Idle \in Jobs
      /\ \A f \in 0..Folds, g \in Gens : [Idle EXCEPT !.fold = f, !.gen = g] \in Jobs
      /\ Fold \in SUBSET (0..Folds)
  <2>1. Folds \in Nat /\ MaxResets \in Nat
    BY LaneAssumption
  <2>2. 0 \in 0..Folds /\ 0 \in Gens /\ "absent" \in Statuses /\ Fold \in SUBSET (0..Folds)
    BY <2>1 DEF Gens, Statuses, Fold
  <2>3. QED
    BY <2>2 DEF Idle, Jobs
<1>b. /\ pc \in Labels /\ ready \in 0..Folds /\ frozen \in BOOLEAN /\ crashes \in 0..MaxCrashes
      /\ MaxCrashes \in Nat /\ Folds \in Nat
  BY LaneAssumption DEF Typed, TypeOK
<1>1. CASE Probe
  <2>1. EvaluationRuns = {} => \A r \in runs : ~Halfway(r)
    BY HalfwayIsWanted
  <2>2. Untouched
    BY <1>1 DEF Probe, Untouched, evidence, history
  <2>3. Arrived
    BY <1>1, <1>a, <1>b, <2>1 DEF Probe, Arrived, Goto, inputs, history, Labels
  <2>4. QED
    BY <2>2, <2>3, QuietStep
<1>2. CASE IngestMonths
  <2>1. Untouched
    BY <1>2 DEF IngestMonths, Untouched, evidence, history
  <2>2. Arrived
    <3>1. ready' \in 0..Folds
      BY <1>2, <1>b DEF IngestMonths
    <3>2. /\ pc = "ingest" /\ pc' = "worker" /\ job' = Idle
          /\ UNCHANGED <<frozen, crashes>>
      BY <1>2 DEF IngestMonths, Goto, history
    <3>3. QED
      BY <1>a, <1>b, <3>1, <3>2 DEF Arrived, Labels, Evidence
  <2>3. QED
    BY <2>1, <2>2, QuietStep
<1>3. CASE IngestNothing
  <2>1. Untouched
    BY <1>3 DEF IngestNothing, Untouched, evidence, history
  <2>2. Arrived
    BY <1>3, <1>a, <1>b DEF IngestNothing, Arrived, Goto, inputs, history, Labels, Evidence
  <2>3. QED
    BY <2>1, <2>2, QuietStep
<1>4. CASE StartReplay
  <2> DEFINE f == Min(NeedsReplay)
  <2>1. NeedsReplay \in SUBSET Fold /\ NeedsReplay # {}
    BY <1>4 DEF StartReplay, NeedsReplay, Complete, In
  <2>2. f \in NeedsReplay
    BY <2>1, Ends
  <2> HIDE DEF f
  <2>3. f \in Fold /\ f \in PreReplayComplete /\ RunsOf(f) = {}
    BY <2>1, <2>2 DEF NeedsReplay, Complete, PreReplayComplete, In
  <2>4. alpha[f].gen # 0 /\ alpha[f].gen \in Gens
    BY <2>3 DEF Current, Typed, TypeOK, Gens
  <2>5. UNCHANGED alpha /\ pc' = "replaying" /\ job' = [Idle EXCEPT !.fold = f, !.gen = alpha[f].gen]
    BY <1>4, <2>4 DEF StartReplay, Work, f
  <2>6. Untouched
    BY <1>4, <2>5 DEF StartReplay, Untouched, evidence, history
  <2>7. job' \in Jobs /\ job'.fold = f /\ job'.gen = alpha[f].gen
    BY <1>a, <2>3, <2>4, <2>5 DEF Idle
  <2>8. UNCHANGED <<ready, frozen, crashes>>
    BY <1>4 DEF StartReplay, inputs, history
  <2>9. Arrived
    BY <1>b, <2>3, <2>5, <2>7, <2>8 DEF Arrived, Labels
  <2>10. QED
    BY <2>6, <2>9, QuietStep
<1>5. CASE StartReview
  <2>1. PICK r \in runs : pc' = "reviewing" /\ job' = [Idle EXCEPT !.fold = r.fold, !.gen = r.gen]
    BY <1>5 DEF StartReview, Latest, Work
  <2>2. r.fold \in Fold /\ r.gen \in Gens
    BY LaneAssumption DEF Typed, TypeOK, Gens
  <2>3. Untouched
    BY <1>5 DEF StartReview, Untouched, evidence, history
  <2>4. job' \in Jobs /\ job'.fold = r.fold
    BY <1>a, <2>1, <2>2 DEF Idle
  <2>5. Arrived
    BY <1>5, <1>b, <2>1, <2>2, <2>4 DEF StartReview, Arrived, inputs, history, Labels
  <2>6. QED
    BY <2>3, <2>5, QuietStep
<1>6. CASE StartEvaluation
  <2>1. PICK r \in EvaluationRuns :
            pc' = "settling" /\ job' = [Idle EXCEPT !.fold = r.fold, !.gen = r.gen]
    BY <1>6 DEF StartEvaluation, Work
  <2>2. r \in runs /\ r.rows /\ r.reviewed /\ ~r.settled /\ Top(r.fold)
    BY WantedIsTop
  <2>3. r.fold \in Fold /\ r.gen \in Gens /\ \A q \in RunsOf(r.fold) : q = r
    BY <2>2, LaneAssumption DEF Typed, TypeOK, Gens, RunsOf
  <2>4. Untouched
    BY <1>6 DEF StartEvaluation, Untouched, evidence, history
  <2>5. job' \in Jobs /\ job'.fold = r.fold
    BY <1>a, <2>1, <2>3 DEF Idle
  <2>6. UNCHANGED <<ready, frozen, crashes>>
    BY <1>6 DEF StartEvaluation, inputs, history
  <2>7. Arrived
    BY <1>b, <2>1, <2>2, <2>3, <2>5, <2>6 DEF Arrived, Labels
  <2>8. QED
    BY <2>4, <2>7, QuietStep
<1>7. CASE \/ SelectNothing \/ Freeze \/ DatasetWaits \/ SkipReplay \/ FailReplay
           \/ SkipReview \/ SkipEvaluation \/ Crash
  <2>1. Untouched /\ pc' \in {"dataset", "review", "replay", "evaluate", "probe"} /\ job' = Idle
    BY <1>7 DEF SelectNothing, Freeze, DatasetWaits, SkipReplay, FailReplay, SkipReview,
                SkipEvaluation, Crash, Goto, Untouched, evidence, history
  <2>2. ready' \in 0..Folds /\ frozen' \in BOOLEAN /\ crashes' \in 0..MaxCrashes
    <3>1. CASE Crash
      BY <1>b, <3>1 DEF Crash, inputs
    <3>2. CASE ~Crash
      BY <1>7, <1>b, <3>2 DEF SelectNothing, Freeze, DatasetWaits, SkipReplay, FailReplay,
                SkipReview, SkipEvaluation, inputs, history
    <3>3. QED
      BY <3>1, <3>2
  <2>3. Arrived
    BY <1>a, <2>1, <2>2 DEF Arrived, Labels
  <2>4. QED
    BY <2>1, <2>3, QuietStep
<1>8. QED
  BY <1>1, <1>2, <1>3, <1>4, <1>5, <1>6, <1>7 DEF Quiet

-----------------------------------------------------------------------------
\* The fold the worker selects is the first open one or, when none is open, the
\* first that was never opened; and the hold sees no fold before its verdict.
LEMMA Selected ==
    ASSUME IInv, NEW f \in Selectable
    PROVE  /\ f \in Fold /\ ~Blocks
           /\ \/ f \in OpenFolds /\ \A g \in OpenFolds : f <= g
              \/ /\ fold[f] = "absent" /\ OpenFolds = {}
                 /\ \A g \in Fold : g < f => fold[g] # "absent"
<1>1. ~Blocks
  BY DEF Selectable
<1>2. CASE OpenFolds # {}
  <2>1. OpenFolds \in SUBSET Fold
    BY DEF OpenFolds, In
  <2>2. QED
    BY <1>1, <1>2, <2>1, Ends DEF Selectable
<1>3. CASE OpenFolds = {}
  <2> DEFINE unopened == {g \in In({"absent"}) : g <= ready}
  <2>1. unopened \in SUBSET Fold
    BY DEF In
  <2>2. unopened # {} /\ f = Min(unopened)
    BY <1>1, <1>3 DEF Selectable
  <2>3. f \in unopened /\ \A g \in unopened : f <= g
    BY <2>1, <2>2, Ends
  <2>4. fold[f] = "absent" /\ f <= ready /\ f \in Fold
    BY <2>3 DEF In
  <2>5. ASSUME NEW g \in Fold, g < f PROVE fold[g] # "absent"
    <3>1. ready \in Int /\ Fold \in SUBSET Int
      BY DEF IInv, Typed, TypeOK, Fold
    <3>2. g <= ready /\ ~(f <= g)
      BY <2>4, <2>5, <3>1
    <3>3. g \notin unopened
      BY <2>3, <3>2
    <3>4. QED
      BY <3>2, <3>3 DEF In
  <2>6. QED
    BY <1>1, <1>3, <2>4, <2>5
<1>4. QED
  BY <1>2, <1>3

\* The evidence after a write of a state file, made when nothing is halfway.
LEMMA StoredEvidence ==
    ASSUME IInv, NEW f \in Fold, NEW status \in Statuses, Stored(f, status),
           \A r \in runs : ~Halfway(r)
    PROVE  Evidence'
<1>1. /\ \A r \in runs' : r.fold = f => ~r.fresh
      /\ \A r \in runs' : r.fold # f => r \in runs
      /\ \A r \in runs : r.fold # f => r \in runs'
  <2>1. \A q \in runs : Stale(q).fresh = FALSE
    BY DEF Stale, IInv, Typed, TypeOK
  <2>2. /\ \A r \in runs' : \E q \in runs : q.fold = r.fold
        /\ \A q \in runs : \E r \in runs' : q.fold = r.fold
        /\ \A q \in runs, r \in runs' :
            q.fold = r.fold => r = IF q.fold = f THEN Stale(q) ELSE q
    BY DEF Stored, Kept
  <2>3. QED
    BY <2>1, <2>2
<1>2. \A r \in runs' : r.fresh => r.reviewed
  BY <1>1 DEF IInv, Evidence
<1>3. \A g \in Fold : readiness'[g] => \E r \in RunsOf(g)' : r.fresh
  <2>1. SUFFICES ASSUME NEW g \in Fold, readiness'[g] PROVE \E r \in runs' : r.fold = g /\ r.fresh
    BY DEF RunsOf
  <2>2. g # f /\ readiness[g]
    BY <2>1 DEF Stored
  <2>3. PICK r \in runs : r.fold = g /\ r.fresh
    BY <2>2 DEF IInv, Evidence, RunsOf
  <2>4. QED
    BY <1>1, <2>2, <2>3
<1>4. \A r \in runs' : ~Halfway(r)'
  BY <1>1 DEF Halfway
<1>5. QED
  BY <1>2, <1>3, <1>4 DEF Evidence

\* Seeding a fold and starting its tick keeps the invariant.
LEMMA SelectStep == ASSUME IInv, SelectWork PROVE IInv'
<1>1. PICK f \in Selectable, status \in {"open", "built"} :
        /\ status = IF fold[f] = "built" THEN "built" ELSE "open"
        /\ Store(f, status)
        /\ pc' = "training"
        /\ job' = [fold |-> f, had |-> status, gen |-> 0, parent |-> Parent(f)]
  BY DEF SelectWork, Work
<1>2. /\ pc = "worker" /\ UNCHANGED <<ready, frozen, alpha, resets, crashes, torn, lone>>
  BY DEF SelectWork, inputs, history
<1>3. /\ f \in Fold
      /\ \/ f \in OpenFolds /\ \A g \in OpenFolds : f <= g
         \/ /\ fold[f] = "absent" /\ OpenFolds = {}
            /\ \A g \in Fold : g < f => fold[g] # "absent"
  BY Selected
<1>4. Stored(f, status)
  BY <1>1, <1>3, StoreStep DEF IInv, Statuses
<1>5. /\ f \notin PreReplayComplete
      /\ \A g \in Fold : g # f => fold'[g] = fold[g]
      /\ fold'[f] = status
      /\ f \in OpenFolds => fold'[f] = fold[f]
  BY <1>1, <1>3, <1>4 DEF Stored, PreReplayComplete, OpenFolds, In
<1>6. Fold \in SUBSET Int /\ \A g \in Fold : g # 1 => g - 1 \in Fold /\ g - 1 < g
  BY LaneAssumption DEF Fold
<1>7. Typed'
  <2>1. Parent(f) \in Gens
    <3>1. 0 \in Gens
      BY LaneAssumption DEF Gens
    <3>2. \A g \in Fold : alpha[g].gen \in Gens
      BY DEF IInv, Typed, TypeOK, Gens
    <3>3. QED
      BY <1>3, <1>6, <3>1, <3>2 DEF Parent
  <2>2. job' \in Jobs
    BY <1>1, <1>3, <2>1, LaneAssumption DEF Jobs, Gens, Statuses, Fold
  <2>3. job'.fold \in 0..Folds /\ job'.fold = f /\ job'.had = status
    BY <1>1, <2>2 DEF Jobs
  <2>4. QED
    BY <1>1, <1>2, <1>3, <1>4, <2>2, <2>3
    DEF IInv, Typed, TypeOK, Stored, Kept, Runs, Labels
<1>8. Prefix'
  BY <1>3, <1>5, <1>6 DEF IInv, Prefix, OpenFolds, In
<1>9. InHand'
  BY <1>1, <1>3, <1>5 DEF InHand, OpenFolds, In
<1>10. Evidence'
  BY <1>2, <1>3, <1>4, StoredEvidence DEF IInv, Evidence, Statuses
<1>11. Current'
  <2>1. ASSUME NEW g \in PreReplayComplete' PROVE alpha'[g].gen # 0
    BY <1>2, <1>5, <2>1 DEF IInv, Current, PreReplayComplete, In
  <2>2. ASSUME NEW g \in Fold \ torn', NEW r \in RunsOf(g)'
        PROVE  g \in PreReplayComplete' /\ r.gen = alpha'[g].gen
    <3>1. PICK q \in runs : q.fold = g
      BY <2>2, <1>4 DEF RunsOf, Stored, Kept
    <3>2. g \in PreReplayComplete /\ q.gen = alpha[g].gen /\ g # f
      BY <1>2, <1>5, <3>1 DEF IInv, Current, RunsOf
    <3>3. r = q
      BY <2>2, <1>4, <3>1, <3>2 DEF RunsOf, Stored
    <3>4. QED
      BY <1>2, <1>5, <3>2, <3>3 DEF PreReplayComplete, In
  <2>3. QED
    BY <1>1, <2>1, <2>2 DEF Current
<1>12. Lineage'
  <2>1. SUFFICES ASSUME ~lone, torn = {}
        PROVE  /\ \A g, h \in Fold : g < h /\ g \in OpenFolds' => fold'[h] \in {"absent", "open"}
               /\ \A g \in PreReplayComplete' \ {1} : alpha'[g].parent = alpha'[g - 1].gen
               /\ \A g \in Fold : g < f => g \notin OpenFolds'
               /\ f # 1 => Parent(f) = alpha'[f - 1].gen
    BY <1>1, <1>2 DEF Lineage
  <2>2. \A g, h \in Fold : g < h /\ g \in OpenFolds' => fold'[h] \in {"absent", "open"}
    BY <1>3, <1>5, <1>6, <2>1 DEF IInv, Lineage, Prefix, OpenFolds, In
  <2>3. \A g \in PreReplayComplete' \ {1} : alpha'[g].parent = alpha'[g - 1].gen
    BY <1>1, <1>2, <1>5, <2>1 DEF IInv, Lineage, PreReplayComplete, In
  <2>4. \A g \in Fold : g < f => g \notin OpenFolds'
    BY <1>3, <1>5, <1>6 DEF OpenFolds, In
  <2>5. f # 1 => Parent(f) = alpha'[f - 1].gen
    BY <1>2 DEF Parent
  <2>6. QED
    BY <2>2, <2>3, <2>4, <2>5
<1>13. QED
  BY <1>7, <1>8, <1>9, <1>10, <1>11, <1>12 DEF IInv

\* The tick ends with one of three outcomes for the fold it was started for.
LEMMA TrainStep ==
    ASSUME IInv, TrainSplits \/ TrainCheckpoint \/ TrainNothing PROVE IInv'
<1> DEFINE f == job.fold
<1>1. /\ pc = "training" /\ f \in Fold /\ f \in OpenFolds /\ job.had \in {"open", "built"}
      /\ job.parent \in Gens /\ resets \in 0..MaxResets /\ \A r \in runs : ~Halfway(r)
  BY DEF TrainSplits, TrainCheckpoint, TrainNothing, IInv, Typed, TypeOK, Jobs, InHand, Evidence
<1>2. PICK status \in {"open", "built", "ragged", "complete"} :
        /\ Store(f, status)
        /\ \/ status \in {"open", "built"} /\ UNCHANGED alpha
           \/ alpha' = [alpha EXCEPT ![f] = [gen |-> resets + 1, parent |-> job.parent]]
  BY <1>1 DEF TrainSplits, TrainCheckpoint, TrainNothing, Trained
<1>3. /\ pc' = "dataset" /\ job' = Idle
      /\ UNCHANGED <<ready, frozen, resets, crashes, torn, lone>>
  BY DEF TrainSplits, TrainCheckpoint, TrainNothing, Goto, inputs, history
<1> HIDE DEF f
<1>4. Stored(f, status)
  BY <1>1, <1>2, StoreStep DEF IInv, Statuses
<1>5. /\ f \notin PreReplayComplete /\ fold[f] # "absent"
      /\ \A g \in Fold : g # f => fold'[g] = fold[g]
      /\ fold'[f] = status
  BY <1>1, <1>4 DEF Stored, PreReplayComplete, OpenFolds, In
<1>6. /\ Fold \in SUBSET Int /\ \A g \in Fold : g # 1 => g - 1 \in Fold /\ g - 1 < g
      /\ MaxResets \in Nat
  BY LaneAssumption DEF Fold
<1>7. /\ \A g \in Fold : g # f => alpha'[g] = alpha[g]
      /\ status \notin {"open", "built"} => alpha'[f] = [gen |-> resets + 1, parent |-> job.parent]
      /\ alpha' \in [Fold -> [gen : 0..(MaxResets + 1), parent : 0..(MaxResets + 1)]]
  <2>1. alpha \in [Fold -> [gen : 0..(MaxResets + 1), parent : 0..(MaxResets + 1)]]
    BY DEF IInv, Typed, TypeOK
  <2>2. [gen |-> resets + 1, parent |-> job.parent] \in
            [gen : 0..(MaxResets + 1), parent : 0..(MaxResets + 1)]
    BY <1>1, <1>6 DEF Gens
  <2>3. QED
    BY <1>1, <1>2, <2>1, <2>2
<1>8. Typed'
  <2>1. job' \in Jobs
    BY <1>3, LaneAssumption DEF Idle, Jobs, Gens, Statuses
  <2>2. job'.fold \in 0..Folds
    BY <2>1 DEF Jobs
  <2>3. QED
    BY <1>1, <1>3, <1>4, <1>7, <2>1, <2>2 DEF IInv, Typed, TypeOK, Stored, Kept, Runs, Labels
<1>9. Prefix'
  BY <1>2, <1>5 DEF IInv, Prefix
<1>10. InHand'
  BY <1>3 DEF InHand
<1>11. Evidence'
  BY <1>1, <1>2, <1>4, StoredEvidence DEF Statuses
<1>12. Current'
  <2>1. ASSUME NEW g \in PreReplayComplete' PROVE alpha'[g].gen # 0
    <3>1. CASE g = f
      <4>1. alpha'[f].gen = resets + 1
        BY <1>5, <1>7, <2>1, <3>1 DEF PreReplayComplete, In
      <4>2. QED
        BY <1>1, <3>1, <4>1
    <3>2. CASE g # f
      BY <1>5, <1>7, <2>1, <3>2 DEF IInv, Current, PreReplayComplete, In
    <3>3. QED
      BY <3>1, <3>2
  <2>2. ASSUME NEW g \in Fold \ torn', NEW r \in RunsOf(g)'
        PROVE  g \in PreReplayComplete' /\ r.gen = alpha'[g].gen
    <3>1. PICK q \in runs : q.fold = g
      BY <2>2, <1>4 DEF RunsOf, Stored, Kept
    <3>2. g \in PreReplayComplete /\ q.gen = alpha[g].gen /\ g # f
      BY <1>3, <1>5, <3>1 DEF IInv, Current, RunsOf
    <3>3. r = q
      BY <2>2, <1>4, <3>1, <3>2 DEF RunsOf, Stored
    <3>4. QED
      BY <1>5, <1>7, <3>2, <3>3 DEF PreReplayComplete, In
  <2>3. QED
    BY <1>3, <2>1, <2>2 DEF Current
<1>13. Lineage'
  <2>1. SUFFICES ASSUME ~lone, torn = {}
        PROVE  /\ \A g, h \in Fold : g < h /\ g \in OpenFolds' => fold'[h] \in {"absent", "open"}
               /\ \A g \in PreReplayComplete' \ {1} : alpha'[g].parent = alpha'[g - 1].gen
    BY <1>3 DEF Lineage
  <2>2. /\ \A g, h \in Fold : g < h /\ g \in OpenFolds => fold[h] \in {"absent", "open"}
        /\ \A g \in PreReplayComplete \ {1} : alpha[g].parent = alpha[g - 1].gen
        /\ \A g \in Fold : g < f => g \notin OpenFolds
        /\ f # 1 => job.parent = alpha[f - 1].gen
    BY <1>1, <2>1 DEF IInv, Lineage, f
  <2>3. ASSUME NEW g \in Fold, NEW h \in Fold, g < h, g \in OpenFolds'
        PROVE  fold'[h] \in {"absent", "open"}
    <3>1. g \in OpenFolds /\ h # f
      BY <1>1, <1>5, <1>6, <2>2, <2>3 DEF OpenFolds, In
    <3>2. QED
      BY <1>5, <2>2, <2>3, <3>1
  <2>4. ASSUME NEW g \in PreReplayComplete' \ {1} PROVE alpha'[g].parent = alpha'[g - 1].gen
    <3>1. g \in Fold /\ g - 1 \in Fold /\ g - 1 < g /\ g # g - 1
      BY <1>6, <2>4 DEF PreReplayComplete, In
    <3>2. CASE g = f
      <4>1. alpha'[f].parent = job.parent
        BY <1>5, <1>7, <2>4, <3>2 DEF PreReplayComplete, In
      <4>2. QED
        BY <1>7, <2>2, <2>4, <3>1, <3>2, <4>1
    <3>3. CASE g # f
      <4>1. g \in PreReplayComplete
        BY <1>5, <2>4, <3>3 DEF PreReplayComplete, In
      <4>2. g - 1 # f
        BY <1>1, <2>2, <3>1, <4>1 DEF PreReplayComplete, In
      <4>3. QED
        BY <1>7, <2>2, <2>4, <3>1, <3>3, <4>1, <4>2
    <3>4. QED
      BY <3>2, <3>3
  <2>5. QED
    BY <2>3, <2>4
<1>14. QED
  BY <1>8, <1>9, <1>10, <1>11, <1>12, <1>13 DEF IInv

-----------------------------------------------------------------------------
\* The greatest time of a receipt is a time.
LEMMA Newest == ASSUME Typed PROVE Max({0} \cup {r.created : r \in runs}) \in Nat
<1> DEFINE S == {0} \cup {r.created : r \in runs}
<1>1. PICK n \in Nat : \A r \in runs : r.created <= n
  BY DEF Typed
<1>2. \A r \in runs : r.created \in Nat /\ r.created \in 0..n
  BY <1>1 DEF Typed, TypeOK
<1>3. S \in SUBSET (0..n) /\ S # {}
  BY <1>2
<1>4. Max(S) \in S
  BY <1>3, Greatest
<1>5. QED
  BY <1>3, <1>4

\* The runner's receipt is the only one of its fold, about the checkpoint it was started with.
LEMMA ReplayedStep == ASSUME IInv, EndReplay PROVE IInv'
<1> DEFINE f == job.fold
<1>1. /\ pc = "replaying" /\ pc' = "review" /\ job' = Idle
      /\ UNCHANGED <<ready, frozen, fold, alpha, readiness, resets, crashes, torn, lone>>
  BY DEF EndReplay, Goto, inputs, history
<1>2. PICK rows \in BOOLEAN : runs' = runs \cup {Receipt(f, job.gen, rows)}
  BY DEF EndReplay
<1> DEFINE new == Receipt(f, job.gen, rows)
<1>3. f \in Fold /\ job.gen \in 1..(MaxResets + 1) /\ \A r \in runs : r.fold # f
  BY <1>1, LaneAssumption DEF IInv, Typed, Jobs, Gens, InHand, RunsOf
<1>4. /\ new \in Runs /\ new.fold = f /\ new.gen = job.gen /\ new.fresh = FALSE
      /\ new.created \in Nat /\ \A r \in runs : r.created <= new.created
  <2> DEFINE S == {0} \cup {r.created : r \in runs}
  <2>1. Max(S) \in Nat
    BY Newest DEF IInv
  <2>2. \A r \in runs : r.created \in Nat /\ r.created <= Max(S)
    <3>1. PICK n \in Nat : \A r \in runs : r.created <= n
      BY DEF IInv, Typed
    <3>2. \A r \in runs : r.created \in Nat /\ r.created \in 0..n
      BY <3>1 DEF IInv, Typed, TypeOK
    <3>3. S \in SUBSET (0..n) /\ S # {}
      BY <3>2
    <3>4. \A s \in S : s <= Max(S)
      BY <3>3, Greatest
    <3>5. QED
      BY <3>2, <3>4
  <2> HIDE DEF S
  <2>3. new = [fold |-> f, gen |-> job.gen, rows |-> rows, reviewed |-> FALSE,
               verdict |-> "none", fresh |-> FALSE, settled |-> FALSE, created |-> 1 + Max(S)]
    BY DEF Receipt, S
  <2>4. QED
    BY <1>3, <2>1, <2>2, <2>3 DEF Runs
<1> HIDE DEF new
<1>5. Typed'
  <2>1. job' \in Jobs /\ job'.fold \in 0..Folds
    BY <1>1, LaneAssumption DEF Idle, Jobs, Gens, Statuses
  <2>2. runs' \subseteq Runs
    BY <1>2, <1>4 DEF IInv, Typed, TypeOK, Runs, new
  <2>3. \A q, r \in runs' : q.fold = r.fold => q = r
    BY <1>2, <1>3, <1>4 DEF IInv, Typed, TypeOK, new
  <2>4. \E n \in Nat : \A r \in runs' : r.created <= n
    BY <1>2, <1>4 DEF new
  <2>5. QED
    BY <1>1, <2>1, <2>2, <2>3, <2>4 DEF IInv, Typed, TypeOK, Runs, Labels
<1>6. Prefix'
  BY <1>1 DEF IInv, Prefix
<1>7. InHand'
  BY <1>1 DEF InHand
<1>8. Evidence'
  <2>1. \A r \in runs' : r.fresh => r \in runs
    BY <1>2, <1>4 DEF new
  <2>2. \A g \in Fold : readiness'[g] => \E r \in RunsOf(g)' : r.fresh
    BY <1>1, <1>2 DEF IInv, Evidence, RunsOf
  <2>3. \A r \in runs' : Halfway(r)' => Top(r.fold)'
    BY <1>1, <2>1 DEF IInv, Evidence, Halfway, Top, SplitsComplete, In
  <2>4. QED
    BY <1>1, <2>1, <2>2, <2>3 DEF IInv, Evidence
<1>9. Current'
  <2>1. ASSUME NEW g \in Fold \ torn', NEW r \in RunsOf(g)'
        PROVE  g \in PreReplayComplete' /\ r.gen = alpha'[g].gen
    <3>1. CASE r = new
      BY <1>1, <1>4, <2>1, <3>1 DEF IInv, Current, RunsOf, PreReplayComplete, In, f
    <3>2. CASE r # new
      <4>1. r \in RunsOf(g)
        BY <1>2, <2>1, <3>2 DEF RunsOf, new
      <4>2. QED
        BY <1>1, <2>1, <4>1 DEF IInv, Current, PreReplayComplete, In
    <3>3. QED
      BY <3>1, <3>2
  <2>2. QED
    BY <1>1, <2>1 DEF IInv, Current, PreReplayComplete, In
<1>10. Lineage'
  BY <1>1 DEF IInv, Lineage, OpenFolds, PreReplayComplete, In
<1>11. QED
  BY <1>5, <1>6, <1>7, <1>8, <1>9, <1>10 DEF IInv

\* The steps that amend the receipts of one fold.  They change no fold and no
\* checkpoint, and leave a receipt halfway only at the fold evaluation looks at.
Amending ==
    /\ UNCHANGED <<ready, frozen, fold, alpha, readiness, resets, crashes, torn, lone>>
    /\ job' \in {job, Idle}
    /\ \/ pc = "reviewing" /\ pc' = "evaluate"
       \/ pc = "settling" /\ pc' = "decided" /\ job' = job
       \/ pc = "decided" /\ pc' = "probe"
    /\ Kept
    /\ \A q \in runs, r \in runs' : q.fold = r.fold =>
        /\ r.gen = q.gen
        /\ q.fresh => r.fresh
        /\ r.fresh => r.reviewed
        /\ Halfway(r) => Top(r.fold)
        /\ pc = "settling" /\ q.fold = job.fold =>
            r.rows = q.rows /\ r.reviewed = q.reviewed /\ r.settled = q.settled

\* Such a step keeps the invariant.
LEMMA AmendingStep == ASSUME IInv, Amending PROVE IInv'
<1> USE DEF IInv, Amending
<1>1. Typed'
  <2>1. Idle \in Jobs /\ Idle.fold \in 0..Folds
    BY LaneAssumption DEF Idle, Jobs, Gens, Statuses
  <2>2. QED
    BY <2>1 DEF Typed, TypeOK, Kept, Runs, Labels
<1>2. Prefix'
  BY DEF Prefix
<1>3. InHand'
  <2>1. ASSUME pc = "settling", NEW r \in RunsOf(job.fold)'
        PROVE  r.rows /\ r.reviewed /\ ~r.settled /\ Top(job.fold)'
    <3>1. PICK q \in runs : q.fold = r.fold /\ q.fold = job.fold
      BY <2>1 DEF Kept, RunsOf
    <3>2. q.rows /\ q.reviewed /\ ~q.settled /\ Top(job.fold)
      BY <2>1, <3>1 DEF InHand, RunsOf
    <3>3. r.rows = q.rows /\ r.reviewed = q.reviewed /\ r.settled = q.settled
      BY <2>1, <3>1 DEF RunsOf
    <3>4. Top(job.fold)'
      <4>1. job' = job /\ fold' = fold
        BY <2>1
      <4>2. QED
        BY <3>2, <4>1 DEF Top, SplitsComplete, In
    <3>5. QED
      BY <3>2, <3>3, <3>4
  <2>2. QED
    BY <2>1 DEF InHand
<1>4. Evidence'
  <2>1. \A r \in runs' : (r.fresh => r.reviewed) /\ (Halfway(r) => Top(r.fold))
    BY DEF Kept
  <2>2. \A r \in runs' : Halfway(r)' => Top(r.fold)'
    BY <2>1 DEF Halfway, Top, SplitsComplete, In
  <2>3. ASSUME NEW g \in Fold, readiness'[g] PROVE \E r \in RunsOf(g)' : r.fresh
    <3>1. PICK q \in runs : q.fold = g /\ q.fresh
      BY <2>3 DEF Evidence, RunsOf
    <3>2. PICK r \in runs' : q.fold = r.fold
      BY <3>1 DEF Kept
    <3>3. QED
      BY <3>1, <3>2 DEF RunsOf
  <2>4. QED
    BY <2>1, <2>2, <2>3 DEF Evidence
<1>5. Current'
  <2>1. ASSUME NEW g \in Fold \ torn', NEW r \in RunsOf(g)'
        PROVE  g \in PreReplayComplete' /\ r.gen = alpha'[g].gen
    <3>1. PICK q \in runs : q.fold = r.fold /\ q.fold = g
      BY <2>1 DEF Kept, RunsOf
    <3>2. g \in PreReplayComplete /\ q.gen = alpha[g].gen /\ r.gen = q.gen
      BY <2>1, <3>1 DEF Current, RunsOf
    <3>3. QED
      BY <3>2 DEF PreReplayComplete, In
  <2>2. QED
    BY <2>1 DEF Current, PreReplayComplete, In
<1>6. Lineage'
  BY DEF Lineage, OpenFolds, PreReplayComplete, In
<1>7. QED
  BY <1>1, <1>2, <1>3, <1>4, <1>5, <1>6

\* The review, the decision and the end of the evaluation are such steps.
LEMMA AmendingSteps == ASSUME IInv, EndReview \/ Decide \/ EndEvaluation PROVE IInv'
<1>1. \A q \in runs : q \in Runs /\ (q.fresh => q.reviewed) /\ (Halfway(q) => Top(q.fold))
  BY DEF IInv, Evidence, Typed, TypeOK, Runs
<1>2. CASE EndReview
  <2>1. Kept /\ \A q \in runs, r \in runs' :
            q.fold = r.fold => r = IF q.fold = job.fold THEN Reviewed(q) ELSE q
    BY <1>2, ReviewedRuns DEF EndReview, IInv
  <2>2. \A q \in Runs : /\ Reviewed(q).gen = q.gen /\ Reviewed(q).reviewed
                        /\ Reviewed(q).fold = q.fold
                        /\ q.fresh => Reviewed(q).fresh
                        /\ Halfway(Reviewed(q)) => Halfway(q)
    BY DEF Reviewed, Halfway, Runs
  <2>3. /\ UNCHANGED <<ready, frozen, fold, alpha, readiness, resets, crashes, torn, lone>>
        /\ pc = "reviewing" /\ pc' = "evaluate" /\ job' = Idle
    BY <1>2 DEF EndReview, Goto, inputs, history
  <2>4. Amending
    BY <1>1, <2>1, <2>2, <2>3 DEF Amending
  <2>5. QED
    BY <2>4, AmendingStep
<1>3. CASE Decide
  <2>1. PICK verdict \in {"terminal", "eligible"} :
            runs' = {IF r.fold = job.fold THEN [r EXCEPT !.verdict = verdict, !.fresh = TRUE]
                     ELSE r : r \in runs}
    BY <1>3 DEF Decide, Amended
  <2> DEFINE new(q) == [q EXCEPT !.verdict = verdict, !.fresh = TRUE]
  <2>2. Kept /\ \A q \in runs, r \in runs' :
            q.fold = r.fold => r = IF q.fold = job.fold THEN new(q) ELSE q
    BY <2>1, DecidedRuns DEF IInv
  <2>3. \A q \in Runs : /\ new(q).gen = q.gen /\ new(q).fold = q.fold /\ new(q).fresh
                        /\ new(q).rows = q.rows /\ new(q).reviewed = q.reviewed
                        /\ new(q).settled = q.settled
    BY DEF Runs
  <2> HIDE DEF new
  <2>4. /\ UNCHANGED <<ready, frozen, fold, alpha, readiness, resets, crashes, torn, lone>>
        /\ pc = "settling" /\ pc' = "decided" /\ job' = job
    BY <1>3 DEF Decide, Work, inputs, history
  <2>5. \A q \in runs : q.fold = job.fold => q.reviewed /\ Top(q.fold)
    BY <2>4 DEF IInv, InHand, RunsOf
  <2>6. Amending
    BY <1>1, <2>2, <2>3, <2>4, <2>5 DEF Amending
  <2>7. QED
    BY <2>6, AmendingStep
<1>4. CASE EndEvaluation
  <2>1. Kept /\ \A q \in runs, r \in runs' :
            q.fold = r.fold => r = IF q.fold = job.fold THEN Settled(q) ELSE q
    BY <1>4, SettledRuns DEF EndEvaluation, IInv
  <2>2. \A q \in Runs : /\ Settled(q).gen = q.gen /\ Settled(q).reviewed = q.reviewed
                        /\ Settled(q).fold = q.fold /\ Settled(q).fresh = q.fresh
                        /\ ~Halfway(Settled(q))
    BY DEF Settled, Halfway, Runs
  <2>3. /\ UNCHANGED <<ready, frozen, fold, alpha, readiness, resets, crashes, torn, lone>>
        /\ pc = "decided" /\ pc' = "probe" /\ job' = Idle
    BY <1>4 DEF EndEvaluation, Goto, inputs, history
  <2>4. Amending
    BY <1>1, <2>1, <2>2, <2>3 DEF Amending
  <2>5. QED
    BY <2>4, AmendingStep
<1>5. QED
  BY <1>2, <1>3, <1>4

-----------------------------------------------------------------------------
\* A candidate is promoted on a verdict that counts.
LEMMA PromoteStep == ASSUME IInv, NEW f \in Fold, Promote(f) PROVE IInv'
<1>1. /\ UNCHANGED <<ready, frozen, fold, alpha, runs, pc, job, resets, crashes, torn, lone>>
      /\ readiness' = [readiness EXCEPT ![f] = TRUE]
      /\ \E r \in RunsOf(f) : r.fresh
  BY DEF Promote, inputs, history
<1> USE DEF IInv
<1>2. Typed'
  BY <1>1 DEF Typed, TypeOK
<1>3. Prefix' /\ InHand'
  BY <1>1 DEF Prefix, InHand, OpenFolds, RunsOf, Top, SplitsComplete, In
<1>4. Evidence'
  <2>1. ASSUME NEW g \in Fold, readiness'[g] PROVE \E r \in RunsOf(g)' : r.fresh
    <3>1. g = f \/ readiness[g]
      BY <1>1, <2>1 DEF Typed, TypeOK
    <3>2. QED
      BY <1>1, <2>1, <3>1 DEF Evidence, RunsOf
  <2>2. QED
    BY <1>1, <2>1 DEF Evidence, Halfway, Top, SplitsComplete, In
<1>5. Current'
  BY <1>1 DEF Current, RunsOf, PreReplayComplete, In
<1>6. Lineage'
  BY <1>1 DEF Lineage, OpenFolds, PreReplayComplete, In
<1>7. QED
  BY <1>2, <1>3, <1>4, <1>5, <1>6

\* A reset takes the folds of its scope back to where they have no evidence, and what a
\* running command counts on is either untouched or given up as torn.
LEMMA ResetStep == ASSUME IInv, NEW scope \in ResetScopes, Reset(scope) PROVE IInv'
<1> USE DEF IInv
<1>1. /\ scope \in SUBSET Fold /\ \A f \in scope : fold[f] # "absent"
      /\ UNCHANGED <<ready, frozen, pc, job, crashes>>
      /\ resets < MaxResets /\ resets' = resets + 1
      /\ torn' = torn \cup (scope \cap {job.fold})
      /\ lone' = (lone \/ \E f \in scope, g \in Fold \ scope : f < g /\ fold[g] # "absent")
  BY LaneAssumption DEF Reset, inputs, In
<1>2. /\ \A f \in scope : fold'[f] = "open" /\ ~readiness'[f]
      /\ \A f \in Fold \ scope : fold'[f] = fold[f] /\ readiness'[f] = readiness[f]
                                 /\ alpha'[f] = alpha[f]
      /\ runs' = {r \in runs : r.fold \notin scope}
  BY <1>1 DEF Reset, Cleared, Typed, TypeOK
<1>3. Typed'
  <2>1. fold' \in [Fold -> Statuses] /\ readiness' \in [Fold -> BOOLEAN]
    BY <1>1 DEF Reset, Typed, TypeOK, Statuses
  <2>2. alpha' \in [Fold -> [gen : 0..(MaxResets + 1), parent : 0..(MaxResets + 1)]]
    <3>1. MaxResets \in Nat
      BY LaneAssumption
    <3>2. [gen |-> 0, parent |-> 0] \in [gen : 0..(MaxResets + 1), parent : 0..(MaxResets + 1)]
      BY <3>1
    <3>3. QED
      BY <3>2 DEF Reset, Cleared, Typed, TypeOK
  <2>3. resets' \in 0..MaxResets /\ torn' \subseteq Fold /\ lone' \in BOOLEAN
    BY <1>1, LaneAssumption DEF Typed, TypeOK
  <2>4. /\ runs' \subseteq runs
        /\ \E n \in Nat : \A r \in runs' : r.created <= n
    BY <1>2 DEF Typed
  <2>5. QED
    BY <1>1, <2>1, <2>2, <2>3, <2>4 DEF Typed, TypeOK
<1>4. Prefix'
  BY <1>1, <1>2 DEF Prefix
<1>5. \A f \in Fold \ scope : Top(f) => Top(f)'
  BY <1>1, <1>2 DEF Top, SplitsComplete, In
<1>6. InHand'
  <2>1. pc = "training" => job.fold \in OpenFolds'
    BY <1>1, <1>2 DEF InHand, OpenFolds, In
  <2>2. pc = "replaying" => RunsOf(job.fold)' = {}
    BY <1>1, <1>2 DEF InHand, RunsOf
  <2>3. pc \in {"settling", "decided"} => \A r \in RunsOf(job.fold)' :
            r.rows /\ r.reviewed /\ ~r.settled /\ Top(job.fold)'
    <3>1. SUFFICES ASSUME pc \in {"settling", "decided"}, NEW r \in runs', r.fold = job.fold
                   PROVE  r.rows /\ r.reviewed /\ ~r.settled /\ Top(job.fold)'
      BY <1>1 DEF RunsOf
    <3>2. r \in runs /\ job.fold \in Fold \ scope
      BY <1>2, <3>1 DEF Typed
    <3>3. r.rows /\ r.reviewed /\ ~r.settled /\ Top(job.fold)
      BY <3>1, <3>2 DEF InHand, RunsOf
    <3>4. Top(job.fold)'
      <4>1. job' = job
        BY <1>1
      <4>2. QED
        BY <1>5, <3>2, <3>3, <4>1 DEF Top
    <3>5. QED
      BY <3>3, <3>4
  <2>4. QED
    BY <1>1, <2>1, <2>2, <2>3 DEF InHand
<1>7. Evidence'
  <2>1. ASSUME NEW f \in Fold, readiness'[f] PROVE \E r \in RunsOf(f)' : r.fresh
    BY <1>1, <1>2, <2>1 DEF Evidence, RunsOf
  <2>2. ASSUME NEW r \in runs', Halfway(r)' PROVE Top(r.fold)'
    <3>1. r \in runs /\ r.fold \in Fold \ scope /\ Halfway(r)
      BY <1>2, <2>2 DEF Typed, TypeOK, Halfway
    <3>2. QED
      BY <1>5, <3>1 DEF Evidence
  <2>3. QED
    BY <1>1, <1>2, <2>1, <2>2 DEF Evidence, Halfway
<1>8. Current'
  <2>1. \A f \in PreReplayComplete' : f \notin scope /\ f \in PreReplayComplete
    BY <1>1, <1>2 DEF PreReplayComplete, In
  <2>2. \A f \in PreReplayComplete \ scope : f \in PreReplayComplete'
    BY <1>1, <1>2 DEF PreReplayComplete, In
  <2>3. \A f \in PreReplayComplete' : alpha'[f].gen # 0
    BY <1>2, <2>1 DEF Current, PreReplayComplete, In
  <2>4. ASSUME NEW f \in Fold \ torn', NEW r \in RunsOf(f)'
        PROVE  f \in PreReplayComplete' /\ r.gen = alpha'[f].gen
    <3>1. r \in RunsOf(f) /\ f \notin scope /\ f \notin torn
      BY <1>1, <1>2, <2>4 DEF RunsOf
    <3>2. QED
      BY <1>2, <2>2, <2>4, <3>1 DEF Current
  <2>5. pc = "replaying" /\ job.fold \notin torn' =>
            job.fold \in PreReplayComplete' /\ job.gen = alpha'[job.fold].gen
    BY <1>1, <1>2, <2>2 DEF Current, Typed
  <2>6. QED
    BY <1>1, <2>3, <2>4, <2>5 DEF Current
<1>9. Lineage'
  <2>1. SUFFICES ASSUME ~lone', torn' = {}
        PROVE  /\ \A f, g \in Fold : f < g /\ f \in OpenFolds' => fold'[g] \in {"absent", "open"}
               /\ \A f \in PreReplayComplete' \ {1} : alpha'[f].parent = alpha'[f - 1].gen
               /\ pc = "training" =>
                   /\ \A f \in Fold : f < job.fold => f \notin OpenFolds'
                   /\ job.fold # 1 => job.parent = alpha'[job.fold - 1].gen
    BY <1>1 DEF Lineage
  <2>2. /\ ~lone /\ torn = {} /\ job.fold \notin scope
        /\ \A f \in scope, g \in Fold \ scope : f < g => fold[g] = "absent"
    BY <1>1, <2>1
  <2>3. Fold \in SUBSET Int /\ \A f \in Fold : f # 1 => f - 1 \in Fold /\ f - 1 < f
    BY LaneAssumption DEF Fold
  <2>4. \A f, g \in Fold : f < g /\ f \in OpenFolds' => fold'[g] \in {"absent", "open"}
    BY <1>1, <1>2, <2>2 DEF Lineage, OpenFolds, In
  <2>5. ASSUME NEW f \in PreReplayComplete' \ {1} PROVE alpha'[f].parent = alpha'[f - 1].gen
    <3>1. f \in Fold \ scope /\ f \in PreReplayComplete /\ fold[f] # "absent"
      BY <1>1, <1>2, <2>5 DEF PreReplayComplete, In
    <3>2. f - 1 \in Fold \ scope
      BY <2>2, <2>3, <2>5, <3>1
    <3>3. QED
      BY <1>2, <2>2, <2>5, <3>1, <3>2 DEF Lineage
  <2>6. ASSUME pc = "training"
        PROVE  /\ \A f \in Fold : f < job.fold => f \notin OpenFolds'
               /\ job.fold # 1 => job.parent = alpha'[job.fold - 1].gen
    <3>1. job.fold \in Fold \ scope /\ fold[job.fold] # "absent"
      BY <2>2, <2>6 DEF InHand, OpenFolds, In
    <3>2. \A f \in Fold : f < job.fold => f \notin scope
      BY <2>2, <3>1
    <3>3. QED
      BY <1>2, <2>2, <2>3, <2>6, <3>1, <3>2 DEF Lineage, OpenFolds, In
  <2>7. QED
    BY <2>4, <2>5, <2>6
<1>10. QED
  BY <1>3, <1>4, <1>6, <1>7, <1>8, <1>9

-----------------------------------------------------------------------------
\* A lane without any file satisfies the invariant.
LEMMA InitInv == Init => IInv
<1> SUFFICES ASSUME Init PROVE IInv
  OBVIOUS
<1> USE DEF Init
<1>1. Idle \in Jobs /\ Idle.fold \in 0..Folds
  BY LaneAssumption DEF Idle, Jobs, Gens, Statuses
<1>2. Typed
  <2>1. [gen |-> 0, parent |-> 0] \in [gen : 0..(MaxResets + 1), parent : 0..(MaxResets + 1)]
    BY LaneAssumption
  <2>2. ready \in 0..Folds /\ resets \in 0..MaxResets /\ crashes \in 0..MaxCrashes
    BY LaneAssumption
  <2>3. QED
    BY <1>1, <2>1, <2>2 DEF Typed, TypeOK, Statuses, Labels
<1>3. OpenFolds = {} /\ PreReplayComplete = {}
  BY DEF OpenFolds, PreReplayComplete, In
<1>4. Prefix /\ InHand /\ Evidence
  BY DEF Prefix, InHand, Evidence, RunsOf
<1>5. Current /\ Lineage
  BY <1>3 DEF Current, Lineage, RunsOf
<1>6. QED
  BY <1>2, <1>4, <1>5 DEF IInv

\* Every step keeps the invariant.
LEMMA StepInv == IInv /\ [Next]_vars => IInv'
<1> SUFFICES ASSUME IInv, [Next]_vars PROVE IInv'
  OBVIOUS
<1>1. CASE Quiet
  BY <1>1, QuietSteps
<1>2. CASE SelectWork
  BY <1>2, SelectStep
<1>3. CASE TrainSplits \/ TrainCheckpoint \/ TrainNothing
  BY <1>3, TrainStep
<1>4. CASE EndReplay
  BY <1>4, ReplayedStep
<1>5. CASE EndReview \/ Decide \/ EndEvaluation
  BY <1>5, AmendingSteps
<1>6. ASSUME NEW f \in Fold, Promote(f) PROVE IInv'
  BY <1>6, PromoteStep
<1>7. ASSUME NEW scope \in ResetScopes, Reset(scope) PROVE IInv'
  BY <1>7, ResetStep
<1>8. CASE UNCHANGED vars
  BY <1>8 DEF vars, IInv, Typed, TypeOK, Prefix, InHand, Evidence, Current, Lineage,
              RunsOf, Halfway, Top, SplitsComplete, PreReplayComplete, OpenFolds, In
<1>9. QED
  BY <1>1, <1>2, <1>3, <1>4, <1>5, <1>6, <1>7, <1>8 DEF Next, Cycle, Quiet

\* The inductive invariant of the lane.
THEOREM LaneInvariant == Spec => []IInv
<1>1. QED
  BY InitInv, StepInv, PTL DEF Spec

\* Every reachable state has the types of TypeOK; a fold never has two replay receipts.
THEOREM TypeCorrect == Spec => []TypeOK
<1>1. IInv => TypeOK
  BY DEF IInv, Typed
<1>2. QED
  BY <1>1, LaneInvariant, PTL

\* What a fold is closed with is about the checkpoint it has and, by the checkpoint's
\* parent, about the fold before it: for any number of folds and resets.
THEOREM VerdictsAreCurrent == Spec => []ClosedIsCurrent
<1>1. IInv => ClosedIsCurrent
  BY DEF IInv, Current, Lineage, ClosedIsCurrent, VerdictIsCurrent, LineageIsCurrent, Closed
<1>2. QED
  BY <1>1, LaneInvariant, PTL

-----------------------------------------------------------------------------
\* The folds that have been opened are the first ones, as many as there are.
LEMMA OpenedFolds ==
    ASSUME Typed, Prefix
    PROVE  Fold \ In({"absent"}) = 1..opened /\ opened \in 0..Folds
<1> DEFINE started == Fold \ In({"absent"})
<1>1. Folds \in Nat /\ started \in SUBSET Fold /\ started \in SUBSET (0..Folds)
  BY LaneAssumption DEF Fold
<1>2. CASE started = {}
  BY <1>1, <1>2, FS_EmptySet DEF opened
<1>3. CASE started # {}
  <2> DEFINE m == Max(started)
  <2>1. m \in started /\ \A f \in started : f <= m
    BY <1>1, <1>3, Ends
  <2>2. m \in 1..Folds
    BY <1>1, <2>1 DEF Fold
  <2> HIDE DEF m
  <2>3. ASSUME NEW f \in 1..m PROVE f \in started
    <3>1. f \in Fold /\ m \in Fold /\ fold[m] # "absent" /\ (f < m \/ f = m)
      BY <1>1, <2>1, <2>2 DEF Fold, In
    <3>2. fold[f] # "absent"
      BY <3>1 DEF Prefix
    <3>3. QED
      BY <3>1, <3>2 DEF In
  <2>4. started = 1..m
    BY <1>1, <2>1, <2>2, <2>3 DEF Fold
  <2>5. Cardinality(1..m) = m
    BY <2>2, FS_Interval
  <2>6. opened = m
    BY <2>4, <2>5 DEF opened
  <2>7. QED
    BY <1>1, <2>2, <2>4, <2>6
<1>4. QED
  BY <1>2, <1>3

\* A closed fold is decided by the one receipt it has, and has been opened.
LEMMA ClosedFolds == IInv => closed \subseteq 1..opened
<1> SUFFICES ASSUME IInv PROVE closed \subseteq 1..opened
  OBVIOUS
<1>1. Fold \ In({"absent"}) = 1..opened
  BY OpenedFolds DEF IInv
<1>2. \A f \in closed : f \in Fold \ In({"absent"})
  BY DEF closed, Closed, PreReplayComplete, In
<1>3. QED
  BY <1>1, <1>2

\* A fold whose files a step does not touch is closed after it when it was before.
LEMMA ClosedElsewhere ==
    ASSUME NEW f \in Fold, fold'[f] = fold[f], readiness'[f] = readiness[f],
           RunsOf(f)' = RunsOf(f)
    PROVE  (f \in closed') <=> (f \in closed)
<1>1. PreReplayComplete' = {g \in Fold : fold'[g] \in {"ragged", "complete"}}
  BY DEF PreReplayComplete, In
<1>2. (f \in PreReplayComplete') <=> (f \in PreReplayComplete)
  BY <1>1 DEF PreReplayComplete, In
<1>3. LifecycleComplete(f)' <=> LifecycleComplete(f)
  BY DEF LifecycleComplete
<1>4. Closed(f)' <=> Closed(f)
  BY <1>2, <1>3 DEF Closed
<1>5. QED
  BY <1>4 DEF closed

\* A step that opens no fold and closes one at most is a step of the sequence.
LEMMA AtMostOneCloses ==
    ASSUME IInv, IInv', NEW f \in Fold,
           UNCHANGED <<opened, resets>>, closed \subseteq closed', closed' \subseteq closed \cup {f}
    PROVE  [Lane!Next]_(Lane!seen)
<1>1. CASE closed' = closed
  BY <1>1 DEF Lane!seen
<1>2. CASE closed' # closed
  <2>1. closed' = closed \cup {f} /\ f \notin closed
    BY <1>2
  <2>2. (IInv => closed \subseteq 1..opened)'
    BY ClosedFolds, PTL
  <2>3. f \in (1..opened) \ closed
    BY <2>1, <2>2
  <2>4. Lane!Close
    BY <2>1, <2>3 DEF Lane!Close
  <2>5. QED
    BY <2>4 DEF Lane!Next
<1>3. QED
  BY <1>1, <1>2

\* While the worker may be given a fold, every fold that has been opened and is not
\* open is closed: the hold saw its verdict, and no evaluation is halfway.
LEMMA OthersAreClosed ==
    ASSUME IInv, pc = "worker", ~Blocks, NEW f \in Fold \ In({"absent"}), f \notin OpenFolds
    PROVE  f \in closed
<1>1. f \in PreReplayComplete
  BY DEF PreReplayComplete, OpenFolds, In, Statuses, IInv, Typed, TypeOK
<1>2. LifecycleComplete(f)
  BY <1>1 DEF Blocks
<1>3. \E r \in RunsOf(f) : r.fresh
  BY <1>2 DEF LifecycleComplete, IInv, Evidence
<1>4. \A r \in RunsOf(f) : r.fresh /\ ~Halfway(r)
  BY <1>3 DEF RunsOf, IInv, Typed, TypeOK, Evidence
<1>5. Closed(f)
  BY <1>1, <1>2, <1>4 DEF Closed, Halfway
<1>6. QED
  BY <1>5 DEF closed

\* A write of a state file that leaves the fold short of its replay, or where it had
\* no verdict, closes and reopens nothing.
LEMMA StoredCloses ==
    ASSUME IInv, NEW f \in Fold, NEW status \in Statuses, Stored(f, status),
           f \notin PreReplayComplete
    PROVE  closed' = closed
<1>1. f \notin closed
  BY DEF closed, Closed
<1>2. f \notin closed'
  <2>1. \A q \in runs : Stale(q).fresh = FALSE
    BY DEF Stale, IInv, Typed, TypeOK
  <2>2. \A r \in RunsOf(f)' : ~r.fresh
    <3>1. ASSUME NEW r \in runs', r.fold = f PROVE ~r.fresh
      <4>1. PICK q \in runs : q.fold = r.fold
        BY <3>1 DEF Stored, Kept
      <4>2. r = Stale(q)
        BY <3>1, <4>1 DEF Stored
      <4>3. QED
        BY <2>1, <4>2
    <3>2. QED
      BY <3>1 DEF RunsOf
  <2>3. ~LifecycleComplete(f)'
    BY <2>2 DEF Stored, LifecycleComplete
  <2>4. QED
    BY <2>3 DEF closed, Closed
<1>3. ASSUME NEW g \in Fold, g # f PROVE (g \in closed') <=> (g \in closed)
  <2>1. fold'[g] = fold[g] /\ readiness'[g] = readiness[g]
    BY <1>3 DEF Stored
  <2>2. RunsOf(g)' = RunsOf(g)
    <3>1. \A r \in runs' : r.fold = g => r \in runs
      BY <1>3 DEF Stored, Kept
    <3>2. \A q \in runs : q.fold = g => q \in runs'
      BY <1>3 DEF Stored, Kept
    <3>3. QED
      BY <3>1, <3>2 DEF RunsOf
  <2>3. QED
    BY <2>1, <2>2, ClosedElsewhere
<1>4. closed \subseteq Fold /\ closed' \subseteq Fold
  BY DEF closed
<1>5. QED
  BY <1>1, <1>2, <1>3, <1>4

\* Selecting a fold that was never opened opens the next one on closed ones.
LEMMA SelectRefines == ASSUME IInv, SelectWork PROVE [Lane!Next]_(Lane!seen)
<1>1. PICK f \in Selectable, status \in {"open", "built"} :
        /\ status = IF fold[f] = "built" THEN "built" ELSE "open"
        /\ Store(f, status)
  BY DEF SelectWork
<1>2. pc = "worker" /\ resets' = resets
  BY DEF SelectWork, history
<1>3. /\ f \in Fold /\ ~Blocks
      /\ \/ f \in OpenFolds /\ \A g \in OpenFolds : f <= g
         \/ /\ fold[f] = "absent" /\ OpenFolds = {}
            /\ \A g \in Fold : g < f => fold[g] # "absent"
  BY Selected
<1>4. Stored(f, status)
  BY <1>1, <1>3, StoreStep DEF IInv, Statuses
<1>5. f \notin PreReplayComplete
  BY <1>3 DEF PreReplayComplete, OpenFolds, In
<1>6. closed' = closed
  BY <1>3, <1>4, <1>5, StoredCloses DEF Statuses
<1>7. (Fold \ In({"absent"}))' = (Fold \ In({"absent"})) \cup {f}
  BY <1>1, <1>3, <1>4 DEF Stored, In
<1>8. CASE f \in OpenFolds
  <2>1. (Fold \ In({"absent"}))' = Fold \ In({"absent"})
    BY <1>3, <1>7, <1>8 DEF OpenFolds, In
  <2>2. opened' = opened
    BY <2>1 DEF opened
  <2>3. QED
    BY <1>2, <1>6, <2>2 DEF Lane!seen
<1>9. CASE fold[f] = "absent" /\ OpenFolds = {}
  <2>1. Fold \ In({"absent"}) = 1..opened /\ opened \in 0..Folds
    BY OpenedFolds DEF IInv
  <2>2. f \notin 1..opened
    BY <1>9, <2>1 DEF In
  <2>3. opened < Folds
    BY <1>3, <2>1, <2>2, LaneAssumption DEF Fold
  <2>4. closed = 1..opened
    <3>1. \A g \in 1..opened : g \in closed
      BY <1>2, <1>3, <1>9, <2>1, OthersAreClosed
    <3>2. QED
      BY <3>1, ClosedFolds
  <2>5. opened' = opened + 1
    <3>1. IsFiniteSet(1..opened) /\ Cardinality(1..opened) = opened
      BY <2>1, FS_Interval
    <3>2. Cardinality((1..opened) \cup {f}) = opened + 1
      BY <2>2, <3>1, FS_AddElement
    <3>3. QED
      BY <1>7, <2>1, <3>2 DEF opened
  <2>6. Lane!Open
    BY <1>2, <1>6, <2>3, <2>4, <2>5 DEF Lane!Open
  <2>7. QED
    BY <2>6 DEF Lane!Next
<1>10. QED
  BY <1>3, <1>8, <1>9

\* The end of a tick writes a fold that is open, so it closes and opens nothing.
LEMMA TrainRefines ==
    ASSUME IInv, TrainSplits \/ TrainCheckpoint \/ TrainNothing PROVE [Lane!Next]_(Lane!seen)
<1> DEFINE f == job.fold
<1>1. pc = "training" /\ f \in Fold /\ f \in OpenFolds /\ job.had \in {"open", "built"}
  BY DEF TrainSplits, TrainCheckpoint, TrainNothing, IInv, Typed, InHand
<1>2. PICK status \in {"open", "built", "ragged", "complete"} : Store(f, status)
  BY <1>1 DEF TrainSplits, TrainCheckpoint, TrainNothing
<1>3. resets' = resets
  BY DEF TrainSplits, TrainCheckpoint, TrainNothing, history
<1> HIDE DEF f
<1>4. Stored(f, status)
  BY <1>1, <1>2, StoreStep DEF IInv, Statuses
<1>5. f \notin PreReplayComplete
  BY <1>1 DEF PreReplayComplete, OpenFolds, In
<1>6. closed' = closed
  BY <1>1, <1>4, <1>5, StoredCloses DEF Statuses
<1>7. (Fold \ In({"absent"}))' = Fold \ In({"absent"})
  BY <1>1, <1>4 DEF Stored, OpenFolds, In
<1>8. opened' = opened
  BY <1>7 DEF opened
<1>9. QED
  BY <1>3, <1>6, <1>8 DEF Lane!seen

\* A replay is run for a fold without evidence, and its receipt has no verdict yet.
LEMMA ReplayRefines == ASSUME IInv, EndReplay PROVE [Lane!Next]_(Lane!seen)
<1>1. /\ pc = "replaying" /\ UNCHANGED <<fold, readiness, resets>>
      /\ job.fold \in Fold /\ RunsOf(job.fold) = {}
  BY DEF EndReplay, history, IInv, Typed, InHand
<1>f. PICK f \in Fold : f = job.fold /\ RunsOf(f) = {}
  BY <1>1
<1>2. PICK new \in {Receipt(f, job.gen, rows) : rows \in BOOLEAN} : runs' = runs \cup {new}
  BY <1>f DEF EndReplay
<1>3. new.fold = f /\ new.fresh = FALSE
  <2>1. PICK rows \in BOOLEAN : new = Receipt(f, job.gen, rows)
    BY <1>2
  <2> DEFINE last == Max({0} \cup {r.created : r \in runs})
  <2>2. new = [fold |-> f, gen |-> job.gen, rows |-> rows, reviewed |-> FALSE,
               verdict |-> "none", fresh |-> FALSE, settled |-> FALSE, created |-> 1 + last]
    BY <2>1 DEF Receipt
  <2> HIDE DEF last
  <2>3. QED
    BY <2>2
<1>4. ~readiness[f]
  BY <1>f DEF IInv, Evidence
<1>5. f \notin closed
  BY <1>f, <1>4 DEF closed, Closed, LifecycleComplete
<1>6. f \notin closed'
  <2>1. \A r \in RunsOf(f)' : ~r.fresh
    BY <1>f, <1>2, <1>3 DEF RunsOf
  <2>2. ~LifecycleComplete(f)'
    BY <1>1, <1>4, <2>1 DEF LifecycleComplete
  <2>3. QED
    BY <2>2 DEF closed, Closed
<1>7. ASSUME NEW g \in Fold, g # f PROVE (g \in closed') <=> (g \in closed)
  <2>1. RunsOf(g)' = RunsOf(g)
    BY <1>2, <1>3, <1>7 DEF RunsOf
  <2>2. QED
    BY <1>1, <2>1, ClosedElsewhere
<1>8. closed' = closed
  <2>1. closed \subseteq Fold /\ closed' \subseteq Fold
    BY DEF closed
  <2>2. QED
    BY <1>5, <1>6, <1>7, <2>1
<1>9. opened' = opened
  BY <1>1 DEF opened, In
<1>10. QED
  BY <1>1, <1>8, <1>9 DEF Lane!seen

\* A step that amends the receipts of the fold in hand and takes no verdict or
\* evaluation away closes that fold at most.
LEMMA AmendedCloses ==
    ASSUME IInv, IInv', NEW f \in Fold, UNCHANGED <<fold, readiness, resets>>, Kept,
           \A q \in runs, r \in runs' : q.fold = r.fold =>
              IF q.fold # f THEN r = q
              ELSE /\ q.fresh /\ q.verdict = "terminal" => r.fresh /\ r.verdict = "terminal"
                   /\ r.rows = q.rows /\ (q.settled => r.settled)
    PROVE  [Lane!Next]_(Lane!seen)
<1>1. ASSUME NEW g \in Fold, g # f PROVE (g \in closed') <=> (g \in closed)
  <2>1. RunsOf(g)' = RunsOf(g)
    <3>1. \A r \in runs' : r.fold = g => r \in runs
      BY <1>1 DEF Kept
    <3>2. \A q \in runs : q.fold = g => q \in runs'
      BY <1>1 DEF Kept
    <3>3. QED
      BY <3>1, <3>2 DEF RunsOf
  <2>2. QED
    BY <2>1, ClosedElsewhere
<1>2. ASSUME f \in closed PROVE f \in closed'
  <2>1. f \in PreReplayComplete /\ LifecycleComplete(f) /\ \A q \in RunsOf(f) : q.rows => q.settled
    BY <1>2 DEF closed, Closed
  <2>2. LifecycleComplete(f)'
    <3>1. CASE readiness[f]
      BY <3>1 DEF LifecycleComplete
    <3>2. CASE \E q \in RunsOf(f) : q.verdict = "terminal" /\ q.fresh
      <4>1. PICK q \in runs : q.fold = f /\ q.verdict = "terminal" /\ q.fresh
        BY <3>2 DEF RunsOf
      <4>2. PICK r \in runs' : q.fold = r.fold
        BY <4>1 DEF Kept
      <4>3. r.fold = f /\ r.verdict = "terminal" /\ r.fresh
        BY <4>1, <4>2
      <4>4. QED
        BY <4>3 DEF LifecycleComplete, RunsOf
    <3>3. QED
      BY <2>1, <3>1, <3>2 DEF LifecycleComplete
  <2>3. \A r \in RunsOf(f)' : r.rows => r.settled
    BY <2>1 DEF Kept, RunsOf
  <2>4. f \in PreReplayComplete'
    BY <2>1 DEF PreReplayComplete, In
  <2>5. QED
    BY <2>2, <2>3, <2>4 DEF closed, Closed
<1>3. closed \subseteq Fold /\ closed' \subseteq Fold
  BY DEF closed
<1>4. closed \subseteq closed' /\ closed' \subseteq closed \cup {f}
  BY <1>1, <1>2, <1>3
<1>5. opened' = opened
  BY DEF opened, In
<1>6. QED
  BY <1>4, <1>5, AtMostOneCloses

\* A review or an evaluation closes its fold at most; a decision alone closes nothing,
\* as the replay it is about is not settled.
LEMMA AmendRefines ==
    ASSUME IInv, IInv', EndReview \/ Decide \/ EndEvaluation PROVE [Lane!Next]_(Lane!seen)
<1>1. /\ \A q \in runs : q \in Runs
      /\ job.fold \in Fold /\ UNCHANGED <<fold, readiness, resets>>
  BY DEF EndReview, Decide, EndEvaluation, history, IInv, Typed, TypeOK, Runs
<1>2. CASE EndReview
  <2>1. Kept /\ \A q \in runs, r \in runs' :
            q.fold = r.fold => r = IF q.fold = job.fold THEN Reviewed(q) ELSE q
    BY <1>2, ReviewedRuns DEF EndReview, IInv
  <2>2. \A q \in Runs :
            /\ q.fresh /\ q.verdict = "terminal" =>
                Reviewed(q).fresh /\ Reviewed(q).verdict = "terminal"
            /\ Reviewed(q).rows = q.rows /\ Reviewed(q).settled = q.settled
    BY DEF Reviewed, Runs
  <2>3. QED
    BY <1>1, <2>1, <2>2, AmendedCloses
<1>3. CASE Decide
  <2>1. PICK verdict \in {"terminal", "eligible"} :
            runs' = {IF r.fold = job.fold THEN [r EXCEPT !.verdict = verdict, !.fresh = TRUE]
                     ELSE r : r \in runs}
    BY <1>3 DEF Decide, Amended
  <2> DEFINE new(q) == [q EXCEPT !.verdict = verdict, !.fresh = TRUE]
  <2>2. Kept /\ \A q \in runs, r \in runs' :
            q.fold = r.fold => r = IF q.fold = job.fold THEN new(q) ELSE q
    BY <2>1, DecidedRuns DEF IInv
  <2>3. \A q \in Runs : new(q).rows = q.rows /\ new(q).settled = q.settled
    BY DEF Runs
  <2> HIDE DEF new
  <2>4. \A q \in RunsOf(job.fold) : q.rows /\ ~q.settled
    BY <1>3 DEF Decide, IInv, InHand
  <2>5. (job.fold \in closed') <=> (job.fold \in closed)
    <3>1. CASE RunsOf(job.fold) = {}
      <4>1. \A r \in runs' : r.fold # job.fold
        BY <2>2, <3>1 DEF Kept, RunsOf
      <4>2. ~readiness[job.fold]
        BY <1>1, <3>1 DEF IInv, Evidence
      <4>3. ~LifecycleComplete(job.fold)
        BY <3>1, <4>2 DEF LifecycleComplete
      <4>4. job.fold \notin closed
        BY <4>3 DEF closed, Closed
      <4>5. ASSUME NEW g \in Fold, g = job.fold PROVE g \notin closed'
        <5>1. RunsOf(g)' = {}
          BY <4>1, <4>5 DEF RunsOf
        <5>2. ~LifecycleComplete(g)'
          BY <1>1, <4>2, <4>5, <5>1 DEF LifecycleComplete
        <5>3. QED
          BY <5>2 DEF closed, Closed
      <4>6. QED
        BY <1>1, <4>4, <4>5
    <3>2. CASE RunsOf(job.fold) # {}
      <4>1. PICK q \in runs : q.fold = job.fold /\ q.rows /\ ~q.settled
        BY <2>4, <3>2 DEF RunsOf
      <4>2. job.fold \notin closed
        BY <4>1 DEF closed, Closed, RunsOf
      <4>3. PICK r \in runs' : q.fold = r.fold
        BY <2>2, <4>1 DEF Kept
      <4>4. r.fold = job.fold /\ r.rows /\ ~r.settled
        BY <1>1, <2>2, <2>3, <4>1, <4>3
      <4>5. ASSUME NEW g \in Fold, g = job.fold PROVE g \notin closed'
        BY <4>4, <4>5 DEF closed, Closed, RunsOf
      <4>6. QED
        BY <1>1, <4>2, <4>5
    <3>3. QED
      BY <3>1, <3>2
  <2>6. ASSUME NEW g \in Fold, g # job.fold PROVE (g \in closed') <=> (g \in closed)
    <3>1. RunsOf(g)' = RunsOf(g)
      <4>1. \A r \in runs' : r.fold = g => r \in runs
        BY <2>2, <2>6 DEF Kept
      <4>2. \A q \in runs : q.fold = g => q \in runs'
        BY <2>2, <2>6 DEF Kept
      <4>3. QED
        BY <4>1, <4>2 DEF RunsOf
    <3>2. QED
      BY <1>1, <3>1, ClosedElsewhere
  <2>7. closed' = closed
    <3>1. closed \subseteq Fold /\ closed' \subseteq Fold
      BY DEF closed
    <3>2. QED
      BY <2>5, <2>6, <3>1
  <2>8. opened' = opened
    BY <1>1 DEF opened, In
  <2>9. QED
    BY <1>1, <2>7, <2>8 DEF Lane!seen
<1>4. CASE EndEvaluation
  <2>1. Kept /\ \A q \in runs, r \in runs' :
            q.fold = r.fold => r = IF q.fold = job.fold THEN Settled(q) ELSE q
    BY <1>4, SettledRuns DEF EndEvaluation, IInv
  <2>2. \A q \in Runs : /\ Settled(q).fresh = q.fresh /\ Settled(q).verdict = q.verdict
                        /\ Settled(q).rows = q.rows /\ Settled(q).settled
    BY DEF Settled, Runs
  <2>3. QED
    BY <1>1, <2>1, <2>2, AmendedCloses
<1>5. QED
  BY <1>2, <1>3, <1>4

\* A promotion closes its fold at most.
LEMMA PromoteRefines ==
    ASSUME IInv, IInv', NEW f \in Fold, Promote(f) PROVE [Lane!Next]_(Lane!seen)
<1>1. /\ UNCHANGED <<fold, runs, resets>> /\ readiness' = [readiness EXCEPT ![f] = TRUE]
      /\ readiness \in [Fold -> BOOLEAN]
  BY DEF Promote, history, IInv, Typed, TypeOK
<1>2. ASSUME NEW g \in Fold, g # f PROVE (g \in closed') <=> (g \in closed)
  BY <1>1, <1>2, ClosedElsewhere DEF RunsOf
<1>3. ASSUME f \in closed PROVE f \in closed'
  <2>1. readiness'[f]
    BY <1>1
  <2>2. QED
    BY <1>1, <1>3, <2>1 DEF closed, Closed, LifecycleComplete, PreReplayComplete, In, RunsOf
<1>4. closed \subseteq Fold /\ closed' \subseteq Fold
  BY DEF closed
<1>5. closed \subseteq closed' /\ closed' \subseteq closed \cup {f}
  BY <1>2, <1>3, <1>4
<1>6. opened' = opened
  BY <1>1 DEF opened, In
<1>7. QED
  BY <1>1, <1>5, <1>6, AtMostOneCloses

\* A reset reopens the folds of its scope; no other fold is closed or reopened by it.
LEMMA ResetRefines ==
    ASSUME IInv, NEW scope \in ResetScopes, Reset(scope) PROVE [Lane!Next]_(Lane!seen)
<1>1. /\ scope \in SUBSET Fold /\ \A f \in scope : fold[f] # "absent" /\ fold'[f] = "open"
      /\ \A f \in Fold \ scope : fold'[f] = fold[f] /\ readiness'[f] = readiness[f]
      /\ runs' = {r \in runs : r.fold \notin scope} /\ resets' = resets + 1
  BY LaneAssumption DEF Reset, Cleared, IInv, Typed, TypeOK, In
<1>2. closed' \subseteq closed
  <2>1. ASSUME NEW f \in closed' PROVE f \in closed
    <3>1. f \in Fold \ scope
      BY <1>1, <2>1 DEF closed, Closed, PreReplayComplete, In
    <3>2. RunsOf(f)' = RunsOf(f)
      BY <1>1, <3>1 DEF RunsOf
    <3>3. QED
      BY <1>1, <2>1, <3>1, <3>2, ClosedElsewhere
  <2>2. QED
    BY <2>1
<1>3. (Fold \ In({"absent"}))' = Fold \ In({"absent"})
  BY <1>1 DEF In
<1>4. opened' = opened
  BY <1>3 DEF opened
<1>5. Lane!Reset
  BY <1>1, <1>2, <1>4 DEF Lane!Reset
<1>6. QED
  BY <1>5 DEF Lane!Next

\* The steps that only start or give up a command are stutters.
LEMMA QuietRefines == ASSUME IInv, Quiet \/ UNCHANGED vars PROVE [Lane!Next]_(Lane!seen)
<1>1. UNCHANGED <<fold, runs, readiness, resets>>
  BY DEF Quiet, Probe, IngestMonths, IngestNothing, SelectNothing, Freeze, DatasetWaits,
         StartReplay, SkipReplay, FailReplay, StartReview, SkipReview, StartEvaluation,
         SkipEvaluation, Crash, evidence, history, vars
<1>2. opened' = opened
  BY <1>1 DEF opened, In
<1>3. closed' = closed
  <2>1. \A f \in Fold : (f \in closed') <=> (f \in closed)
    BY <1>1, ClosedElsewhere DEF RunsOf
  <2>2. closed \subseteq Fold /\ closed' \subseteq Fold
    BY DEF closed
  <2>3. QED
    BY <2>1, <2>2
<1>4. QED
  BY <1>1, <1>2, <1>3 DEF Lane!seen

\* Folds progress serially: whatever is reset, crashes or is tried again, a fold is
\* opened only when every earlier fold is closed, and only a reset takes a closed fold
\* back.  It holds for any number of folds, any scopes and any number of resets.
THEOREM LaneImplementsSequence == Spec => ImplementsFoldSequence
<1>1. Init => Lane!Init
  <2>1. ASSUME Init PROVE closed = {}
    BY <2>1 DEF Init, closed, Closed, PreReplayComplete, In
  <2>2. ASSUME Init PROVE opened = 0
    <3>1. Fold \ In({"absent"}) = {}
      BY <2>2 DEF Init, In
    <3>2. QED
      BY <3>1, FS_EmptySet DEF opened
  <2>3. QED
    BY <2>1, <2>2 DEF Init, Lane!Init
<1>2. IInv /\ IInv' /\ [Next]_vars => [Lane!Next]_(Lane!seen)
  <2> SUFFICES ASSUME IInv, IInv', [Next]_vars PROVE [Lane!Next]_(Lane!seen)
    OBVIOUS
  <2>1. CASE Quiet \/ UNCHANGED vars
    BY <2>1, QuietRefines
  <2>2. CASE SelectWork
    BY <2>2, SelectRefines
  <2>3. CASE TrainSplits \/ TrainCheckpoint \/ TrainNothing
    BY <2>3, TrainRefines
  <2>4. CASE EndReplay
    BY <2>4, ReplayRefines
  <2>5. CASE EndReview \/ Decide \/ EndEvaluation
    BY <2>5, AmendRefines
  <2>6. ASSUME NEW f \in Fold, Promote(f) PROVE [Lane!Next]_(Lane!seen)
    BY <2>6, PromoteRefines
  <2>7. ASSUME NEW scope \in ResetScopes, Reset(scope) PROVE [Lane!Next]_(Lane!seen)
    BY <2>7, ResetRefines
  <2>8. QED
    BY <2>1, <2>2, <2>3, <2>4, <2>5, <2>6, <2>7 DEF Next, Cycle, Quiet
<1>3. QED
  BY <1>1, <1>2, LaneInvariant, PTL DEF Spec, ImplementsFoldSequence, Lane!Spec
=============================================================================
