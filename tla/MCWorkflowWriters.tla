------------------------- MODULE MCWorkflowWriters --------------------------
(* The writers of one checkpoint (WorkflowCheckpoint), the resets of a fold   *)
(* with its receipts and artifacts (RerunReset), and the months that the      *)
(* second layer waits for (TargetFeed).  They share no variable: each moves   *)
(* only while the others are at their initial states.                         *)
EXTENDS MCWorkflowCheckpoint, RerunReset, TargetFeed

\* A data stage, a split and the first split of the next layer.
ThreeStages ==
    [order    |-> <<"data", "train", "next">>,
     layer    |-> [data |-> 1, train |-> 1, next |-> 2],
     blockers |-> [data |-> {}, train |-> {{{"data"}}}, next |-> {{{"train"}}}]]

\* The service, which executes everything.
AllFlags == {{"prepare", "offline", "provider"}}

WritersSymmetry == Symmetry \cup Permutations(Tickers)

\* One initial state of each in which it waits for the others.
WorkRests == Init /\ seed \in Month
FeedRests == FeedInit /\ \A m \in Months : supply[m] = "rows"

MCInit == \/ Init /\ ResetInit /\ FeedRests
          \/ WorkRests /\ ResetInit /\ FeedInit
MCNext ==
    \/ WorkRests /\ FeedRests /\ ResetNext /\ UNCHANGED <<vars, feedVars>>
    \/ ResetInit /\ FeedRests /\ Next /\ UNCHANGED <<resetVars, feedVars>>
    \/ WorkRests /\ ResetInit /\ FeedNext /\ UNCHANGED <<vars, resetVars>>
MCSpec == MCInit /\ [][MCNext]_<<vars, resetVars, feedVars>>
=============================================================================
