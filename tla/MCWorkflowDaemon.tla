-------------------------- MODULE MCWorkflowDaemon --------------------------
(* The daemon alone with a checkpoint of two layers (WorkflowCheckpoint); and *)
(* what is known of the datasets of two models, the second built on the first *)
(* (DatasetEvidence).  The two share no variable: each moves only from the    *)
(* initial state of the other.                                                *)
EXTENDS MCWorkflowCheckpoint, DatasetEvidence

Below == [l \in ModelLayers |-> 1 .. l - 1]
Minimum == [r \in SplitRoles |-> IF r = "train" THEN 2 ELSE 1]
\* "history" contains the alias "is" of the training split.
Roles == [n \in SplitNames |-> CASE n = "history" -> "train"
                                 [] n = "extra" -> "none"
                                 [] OTHER -> n]
Split(n, a, b) == [name |-> n, first |-> a, last |-> b]
Datasets ==
    {{Split("train", 1, 2), Split("calibration", 3, 3),
      Split("validation", 4, 4), Split("test", 5, 5)},
     {Split("history", 1, 1), Split("extra", 1, 2), Split("train", 2, 2),
      Split("test", 4, 3), Split("validation", 4, 4),
      Split("forward_holdout", 6, 6)}}

WorkRests == Init /\ seed = {}
MCInit == Init /\ EvidenceInit
MCNext ==
    \/ EvidenceInit /\ DaemonNext /\ UNCHANGED evidenceVars
    \/ WorkRests /\ EvidenceNext /\ UNCHANGED vars
MCSpec ==
    /\ MCInit /\ [][MCNext]_<<vars, evidenceVars>>
    /\ \A w \in Worker : WF_vars(Step(w)) /\ SF_vars(Delivers(w))
=============================================================================
