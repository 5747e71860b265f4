---------------------------- MODULE MCTaskTimeline ----------------------------
(* The list of tasks that is shown of two folds of two layers.  Month 1 is one *)
(* that both folds contain, month 2 is of the second alone; the first fold is  *)
(* reset from its foundation on, or from its second layer.                     *)
EXTENDS TaskTimeline
MCWindows == <<{1}, {1, 2}>>
MCReruns == {[fold |-> 1, stage |-> 1], [fold |-> 1, stage |-> 3]}
===============================================================================
