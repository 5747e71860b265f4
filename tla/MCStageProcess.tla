--------------------------- MODULE MCStageProcess ---------------------------
(* The daemon and an operator, each with a stage; the operator's is exempt    *)
(* from the stall limit.                                                      *)
EXTENDS StageProcess
CONSTANTS d, o
=============================================================================
