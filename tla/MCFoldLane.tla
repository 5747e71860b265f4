----------------------------- MODULE MCFoldLane -----------------------------
(* FoldLane with reruns of any folds of the target in one batch.              *)
EXTENDS FoldLane

AnyFolds == SUBSET Fold
=============================================================================
