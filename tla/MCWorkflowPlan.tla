---------------------------- MODULE MCWorkflowPlan ----------------------------
(* WorkflowPlan for every scope, with the real layers, stages and blockers.   *)
EXTENDS WorkflowPlan

EveryScope == {c \in AllScopes : c.target \/ c.overlay}
=============================================================================
