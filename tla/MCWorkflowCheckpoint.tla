------------------------ MODULE MCWorkflowCheckpoint ------------------------
(* WorkflowCheckpoint on a plan of two layers that keeps the shape of the real*)
(* one (WorkflowPlan): a prepared provider stage, a feature stage after it,   *)
(* generation after either of the two, and a second layer that starts with an *)
(* option source and ends with an offline stage.                              *)
EXTENDS WorkflowCheckpoint, TLC

TwoLayerPlan ==
    [order    |-> <<"src", "feat", "gen", "opt", "exp">>,
     layer    |-> [src |-> 1, feat |-> 1, gen |-> 1, opt |-> 2, exp |-> 2],
     blockers |-> [src  |-> {},
                   feat |-> {{{"src"}}},
                   gen  |-> {{{"src"}, {"feat"}}},
                   opt  |-> {{{"gen"}}},
                   exp  |-> {{{"opt"}}, {{"gen"}}}]]

\* One source, the feature stage after it and the generation of the next layer,
\* for the runs with several processes.
OneLayerPlan ==
    [order    |-> <<"src", "feat", "gen">>,
     layer    |-> [src |-> 1, feat |-> 1, gen |-> 2],
     blockers |-> [src  |-> {},
                   feat |-> {{{"src"}}},
                   gen  |-> {{{"src"}, {"feat"}}}]]

Source == {"src"}
Sources == {"src", "opt"}
Option == {"opt"}
Inputs == {"src", "exp"}

\* The foundation of a fold is its first data and feature stage.
Month == {{}}
Fold == {{"src", "feat"}}
MonthOrFold == Month \cup Fold

\* Scheduler processes are interchangeable.
Symmetry == Permutations(Worker)
=============================================================================
