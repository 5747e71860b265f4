---------------------------- MODULE MCReplayInputs ---------------------------
(* ReplayInputs with three signals of one target in two months.               *)
EXTENDS ReplayInputs

Signals == <<"a", "b", "c">>
Months2 == [r \in {"a", "b", "c"} |-> IF r = "c" THEN "2016-02" ELSE "2016-01"]
OneTarget == [r \in {"a", "b", "c"} |-> "T"]
Contracts2 == <<"x", "y">>
=============================================================================
