---------------------------- MODULE FoldSequence ----------------------------
(* What the fold lane of a target promises to whoever reads its folds: a fold *)
(* is opened only when every fold before it is closed, and a closed fold is   *)
(* opened again by a reset of the operator and by nothing else.               *)
EXTENDS Naturals

CONSTANT Folds \* number of folds of the target

VARIABLES
    opened, \* folds 1 .. opened have been opened
    closed, \* folds whose lifecycle is decided
    resets  \* resets the operator has made

seen == <<opened, closed, resets>>

Init == opened = 0 /\ closed = {} /\ resets = 0

Open ==
    /\ opened < Folds /\ closed = 1..opened
    /\ opened' = opened + 1
    /\ UNCHANGED <<closed, resets>>

Close ==
    /\ \E f \in (1..opened) \ closed : closed' = closed \cup {f}
    /\ UNCHANGED <<opened, resets>>

Reset ==
    /\ closed' \subseteq closed
    /\ resets' = resets + 1
    /\ UNCHANGED opened

Next == Open \/ Close \/ Reset

Spec == Init /\ [][Next]_seen
=============================================================================
