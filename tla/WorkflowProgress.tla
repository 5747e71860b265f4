--------------------------- MODULE WorkflowProgress ---------------------------
(* What the checkpoint of one workflow promises to whoever reads it: a stage  *)
(* ends once, as done or as failed, and only after everything it builds on is *)
(* done.  WorkflowCheckpoint implements it as long as a single scheduler      *)
(* process writes the file.                                                   *)
CONSTANTS
    Stage,
    Blockers  \* for each stage the blockers to meet; a blocker is the set of
              \* alternatives that meet it, an alternative a set of stages

VARIABLES done, failed

progress == <<done, failed>>

Allowed(s, base) == \A b \in Blockers[s] : \E alternative \in b : alternative \subseteq base

Open(s) == s \notin done \cup failed

Init == done = {} /\ failed = {}

\* Several stages may end as done at once: a fold takes its foundation over from
\* its months.
Finish(set) ==
    /\ \A s \in set : Open(s) /\ Allowed(s, done \cup set)
    /\ done' = done \cup set
    /\ UNCHANGED failed

Fail(s) ==
    /\ Open(s) /\ Allowed(s, done)
    /\ failed' = failed \cup {s}
    /\ UNCHANGED done

Next == (\E set \in SUBSET Stage : Finish(set)) \/ (\E s \in Stage : Fail(s))

Spec == Init /\ [][Next]_progress
=============================================================================
