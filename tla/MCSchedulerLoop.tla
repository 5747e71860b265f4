-------------------------- MODULE MCSchedulerLoop --------------------------
(* The daemon's loop over two months, each with a fold behind it, and two     *)
(* targets; and the lock of the scheduler between three processes, of which   *)
(* one at a time is the daemon.  The two share no variable: each moves only   *)
(* from the initial state of the other, and its fairness is that of its steps *)
(* there.                                                                     *)
EXTENDS SchedulerLoop, SchedulerLock
CONSTANTS a, b
MCQueue == <<a, b>>

MCInit == LoopInit /\ Init
MCNext ==
    \/ Init /\ LoopNext /\ UNCHANGED vars
    \/ LoopInit /\ Next /\ UNCHANGED loopVars
MCSpec ==
    /\ MCInit /\ [][MCNext]_<<loopVars, vars>>
    /\ WF_loopVars(Init /\ (Iteration \/ Raise)) /\ WF_loopVars(Init /\ Age)
    /\ WF_vars(LoopInit /\ GrowOld) /\ \A p \in Proc : WF_vars(LoopInit /\ Step(p))
=============================================================================
