---------------------------- MODULE MCAgentErrors ----------------------------
(* AgentErrors with an error that occurs twice; and what the daemon writes    *)
(* down meanwhile (TransitionLedger).  The two share no variable: each moves  *)
(* only from the initial state of the other.                                  *)
EXTENDS AgentErrors, TransitionLedger

TwoRequests == <<"e1", "e2">>
SameError == [r \in {"e1", "e2"} |-> "p"]
AllSites == {"stage", "timed", "provider", "wrapper"}

ErrorsRest == Init /\ site["p"] = "stage"
LedgerRests == LedgerInit /\ ~queued
MCInit == \/ Init /\ LedgerRests
          \/ ErrorsRest /\ LedgerInit
MCNext ==
    \/ LedgerRests /\ Next /\ UNCHANGED ledgerVars
    \/ ErrorsRest /\ LedgerNext /\ UNCHANGED vars
MCSpec == MCInit /\ [][MCNext]_<<vars, ledgerVars>>
=============================================================================
