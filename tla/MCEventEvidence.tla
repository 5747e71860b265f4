-------------------------- MODULE MCEventEvidence ---------------------------
(* A family of each kind, in the order of the code: the calendar of closures  *)
(* before the macro release.  And what an acquisition leads to: requests that *)
(* two batches plan, and the receipts of a bars request and of the shadow     *)
(* handoff.  The three share no variable: each moves only from the initial    *)
(* state of the others.                                                       *)
EXTENDS EventEvidence, RequestRecords, TLC
CONSTANTS earnings, price, session, cpi, spy, xlf, review
Order == <<earnings, price, session, cpi>>
KindOf == earnings :> "earnings" @@ price :> "price" @@ session :> "session" @@ cpi :> "macro"
\* The default list, with a family that the operator names twice.
Orders == {<<earnings, price, session, price, cpi>>}
\* Nothing, before the release, at it, and after it.
CrawlShapes == {{}, {"consensus", "te_forecast", "previous"}, {"actual"}, {"actual", "consensus"}}
ThreeTimes == 1 .. 3

\* The bars of SPY are in the batch of the layer and of the target.
BatchesFor == [etf |-> <<spy, xlf>>, local |-> <<spy>>, promotion |-> <<review>>]
CommandsFor ==
    {[kind |-> "prepare", batch |-> b, write |-> TRUE, persist |-> TRUE] : b \in {"etf", "local"}}
    \cup {[kind |-> "prepare", batch |-> "local", write |-> TRUE, persist |-> FALSE],
          [kind |-> "materialize", batch |-> "etf", write |-> TRUE, persist |-> TRUE],
          [kind |-> "validate", batch |-> "etf", write |-> FALSE, persist |-> FALSE],
          [kind |-> "promote", batch |-> "promotion", write |-> FALSE, persist |-> TRUE]}

MCInit == PacketInit /\ HandoffInit /\ CompletionInit
MCNext ==
    \/ HandoffInit /\ CompletionInit /\ PacketNext /\ UNCHANGED <<handoffVars, completionVars>>
    \/ PacketInit /\ CompletionInit /\ HandoffNext /\ UNCHANGED <<packetVars, completionVars>>
    \/ PacketInit /\ HandoffInit /\ CompletionNext /\ UNCHANGED <<packetVars, handoffVars>>
MCSpec == MCInit /\ [][MCNext]_<<packetVars, handoffVars, completionVars>>
=============================================================================
