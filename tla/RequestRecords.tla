--------------------------- MODULE RequestRecords ---------------------------
(* What the control plane keeps of a request: what was planned (RequestHandoff) *)
(* and what came of it (CompletionRows).  The two share no variable.           *)
EXTENDS RequestHandoff, CompletionRows

\* The row, the file and the binding of a request say the same, and so do the
\* signals, the artifacts and the runs of a completion receipt: no crash, no
\* repeated or rewritten receipt and no second plan of a request leaves one of
\* these places with what the others do not have (request_handoff.py,
\* persist_completion_rows).
RecordsAgree == PlacesAgree /\ CompletionIsConsistent
=============================================================================
