--------------------------- MODULE MCProviderStage ---------------------------
(* ProviderStage with two requests dispatched one at a time: the least that   *)
(* has a request left over while another one is ready, failed or accepted.    *)
EXTENDS ProviderStage

TwoRequests == <<"spy", "tlt">>
BothRoutes == {"bars", "options"}
=============================================================================
