--------------------------- MODULE MCFormWebhook ---------------------------
(* FormWebhook for TLC.  The run checks liveness, so nothing is declared    *)
(* interchangeable.                                                         *)
EXTENDS FormWebhook
=============================================================================
