--------------------------- MODULE MCContactImport ---------------------------
(* ContactImport for TLC.  The run checks liveness, so nothing is declared  *)
(* interchangeable.                                                         *)
EXTENDS ContactImport
=============================================================================
