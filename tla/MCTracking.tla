----------------------------- MODULE MCTracking -----------------------------
(* Tracking for TLC: which recipients, requests and links are which does   *)
(* not matter.                                                             *)
EXTENDS Tracking

Symmetry == Permutations(Contacts) \cup Permutations(Visits) \cup Permutations(Reports) \cup Permutations(Urls)
=============================================================================
