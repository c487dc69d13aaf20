--------------------------- MODULE MCVerification ---------------------------
(* Verification for TLC: the requests and the contacts are interchangeable. *)
EXTENDS Verification

Symmetry == Permutations(Requests) \cup Permutations(Contacts)
=============================================================================
