----------------------------- MODULE MCAccounts -----------------------------
(* Accounts for TLC: the requests are interchangeable, and the users but    *)
(* the first.                                                               *)
EXTENDS Accounts

Symmetry == Permutations(Procs) \cup Permutations(Users \ {Founder})
=============================================================================
