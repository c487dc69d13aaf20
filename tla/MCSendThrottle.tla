--------------------------- MODULE MCSendThrottle ---------------------------
(* SendThrottle for TLC: the jobs are interchangeable.                      *)
EXTENDS SendThrottle, TLC

Symmetry == Permutations(Jobs)
=============================================================================
