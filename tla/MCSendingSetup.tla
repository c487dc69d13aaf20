--------------------------- MODULE MCSendingSetup ---------------------------
(* SendingSetup for TLC: who asks for a domain and who administers the      *)
(* platform are the requests; requests, servers and instances are alike.    *)
EXTENDS SendingSetup, TLC

Symmetry == Permutations(Requests) \cup Permutations(Servers) \cup Permutations(Instances)
=============================================================================
