---------------------------- MODULE MCCampaign ----------------------------
(* Campaign for TLC: contacts and requests are interchangeable.             *)
EXTENDS Campaign, TLC

Symmetry == Permutations(Contacts) \cup Permutations(Requests) \cup Permutations(Hooks)
=============================================================================
