-------------------------- MODULE MCLeaseRegistry ---------------------------
(* LeaseRegistry for TLC: clients, scopes and lease ids are interchangeable. *)
EXTENDS LeaseRegistry, TLC

Symmetry == Permutations(Clients) \cup Permutations(Scopes) \cup Permutations(LeaseIds)
=============================================================================
