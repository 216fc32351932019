---------------------------- MODULE MCFleetQueue ----------------------------
(* Instances of FleetQueue for TLC.                                         *)
EXTENDS FleetQueue

\* Every keyed submit of the instance is a retry of the same request.
OneRequest == [j \in Keyed |-> "request"]
=============================================================================
