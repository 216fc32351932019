----------------------- MODULE MCProjectionWatermarks -----------------------
(* An instance of ProjectionWatermarks for TLC.                             *)
EXTENDS ProjectionWatermarks

\* The second entry is a new version of the first.
Chain == [e \in Entries |-> IF e = 2 THEN 1 ELSE 0]
=============================================================================
