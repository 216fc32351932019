------------------------- MODULE MCKnowledgeStream -------------------------
(* An instance of KnowledgeStream for TLC.                                    *)
EXTENDS KnowledgeStream

\* No entry replaces another.
Versions == [e \in Entries |-> 0]
=============================================================================
