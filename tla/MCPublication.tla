--------------------------- MODULE MCPublication ----------------------------
EXTENDS Publication, TLC
CONSTANTS a, b

\* The pages of a quote the present corpus, those of b the next one.
MCClaimOf == (a :> 0) @@ (b :> 1)
Symmetry == Permutations(Publications)
=============================================================================
