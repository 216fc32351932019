--------------------------- MODULE MCAdmissionGate --------------------------
EXTENDS AdmissionGate, TLC
CONSTANTS budget, fleet, queued

\* Every run draws on one campaign budget and, unless it is admitted to be
\* queued (enforce_concurrency=False), on one fleet of slots.
MCScopes == {budget, fleet}
MCBudgetScope == [r \in Runs |-> budget]
MCSlotScopes == [r \in Runs |-> IF r = queued THEN <<>> ELSE <<fleet>>]
MCCap == [s \in MCScopes |-> 1]
=============================================================================
