SPECIFICATION Spec
CONSTANTS
    budget = budget
    fleet = fleet
    queued = queued
    Runs = {r1, queued}
    LeaseIds = {l1, l2, l3}
    Scopes <- MCScopes
    BudgetScope <- MCBudgetScope
    SlotScopes <- MCSlotScopes
    Cap <- MCCap
    MaxAmount = 1
    MaxCap = 1
    TTL = 2
    MaxClock = 3
    MaxFaults = 1
INVARIANTS FleetWithinCap ContextIsBacked OnlyOverdueQuarantined
PROPERTIES EndedRunsAreReclaimed
CHECK_DEADLOCK FALSE
