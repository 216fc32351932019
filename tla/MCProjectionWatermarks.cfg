SPECIFICATION WatermarkSpec
CONSTANTS
    MaxEntries = 3
    Poisoned = {3}
    Garbled = {}
    Supersedes <- Chain
    Tombstones = {1}
    Facts = {}
    Workers = {w1}
    Pollers = {q}
    ClaimBatch = 2
    MaxRetries = 2
    Lease = 1
    MaxFaults = 1
INVARIANTS
    ZeroLagIsConfirmed
    FrontierIsAcked
CHECK_DEADLOCK FALSE
