SPECIFICATION Spec
CONSTANTS
    MaxEntries = 4
    Poisoned = {3}
    Garbled = {4}
    Supersedes <- Versions
    Tombstones = {2}
    Facts = {1}
    Workers = {w1, w2}
    ClaimBatch = 2
    MaxRetries = 2
    Lease = 1
    MaxFaults = 1
INVARIANTS
    AckedIsAccountedFor
PROPERTY
    EveryEntrySettles
CHECK_DEADLOCK FALSE
