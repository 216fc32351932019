SPECIFICATION Spec
CONSTANTS
    e1 = e1
    e2 = e2
    r1 = r1
    r2 = r2
    Runs = {r1, r2}
    Owes <- MCOwes
    Unreadable = {}
    Unbuildable = {e2}
    Checkpointed = {e1, e2}
    Drainers = {d1, d2}
    MaxAttempts = 3
    BaseDelay = 1
    Factor = 3
    MaxDelay = 2
    MaxFaults = 3
INVARIANTS
    DeliveredIsPublished
    ArtifactFirst
    ChargedOnlyForFailures
PROPERTIES
    ImplementsEventDelivery
    EveryRowSettles
CHECK_DEADLOCK FALSE
