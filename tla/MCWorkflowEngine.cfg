CONSTANTS
    MaxPhase = 3
    TestPhases = {2}
    Gated = {3}
    Checkpoints = {1}
    Requiring = {3}
    GateRetry <- OneRetry
    MaxAttempts = 2
    MaxRuns = 3
    MaxKills = 1
SPECIFICATION Spec
INVARIANTS
    CheckpointsAreSigned
    LinkedSuccessIsComplete
    AttemptOrdinalsUnique
    NothingPaidIsForgotten
PROPERTY RunsEnd
CHECK_DEADLOCK FALSE
