SPECIFICATION Spec
CONSTANTS
    Promoters = {p1, p2}
    Abandoners = {a1}
    MaxKeys = 2
    MaxFaults = 2
INVARIANTS
    MergedIsOnMain
PROPERTIES
    ClaimIsExclusive
    LiveRunsAreSpared
    EndedRowsStay
    KilledRunsAreClosed
CHECK_DEADLOCK FALSE
