SPECIFICATION Spec
CONSTANTS
    MaxCommands = 4
    Keyed = {1, 3}
    KeyOf <- OneRequest
    Bare = {2}
    Controls = {4}
    Invalid = {2}
    PoolSize = 1
    MaxCrashes = 1
    MaxErrors = 2
    MaxSweeps = 1
INVARIANTS
    RunsAtMostOnce
    NothingIsLost
CHECK_DEADLOCK FALSE
PROPERTIES
    EveryCommandSettles
    ImplementsRequestDesk
