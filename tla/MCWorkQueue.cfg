SPECIFICATION Spec
CONSTANTS
    x = x
    y = y
    z = z
    Cells = {x, y, z}
    Matrix <- MCMatrix
    Earlier <- MCEarlier
    Batch = {z}
    Unbudgeted = {x}
    Flaky = {y}
    ProviderOf <- MCProviderOf
    Priority <- MCPriority
    Workers = {w1, w2}
    FleetCap = 2
    ProviderCap = 1
    MaxDenials = 1
    MaxLane = 5
    MaxCommands = 1
    MaxFaults = 2
INVARIANTS OneCellPerFailure WidthWithinCaps ReinterleaveSpreads
PROPERTY EveryCellIsTaken
CHECK_DEADLOCK FALSE
