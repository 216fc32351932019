SPECIFICATION Spec
CONSTANTS
    Clients = {c1, c2}
    LeaseIds = {l1, l2}
    Scopes = {s1, s2}
    MaxAmount = 1
    MaxCap = 1
    TTL = 1
    KeyTTL = 1
    MaxRetries = 2
    MaxClock = 1
    ExplicitCaps = {}
PROPERTY ImplementsAtomicLeases
