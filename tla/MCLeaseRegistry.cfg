SPECIFICATION Spec
CONSTANTS
    Clients = {c1, c2}
    LeaseIds = {l1, l2, l3}
    Scopes = {s1}
    MaxAmount = 1
    MaxCap = 2
    TTL = 2
    KeyTTL = 2
    MaxRetries = 2
    MaxClock = 3
    ExplicitCaps = {}
INVARIANTS NoOversubscription AuditReplay EveryLeaseIndexed HeldUntilExpiry CollectedOnce
SYMMETRY Symmetry
