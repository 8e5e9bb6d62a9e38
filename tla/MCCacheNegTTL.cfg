\* Spec sections 4.2 and 7 say set rejects ttl <= 0; the code stores it.
CONSTANTS
    Vals = {v1}
    Clients = {c1}
    NoValue = NoValue
    None = None
    Keys = {k1, k2}
    TTLs <- NegativeTTLs
    Capacity = 1
    MaxOps = 2
SPECIFICATION Spec
PROPERTY NoLiveEvictedForDeadEntry
