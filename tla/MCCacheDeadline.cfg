\* Spec section 8 says a get at the deadline misses; one key, one thread.
CONSTANTS
    Vals = {v1}
    Clients = {c1}
    NoValue = NoValue
    None = None
    Keys = {k1}
    TTLs = {1}
    Capacity = 1
    MaxOps = 2
SPECIFICATION Spec
PROPERTY HitsBeforeDeadline
