\* Liveness: expired entries leave the cache once callers stop reading them.
\* Two keys for one slot keep eviction in play; no symmetry (unsound for
\* liveness).
CONSTANTS
    Keys = {k1, k2}
    Vals = {v1}
    TTLs = {1, 2}
    Capacity = 1
    Clients = {c1, c2}
    NoValue = NoValue
    None = None
    MaxOps = 2
SPECIFICATION Spec
PROPERTY EventuallyReaped
