\* Safety: three keys compete for two slots; two threads race for the lock.
CONSTANTS
    Keys = {k1, k2, k3}
    Vals = {v1, v2}
    TTLs = {1, 2}
    Capacity = 2
    Clients = {c1, c2}
    NoValue = NoValue
    None = None
    MaxOps = 2
SYMMETRY CacheSymmetry
SPECIFICATION Spec
INVARIANT TypeOK
INVARIANT CapacityBound
INVARIANT RecencyOrder
 
