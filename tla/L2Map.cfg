SPECIFICATION Spec
CONSTANTS
    k1 = k1
    k2 = k2
    k3 = k3
    h1 = h1
    h2 = h2
    Keys = {k1, k2, k3}
    L2Keys = {h1, h2}
    L2Key <- MCL2Key
    Locs = {l1, l2, l3, l4}
    None = None
    Collided = Collided
    NoKey = NoKey
INVARIANTS
    TypeOK
    TreesDisjoint
    CachedExact
PROPERTIES
    ImplementsKeyMap
