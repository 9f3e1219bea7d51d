SPECIFICATION Spec
CONSTANTS
    Addrs = {a1, a2, a3}
    NULL = NULL
    Keys = {k1, k2, k3}
    OFDs = {o1, o2, o3}
    NoFD = NoFD
    MaxRefs = 2
SYMMETRY Symmetry
INVARIANTS
    TypeOK
    PointersValid
    NoNodeLost
    ListInv
PROPERTY ImplementsTable
