SPECIFICATION Spec
CONSTANTS
    Clients = {c1}
    Keys = {k1, k2}
    OFDs = {o1, o2}
    NoFD = NoFD
    QLen = 3
    MaxEpoch = 1
    MaxRefs = 2
    Faults = {"interrupt"}
SYMMETRY Symmetry
CHECK_DEADLOCK FALSE
INVARIANT NodesWellFormed
