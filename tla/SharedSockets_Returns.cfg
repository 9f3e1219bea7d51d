SPECIFICATION FairSpec
CONSTANTS
    Clients = {c1, c2, c3}
    Keys = {k1}
    OFDs = {o1}
    NoFD = NoFD
    QLen = 2
    MaxEpoch = 2
    MaxRefs = 3
    Faults = {"clientCrash", "daemonCrash"}
CHECK_DEADLOCK FALSE
INVARIANTS
    RefcountExact
    CodeComesFirst
PROPERTY RequestReturns
