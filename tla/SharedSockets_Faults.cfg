SPECIFICATION Spec
CONSTANTS
    Clients = {c1, c2}
    Keys = {k1, k2}
    OFDs = {o1, o2}
    NoFD = NoFD
    QLen = 2
    MaxEpoch = 2
    MaxRefs = 2
    Faults = {"clientCrash", "daemonCrash", "sendFails"}
SYMMETRY Symmetry
CHECK_DEADLOCK FALSE
INVARIANTS
    TypeOK
    Inv
    RefcountCovers
    SharersShareOneSocket
    OneSocketPerIncarnation
    RightTuple
    ControlMessagePresent
    DaemonNeverBlocked
PROPERTIES
    TeardownOnlyWhenUnused
    ImplementsService
