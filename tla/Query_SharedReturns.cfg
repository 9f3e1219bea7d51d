SPECIFICATION FairSpec
CONSTANTS
    Procs = {p1, p2}
    Shared = TRUE
    Commands <- OneCommand
    Lengths = {3}
    NoResponse = NoResponse
    EcuLen = 1
    RxLen = 2
    OddLengths = FALSE
CHECK_DEADLOCK FALSE
PROPERTY QueryReturns
