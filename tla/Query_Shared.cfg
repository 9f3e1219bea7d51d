SPECIFICATION Spec
CONSTANTS
    Procs = {p1, p2}
    Shared = TRUE
    Commands <- MixedCommands
    Lengths = {3, 4}
    NoResponse = NoResponse
    EcuLen = 1
    RxLen = 2
    OddLengths = TRUE
SYMMETRY Symmetry
CHECK_DEADLOCK FALSE
INVARIANTS
    AnswerMatchesCommand
    IdleMeansUnlocked
