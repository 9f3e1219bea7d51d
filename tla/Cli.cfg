SPECIFICATION CliSpec
CONSTANTS
    cli = cli
    Procs = {cli}
    Shared = FALSE
    Commands <- AllCommands
    Lists <- ListsOfCommands
    Lengths = {1, 2, 5, 8}
    NoResponse = NoResponse
    OddLengths = TRUE
    EcuLen = 1
    RxLen = 1
CHECK_DEADLOCK FALSE
INVARIANTS
    ReadsOnlyTheAnswer
    MemberMatchesType
    MemoryBalanced
PROPERTIES
    InterruptEndsRepeat
    QueryReturns
