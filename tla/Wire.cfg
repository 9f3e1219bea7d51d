SPECIFICATION Spec
CONSTANTS
    Tuples <- AllTuples
    Sizes = {0, 3, 4, 10, 15, 17, 20}
    MaxSize = 18
    CharSigned = FALSE
INVARIANT ActsOnWhatWasSent
