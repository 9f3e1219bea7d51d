SPECIFICATION Spec
CONSTANTS
    Tuples <- HondaOnly
    Sizes = {}
    MaxSize = 18
    CharSigned = TRUE
INVARIANT DumpFits
