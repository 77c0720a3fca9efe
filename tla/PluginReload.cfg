SPECIFICATION Spec
CONSTANTS
    Requests = {r1, r2}
    Names <- AllNames
    Files <- TwoFiles
    File <- FileOf
    TableSize = 2
    DictSize = 2
    Hashes <- EveryHash
    MaxEntries = 3
    MaxContexts = 3
INVARIANT LoadedOnce
SYMMETRY Interchangeable
CHECK_DEADLOCK FALSE
