SPECIFICATION MCSpec
CONSTANTS
    KB = 4
    Limit = 3
    MaxRows = 20
    RowSizes <- Sizes
    Centers = {a}
    Procs = {p, q}
    MaxChunks = 3
    MaxPuts = 3
    Faults = {"evict", "get", "put"}
    Nil = Nil
SYMMETRY SymmetricProcs
INVARIANTS
    RetrievedAll
    HitUnlessEvicted
    EachRowOnce
    Fits
CHECK_DEADLOCK FALSE
