SPECIFICATION CacheSpec
CONSTANTS
    Centers = {a, b}
    Procs = {p, q}
    MaxChunks = 2
    MaxPuts = 3
    Faults = {}
    Nil = Nil
SYMMETRY Symmetric
INVARIANTS
    RetrievedAll
