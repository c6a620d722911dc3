SPECIFICATION Spec
CONSTANTS
    c1 = c1
    c2 = c2
    c3 = c3
    g1 = g1
    g2 = g2
    g3 = g3
    NoCaller = NoCaller
    Callers = {c1, c2}
    Generators = {g1, g2}
    GenOf <- OwnGenerator
    Start = 10
    MaxValue = 14
    MaxIssued = 4
INVARIANTS
    UniqueIds
CHECK_DEADLOCK FALSE
