SPECIFICATION Spec
CONSTANTS
    c1 = c1
    c2 = c2
    c3 = c3
    g1 = g1
    g2 = g2
    g3 = g3
    NoCaller = NoCaller
    Callers = {c1, c2, c3}
    Generators = {g1}
    GenOf <- OneGenerator
    Start = 10
    MaxValue = 14
    MaxIssued = 5
INVARIANTS
    TypeOK
    IdsIncrease
CHECK_DEADLOCK FALSE
