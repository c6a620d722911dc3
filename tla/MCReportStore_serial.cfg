SPECIFICATION Spec
CONSTANTS
    Ids <- FamilyIds
    Requests = {r1, r2, r3}
    Extends <- MCExtends
    StudyId <- MCStudyId
    Dotted <- MCDotted
    Root <- MCRoot
    Seeds <- MCSeeds
    Ops = {"create", "edit", "disable", "initiate", "regroup"}
    Serial = TRUE
    WarmCache = TRUE
    Evicts = {}
    Loses = FALSE
    NoRow = NoRow
    NoKey = NoKey
INVARIANTS
    Coherent
PROPERTIES
    ImplementsTable
CHECK_DEADLOCK FALSE
