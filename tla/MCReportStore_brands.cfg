SPECIFICATION Spec
CONSTANTS
    Ids <- FewIds
    Requests = {r1}
    Extends <- MCExtends
    StudyId <- MCStudyId
    Dotted <- MCDotted
    Root <- MCRoot
    Seeds <- MCSeeds
    Ops = {"brand"}
    Serial = TRUE
    WarmCache = TRUE
    Evicts = {}
    Loses = FALSE
    NoRow = NoRow
    NoKey = NoKey
INVARIANTS
    BrandsDeleted
CHECK_DEADLOCK FALSE
