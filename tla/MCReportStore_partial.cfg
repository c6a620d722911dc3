SPECIFICATION Spec
CONSTANTS
    Ids <- FewIds
    Requests = {r1, r2}
    Extends <- MCExtends
    StudyId <- MCStudyId
    Dotted <- MCDotted
    Root <- MCRoot
    Seeds <- MCSeeds
    Ops = {"create", "edit"}
    Serial = TRUE
    WarmCache = TRUE
    Evicts = {"index", "chunk"}
    Loses = FALSE
    NoRow = NoRow
    NoKey = NoKey
INVARIANTS
    RetrievedAll
CHECK_DEADLOCK FALSE
