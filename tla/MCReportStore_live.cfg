SPECIFICATION FairSpec
CONSTANTS
    Ids <- FewIds
    Requests = {r1, r2}
    Extends <- MCExtends
    StudyId <- MCStudyId
    Dotted <- MCDotted
    Root <- MCRoot
    Seeds <- MCSeeds
    Ops = {"create", "edit", "disable"}
    Serial = FALSE
    WarmCache = TRUE
    Evicts = {"index", "chunk"}
    Loses = FALSE
    NoRow = NoRow
    NoKey = NoKey
PROPERTIES
    SavesStored
CHECK_DEADLOCK FALSE
