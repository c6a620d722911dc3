SPECIFICATION Spec
CONSTANTS
    Ids <- FamilyIds
    Requests = {r1, r2}
    Extends <- MCExtends
    StudyId <- MCStudyId
    Dotted <- MCDotted
    Root <- MCRoot
    Seeds <- MCSeeds
    Ops = {"create", "edit", "brand", "initiate"}
    Serial = FALSE
    WarmCache = TRUE
    Evicts = {"index"}
    Loses = TRUE
    NoRow = NoRow
    NoKey = NoKey
INVARIANTS
    TypeOK
    CachedRowsKeyed
    NoTwins
    CachedRowsStored
SYMMETRY RequestSymmetry
CHECK_DEADLOCK FALSE
