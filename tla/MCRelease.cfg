SPECIFICATION VersioningSpec
CONSTANTS
    Jobs = {r1, r2}
    NoRelease = noRelease
    Cancels = TRUE
    Recovers = {TRUE, FALSE}
    MaxCrashes = 1
    Writers = {c1, c2}
    NoPatch = noPatch
    Ids = {1, 2, 3}
    Kind <- MCKind
    RefKind = "skill"
    Keys = {1, 2}
    Opened <- MCOpened
    Patches = {"p"}
    DecisionKeys = {"k"}
    ListKind = "skill"
    PageSize = 1
    RetryLimit = 2
    Refs = {0, 1, 3}
    Loads <- MCLoads
SYMMETRY VersioningSymmetry
INVARIANTS ReleasesAreOrdered ReleaseIsReported CatalogIsSound RevisionsExact
PROPERTIES CommitServesGraph UnseenIsKept
CHECK_DEADLOCK FALSE
