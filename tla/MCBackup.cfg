CONSTANTS
    Procs = {p1, p2}
    MaxDay = 2
    MaxTry = 1
    Manuals = 1
    Releases = 2
    DailyLimit = 1
    MandatoryLimit = 1
    Loads <- MCLoads
SPECIFICATION Spec
SYMMETRY Symmetry
INVARIANTS WriteIsCovered ArtifactsMatchJobs SuccessIsKept
