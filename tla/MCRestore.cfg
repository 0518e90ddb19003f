SPECIFICATION MaintenanceSpec
CONSTANTS
    Targets = {TRUE, FALSE}
    Cancels = TRUE
    MaxPosts = 2
    MaxFaults = 2
    MaxCrashes = 3
    Procs = {"a", "b"}
    Dirs = {"d"}
    Requests = {"r", "s"}
    NoDir = "noDir"
    NoProc = "noProc"
    MaxIds = 2
    MaxDeaths = 2
    RecentCap = 2
    Loads <- MCLoads
    Folders = {"d"}
    Home = "home"
    Preflighters = {1, 2}
    MaxSelections = 2
    MaxRestores = 2
    MaxTroubles = 1
INVARIANTS OriginalIsRecoverable OutcomeIsHonest HolderIsAlone
PROPERTIES Settles LiveKeepsLock DeadIsDisplaced
CHECK_DEADLOCK FALSE
