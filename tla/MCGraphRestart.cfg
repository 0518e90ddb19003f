SPECIFICATION LiveSpec
CONSTANTS
    AutoJob = auto
    Retries = {}
    NoJob = noJob
    Cancels = FALSE
    Ensures = FALSE
    MaxCrashes = 1
PROPERTIES RestartSettles
CHECK_DEADLOCK FALSE
