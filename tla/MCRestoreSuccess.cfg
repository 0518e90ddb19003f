SPECIFICATION Spec
CONSTANTS
    Targets = {FALSE}
    Cancels = FALSE
    MaxPosts = 1
    MaxFaults = 1
    MaxCrashes = 2
INVARIANTS SuccessIsInstalled
CHECK_DEADLOCK FALSE
