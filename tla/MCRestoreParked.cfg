SPECIFICATION Spec
CONSTANTS
    Targets = {FALSE}
    Cancels = FALSE
    MaxPosts = 1
    MaxFaults = 0
    MaxCrashes = 1
INVARIANTS UnparkedIsMain
CHECK_DEADLOCK FALSE
