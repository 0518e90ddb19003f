SPECIFICATION Spec
CONSTANTS
    Jobs = {r1, r2}
    NoRelease = noRelease
    Cancels = TRUE
    Recovers = {TRUE}
    MaxCrashes = 1
INVARIANTS CommittedNeverFailed
CHECK_DEADLOCK FALSE
