SPECIFICATION LiveSpec
CONSTANTS
    AutoJob = auto
    Retries = {retry}
    NoJob = noJob
    Cancels = TRUE
    Ensures = TRUE
    MaxCrashes = 1
INVARIANTS ReadyIsBacked WorkIsRecorded
PROPERTIES ForwardOnly RevisionSettles
CHECK_DEADLOCK FALSE
