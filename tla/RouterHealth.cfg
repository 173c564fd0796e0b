\* Starting the handlers fails.
CONSTANTS
    MayFail = TRUE
    MaxSwitches = 2
SPECIFICATION RouterSpec
CHECK_DEADLOCK FALSE
INVARIANT FailedIsUnhealthy
