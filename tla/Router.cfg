\* Routers with and without leader election; starts may fail.
CONSTANTS
    MayFail = TRUE
    MaxSwitches = 2
SPECIFICATION FairRouterSpec
CHECK_DEADLOCK FALSE
INVARIANT HealthyMeansReady
PROPERTY StoppedCloses
