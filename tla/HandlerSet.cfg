\* Three items of one object, a limiter that runs out, failures and retries.
CONSTANTS
    key = key  s1 = s1  s2 = s2  NoStatus = nostatus  Absent = absent
    Keys <- MCKeys
    Specs <- MCSpecs
    Burst = 1
    MayRetry = TRUE
    Swallows = FALSE
    MaxChanges = 2
    MaxErrors = 1
SPECIFICATION FairSpec
CHECK_DEADLOCK FALSE
INVARIANTS TypeOK HandlerExclusive WatchersTold
PROPERTY StatusConverges
