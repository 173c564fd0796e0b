\* One call of Start, one queue, two workers; the environment is bounded, so
\* the system comes to rest.
CONSTANTS
    k1 = k1  k2 = k2   none = none
    Keys <- MCKeys
    NoKey <- none
    Objects <- MCObjects
    NumQueues = 1
    Split <- MCSplitOne
    Workers = 2
    Goroutines = {1, 2, 3}
    MaxStarts = 1
    MaxDemand = 2
SPECIFICATION FairSpec
CHECK_DEADLOCK FALSE
INVARIANTS TypeOK KeyExclusive WorkerBound NoDemandLost
PROPERTIES ImplementsReconciler ShutdownDrains
