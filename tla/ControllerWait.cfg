\* The window between the ShuttingDown test and wait.Add.
CONSTANTS
    k1 = k1  k2 = k2   none = none
    NoKey <- none
    Keys <- MCKeys
    Objects <- MCObjects
    NumQueues = 1
    Split <- MCSplitOne
    Workers = 1
    Goroutines = {1, 2}
    MaxStarts = 1
    MaxDemand = 1
SPECIFICATION Spec
CHECK_DEADLOCK FALSE
INVARIANT NoWorkerAfterWait
