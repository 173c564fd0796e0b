\* a lists the namespace of b; both are updated, deleted and created again.
CONSTANTS
    v1 = v1  v2 = v2  Absent = absent  NoVal = noval
    Vals <- MCVals
    Objs <- AB
    Val0 <- AllV1
    Reads <- ListNamespace
    Deletable <- AB
    MaxChanges = 2
SPECIFICATION FairSpec
CHECK_DEADLOCK FALSE
INVARIANTS TypeOK NoMissedChange NoGhostTargets
PROPERTY EventuallyFresh
