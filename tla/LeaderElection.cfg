\* Leases and lock files; crashes at any point, restarts and terminations.
CONSTANTS
    r1 = r1  r2 = r2  r3 = r3  Nobody = nobody
    Replicas <- Three
    LockTypes <- BothLocks
    MaxCrashes = 2
    MaxCancels = 1
SPECIFICATION FairSpec
CHECK_DEADLOCK FALSE
INVARIANTS TypeOK OneLeader OneActive
PROPERTY LeaderAgain
