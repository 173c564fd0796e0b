\* One writer in the process, a reader, and writers elsewhere.
CONSTANTS
    w = w  r = r
    Writers <- MCWriters
    Readers <- MCReaders
    FirstRV = 8
    Timely = TRUE
    MaxVersions = 4
SPECIFICATION FairSpec
CHECK_DEADLOCK FALSE
INVARIANT ReadYourWrites
PROPERTY NoGhosts
