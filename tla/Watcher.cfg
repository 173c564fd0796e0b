\* A client waits for a deletion while the object changes and comes back.
CONSTANTS
    Absent = absent
    MaxEvents = 4
    MaxChanges = 5
SPECIFICATION FairWatchSpec
CHECK_DEADLOCK FALSE
INVARIANT ExactlyOnce
PROPERTIES DeletionReported
