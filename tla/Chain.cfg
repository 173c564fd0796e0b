\* Two finalizers of the router and a foreign one, three other handlers.
CONSTANTS
    fin1 = fin1  fin2 = fin2  Foreign = foreign
    Absent = absent  None = none
    Specs = {"raw", "bad"}
    Raw = "raw"
    Good = "good"
    Routes <- MCRoutes
    MaxEvents = 2
SPECIFICATION FairSpec
CHECK_DEADLOCK FALSE
INVARIANTS TypeOK ConditionCurrent
PROPERTIES FinalizersRespected Goes RemovalTold
