\* Two subcontexts of one owner, an unmanaged object and a copied label.
CONSTANTS
    owner1 = owner1  vx = vx  vy = vy
    NoOwner = noowner  Unset = unset  Absent = absent  Keep = keep
    Callers <- MCCallers
    OwnerNs <- MCOwnerNs
    DefaultNs = "n"
    Keys <- MCKeys
    Namespaced <- MCKinds
    Reconciled <- MCKinds
    Lax <- Empty
    PruneTypes <- Version1
    NoPrune <- Empty
    ValidOwnerChange <- BToA
    Menu <- MCMenu
    Desired0 <- MCDesired0
    Obj0 <- MCObj0
    Finalized <- Just1
    Touched <- Just1
    Vals <- JustY
    MaxEvents = 2
SPECIFICATION FairSpec
CHECK_DEADLOCK FALSE
INVARIANTS TypeOK 
PROPERTIES NoTheft CopiesKept Converges OrphansPurged
