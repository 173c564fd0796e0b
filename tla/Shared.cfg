\* Two handler sets of one process; a handler comes to watch a second kind.
CONSTANTS
    h1 = h1  h2 = h2  g1 = g1  g2 = g2  g3 = g3  leader = leader  other = other  reader = reader
    None = none
    Sets <- MCSets
    Kinds <- MCKinds
    obj1 = obj1
    Objects <- MCObjects
    Initial <- MCInitial
    Later <- MCLater
    Threads <- MCThreads
    SetOf <- MCSetOf
    Program <- MCProgram
    KindsOf <- MCKindsOf
    LateKinds <- Late
    Broken <- JustG3
    Indexed <- Late
SPECIFICATION FairSpec
CHECK_DEADLOCK FALSE
INVARIANTS TypeOK Delivered FollowerIdle
PROPERTIES CallsReturn CancelCleans
