SPECIFICATION FairSpec
CONSTANTS
    p1 = p1
    p2 = p2
    p3 = p3
    Procs <- MCProcs
    min_capacity = 1
    max_capacity = 2
    MaxAcquires = 4
INVARIANTS
    PoolTypeOK
    PermitsAreBacked
    ActiveIsExact
    WithinCapacity
    NoneStranded
PROPERTIES
    GraceIsKept
    AllServed
