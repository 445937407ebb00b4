SPECIFICATION PqSpec
CONSTANTS
    a = a
    b = b
    c = c
    d = d
    Items <- MCItems4
    NoItem = NoItem
    DiskSize <- MCDiskSize
    MaxOnDiskBytes = 2
    VolumeBudget = 6
    OtherUse = {0, 5}
    MaxAge = 0
    MaxClock = 1
    Preexisting = {c}
    Faults = {"write", "unlink", "read", "limit", "refresh", "external", "crash"}
INVARIANTS
    TypeOK
    HandedOnce
    NoUnderflow
    NoOrphans
    OldestFirst
PROPERTIES
    LossesAreTold
    PushKeepsMax
