SPECIFICATION PqSpec
CONSTANTS
    a = a
    b = b
    c = c
    d = d
    Items <- MCItems3
    NoItem = NoItem
    DiskSize <- MCDiskSize
    MaxOnDiskBytes = 2
    VolumeBudget = 3
    OtherUse = {0}
    MaxAge = 1
    MaxClock = 0
    Preexisting = {}
    Faults = {"external"}
INVARIANT TotalIsExact
