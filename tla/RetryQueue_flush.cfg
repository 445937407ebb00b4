SPECIFICATION RqSpec
CONSTANTS
    a = a
    b = b
    c = c
    d = d
    Items <- MCItems4
    NoItem = NoItem
    DiskSize <- MCDiskSize
    MemSize <- MCMemSize
    MaxOnDiskBytes = 4
    VolumeBudget = 9
    OtherUse = {0}
    MaxAge = 1
    MaxClock = 0
    Preexisting = {}
    Faults = {}
    MaxInMemoryBytes = 4
    FlushPercent = 50
INVARIANT FlushLosesNothing
