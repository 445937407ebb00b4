SPECIFICATION RqFairSpec
CONSTANTS
    a = a
    b = b
    c = c
    d = d
    Items <- MCItems4
    NoItem = NoItem
    DiskSize <- MCDiskSize
    MemSize <- MCMemSize
    MaxOnDiskBytes = 2
    VolumeBudget = 3
    OtherUse = {0, 2}
    MaxAge = 0
    MaxClock = 0
    Preexisting = {}
    Faults = {"write", "limit", "read", "refresh", "external", "crash"}
    MaxInMemoryBytes = 2
    FlushPercent = 50
INVARIANTS
    RqTypeOK
    MemoryCap
    MemoryAccounting
    OnePlace
PROPERTIES
    
    RCallsReturn
