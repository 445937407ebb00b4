SPECIFICATION FairSpec
CONSTANTS
    c1 = c1
    c2 = c2
    Comps <- MCComps
    MaxLate = 1
    MaxRaced = 0
    MaxRestarts = 1
CHECK_DEADLOCK FALSE
INVARIANTS
    HealthTypeOK
    OneChain
    DeadIsUnwatched
PROPERTY
    DeadIsFound
