SPECIFICATION Spec
CONSTANTS
    c1 = c1
    c2 = c2
    Comps <- MCComps
    MaxLate = 0
    MaxRaced = 1
    MaxRestarts = 0
CHECK_DEADLOCK FALSE
INVARIANT NotScheduledTwice
