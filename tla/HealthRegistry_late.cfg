SPECIFICATION Spec
CONSTANTS
    c1 = c1
    c2 = c2
    Comps <- MCComps
    MaxLate = 1
    MaxRaced = 0
    MaxRestarts = 0
CHECK_DEADLOCK FALSE
INVARIANT NoDuplicateProbes
