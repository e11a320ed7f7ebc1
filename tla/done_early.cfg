SPECIFICATION Spec
CONSTANTS
    x1 = x1
    x2 = x2
    x3 = x3
    Instance = {x1, x2}
    MayFailToStart = FALSE
    MaxRedeliveries = 0
    MayInterrupt = FALSE
SYMMETRY Symmetry
CHECK_DEADLOCK FALSE
INVARIANT
    DoneWhenAllCleanedUp
