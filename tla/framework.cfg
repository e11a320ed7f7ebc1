SPECIFICATION LiveSpec
CONSTANTS
    x1 = x1
    x2 = x2
    x3 = x3
    Instance = {x1, x2, x3}
    MayFailToStart = TRUE
    MaxRedeliveries = 2
    MayInterrupt = TRUE
CHECK_DEADLOCK FALSE
INVARIANTS
    RunningCount
    DoneAfterShutdown
    PCPLogAfterBoth
    StopOnlyWhenAllLaunched
PROPERTY
    Terminates
