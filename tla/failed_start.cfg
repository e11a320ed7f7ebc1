SPECIFICATION LiveSpec
CONSTANTS
    x1 = x1
    x2 = x2
    x3 = x3
    Instance = {x1, x2}
    MayFailToStart = TRUE
    MaxRedeliveries = 0
    MayInterrupt = FALSE
CHECK_DEADLOCK FALSE
PROPERTY
    CompletionEndsProcess
