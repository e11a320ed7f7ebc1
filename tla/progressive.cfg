SPECIFICATION LiveSpec
CONSTANTS
    h1 = h1
    h2 = h2
    h3 = h3
    Host = {h1, h2, h3}
    Mean = {1, 2, 4}
    hiThreshold = 4
    loThreshold = 2
    MaxFailures = 2
    MayLoseReply = TRUE
    MayRefuseSession = TRUE
CHECK_DEADLOCK FALSE
INVARIANTS
    TypeOK
    StructuresAgree
    AtMostOneStepOff
PROPERTIES
    EveryHostBeforeFurther
    EventuallyAllAtLimit
    EventuallyAllUncapped
