SPECIFICATION LiveSpec
CONSTANTS
    h1 = h1
    h2 = h2
    h3 = h3
    Host = {h1, h2, h3}
    Mean = {1, 3, 4, 5}
    hiThreshold = 4
    loThreshold = 2
    MaxFailures = 2
    MayLoseReply = TRUE
    MayRefuseSession = TRUE
CHECK_DEADLOCK FALSE
INVARIANTS
    StackIsMap
    RecordedIsActual
PROPERTY
    UncappedUnlessFailure
