SPECIFICATION BaseSpec
CONSTANTS
    t1 = t1
    t2 = t2
    t3 = t3
    a1 = a1
    a2 = a2
    A = A
    B = B
    nil = nil
    Task = {t1, t2, t3}
    Agent = {a1, a2}
    PowerClass = {A, B}
    Def <- MCDef
    ClassOf <- MCClassOf
    Offer <- MCOffer
    wattsAsAResource = FALSE
    classMapWatts = FALSE
    StartPolicies = {"first-fit"}
    MaxOffers = 1
    schedPolSwitchEnabled = TRUE
    Capacity <- MCCapacity
    TaskDist <- MCTaskDist
    DistUnit <- MCDistUnit
    Distributions <- MCDistributions
    SwitchCriteria = {"round-robin"}
    nameOfFstSchedPolToDeploy = "first-fit"
    WindowModes = {FALSE}
    FixedWindow = 2
    MaxRedeliveries = 0
CHECK_DEADLOCK FALSE
INVARIANT
    AlwaysAPolicy
