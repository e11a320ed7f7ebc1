SPECIFICATION BaseLiveSpec
CONSTANTS
    t1 = t1
    t2 = t2
    t3 = t3
    a1 = a1
    a2 = a2
    A = A
    B = B
    nil = nil
    Task = {t1, t2, t3}
    Agent = {a1, a2}
    PowerClass = {A, B}
    Def <- MCDef
    ClassOf <- MCClassOf
    Offer <- MCOffer
    wattsAsAResource = TRUE
    classMapWatts = FALSE
    StartPolicies = {"first-fit"}
    MaxOffers = 2
    schedPolSwitchEnabled = TRUE
    Capacity <- MCCapacity
    TaskDist <- MCTaskDistAll
    DistUnit <- MCDistUnit
    Distributions <- MCDistributions
    SwitchCriteria = {"taskDist", "round-robin", "rev-round-robin"}
    nameOfFstSchedPolToDeploy = nil
    WindowModes = {FALSE, TRUE}
    FixedWindow = 2
    MaxRedeliveries = 1
INVARIANTS
    BaseTypeOK
    IdlePoliciesReset
    WindowRespected
    WindowWithinQueue
    TrackerAgreesWithMesos
    NearestPolicyChosen
    ClassificationSound
PROPERTIES
    DispatchRefined
    EventuallyAllLaunched
