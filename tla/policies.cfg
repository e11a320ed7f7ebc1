SPECIFICATION LiveSpec
CONSTANTS
    t1 = t1
    t2 = t2
    t3 = t3
    a1 = a1
    a2 = a2
    A = A
    B = B
    nil = nil
    Task = {t1, t2, t3}
    Agent = {a1, a2}
    PowerClass = {A, B}
    Def <- MCDef
    ClassOf <- MCClassOf
    Offer <- MCOffer
    wattsAsAResource = TRUE
    classMapWatts = TRUE
    StartPolicies = {"first-fit", "bin-packing", "max-greedymins", "max-min"}
    MaxOffers = 2
    schedPolSwitchEnabled = FALSE
INVARIANTS
    TypeOK
    QueueHoldsPending
    EachInstanceOnce
    ShutdownWhenDrained
    NeverOverpacked
    PositionInQueue
PROPERTIES
    FirstPickIsExtreme
    FirstFitInOrder
    DispatchRefined
    DeclineOnlyIfNothingFits
    EventuallyDrained
