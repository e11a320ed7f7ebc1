SPECIFICATION LiveSpec
CONSTANTS
    t1 = t1
    t2 = t2
    t3 = t3
    a1 = a1
    a2 = a2
    A = A
    B = B
    nil = nil
    Task = {t1, t2, t3}
    Agent = {a1, a2}
    PowerClass = {A, B}
    Def <- MCDefNoWatts
    ClassOf <- MCClassOf
    Offer <- MCOffer
    wattsAsAResource = TRUE
    classMapWatts = TRUE
    StartPolicies = {"first-fit", "bin-packing", "max-greedymins", "max-min"}
    MaxOffers = 2
    schedPolSwitchEnabled = FALSE
CHECK_DEADLOCK FALSE
PROPERTY
    EventuallyDrained
