SPECIFICATION Spec
CONSTANTS
    mesos = mesos
    pcp = pcp
    Callback = {mesos}
    PCPLogger = {pcp}
    Configs <- MCConfigs
INVARIANTS
    FieldsOfActiveCalls
    AloneIsExact
CHECK_DEADLOCK FALSE
