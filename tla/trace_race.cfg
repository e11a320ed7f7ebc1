SPECIFICATION Spec
CONSTANTS
    mesos = mesos
    pcp = pcp
    Callback = {mesos}
    PCPLogger = {pcp}
    Configs <- MCConfigs
INVARIANT
    TraceLogged
CHECK_DEADLOCK FALSE
