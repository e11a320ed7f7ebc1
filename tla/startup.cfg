SPECIFICATION Spec
CONSTANTS
    nil = nil
    PolicyNames <- MCPolicyNames
    SchedPolicies <- MCPolicies
    SwitchFlags <- MCSwitchFlags
    PowerCaps <- MCPowerCaps
    Thresholds = {0, 1}
    Workloads <- MCWorkloads
INVARIANTS
    StartedOnlyIfValid
    OptionsConsistent
    RequirementsRecorded
CHECK_DEADLOCK FALSE
