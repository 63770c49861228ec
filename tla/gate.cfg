SPECIFICATION FairSpec
CONSTANTS
    a1 = a1
    NULL = NULL
    Agents = {a1}
    Messages = {"m1", "m2"}
    AgentOf <- MCAgentOf
    MaxRevision = 1
    Mixed = Mixed
    Down = Down
    DispatchFaults <- Crashes
    ConfigFaults <- HostFaults
    MaxControls = 1
INVARIANTS
    OneSlip RuntimeRunsEffective FailureRestores
PROPERTIES
    OnlySlippedDisturbed NoClaimDuringApply ActivationEnds PromptsFinish
CHECK_DEADLOCK FALSE
