SPECIFICATION Spec
CONSTANTS
    a1 = a1
    NULL = NULL
    Agents = {a1}
    Messages = {"m1"}
    AgentOf <- MCAgentOf
    MaxRevision = 1
    Mixed = Mixed
    Down = Down
    DispatchFaults <- None
    ConfigFaults <- None
    MaxControls = 1
PROPERTIES
    NoChangeBeneathRun
CHECK_DEADLOCK FALSE
