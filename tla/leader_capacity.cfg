SPECIFICATION LeaderSpec
CONSTANTS
    a1 = a1
    NULL = NULL
    Agents = {a1}
    Leaders = {a1}
    Messages = {"m1", "m2"}
    AgentOf <- MCAgentOf
    Faults <- NoFaults
    MaxControls = 1
INVARIANTS
    CapacityOne
CHECK_DEADLOCK FALSE
