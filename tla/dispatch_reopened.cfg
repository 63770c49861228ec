SPECIFICATION Spec
CONSTANTS
    a1 = a1
    NULL = NULL
    Agents = {a1}
    Messages = {m1, m2}
    AgentOf <- MCAgentOf
    Faults <- ControlFaults
    MaxControls = 1
PROPERTIES
    TerminalIsFinal

CHECK_DEADLOCK FALSE
