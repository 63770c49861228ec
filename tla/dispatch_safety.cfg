SPECIFICATION Spec
CONSTANTS
    a1 = a1
    NULL = NULL
    Agents = {a1}
    Messages = {m1, m2}
    AgentOf <- MCAgentOf
    Faults <- AllFaults
    MaxControls = 1
INVARIANTS
    TypeOK
    CapacityOne
    SentOnce
    TerminalEvidence
    AnswerOnce
    DispatchedWasAccepted
PROPERTIES
    UnknownHoldsAgent
    ImplementsSlots

SYMMETRY Prompts
CHECK_DEADLOCK FALSE
