SPECIFICATION Spec
CONSTANTS
    Agents = {"a1"}
    MaxRevision = 2
    Mixed = Mixed
    Down = Down
    NULL = NULL
    Faults <- DatabaseFaults
INVARIANTS
    FailureRestores
CHECK_DEADLOCK FALSE
