SPECIFICATION Spec
CONSTANTS
    Agents = {"a1"}
    MaxRevision = 2
    Mixed = Mixed
    Down = Down
    NULL = NULL
    Faults <- AllFaults
INVARIANTS
    TypeOK DrainHasReason EffectiveOnDisk
PROPERTIES
    WritesAtRest ImplementsRegister
CHECK_DEADLOCK FALSE
