SPECIFICATION FairSpec
CONSTANTS
    Operators = {"op"}
    Rec = "rec"
    Java = FALSE
    MaxOrphans = 1
    NULL = NULL
    MaxFaults = 2
INVARIANTS TypeOK NoLeak StoppedStaysDown
CHECK_DEADLOCK FALSE
PROPERTIES DeadIsNoticed RestoredUnlessCut
