SPECIFICATION FairSpec
CONSTANTS
    Operators = {"op"}
    Rec = "rec"
    Java = FALSE
    MaxOrphans = 1
    NULL = NULL
    MaxFaults = 2
CHECK_DEADLOCK FALSE
PROPERTIES RestoredAfterCrash
