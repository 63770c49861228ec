SPECIFICATION FairSpec
CONSTANTS
    Writers = {"w1", "w2"}
    Page = 3
    MaxEvents = 8
    Nobody = Nobody
    Faults <- AllFaults
INVARIANTS
    TypeOK NoGap ResumeAccepted
PROPERTIES
    AppendOnly ImplementsLog EventsArrive
CHECK_DEADLOCK FALSE
