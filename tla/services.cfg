SPECIFICATION FairSpec
CONSTANTS
    NULL = NULL
    JobRequests = {"p1", "p2", "p3", "a1", "a2"}
    Product = {"p1", "p2", "p3"}
    JobKey <- MCJobKey
    JobPayload <- MCJobPayload
    Workloads <- MCWorkloads
    JobFaults = 1
    Openings = {"r1", "r2", "r3", "r4"}
    OpeningKey <- MCOpeningKey
    OpeningPayload <- MCOpeningPayload
    Body <- MCBody
    OpeningFaults = 2
    Operators = {"o1", "o2"}
    Snapshots = {"s0", "s1", "s2"}
    Invalid = {"s2"}
    Baseline = "s0"
    MaxVersion = 3
    SettingsFaults = 2
    Scanners = {"f1", "f2"}
    Tasks = {"t1"}
    MaxDown = 1
INVARIANTS CompletedVerified OncePerKey AnsweredIsComplete NoLostUpdate OneHeartbeatAlert
PROPERTIES ImplementsLedger ProductJobsEnd PromisedIsLoaded FreshResolves
CHECK_DEADLOCK FALSE
