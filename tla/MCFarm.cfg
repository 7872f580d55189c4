CONSTANTS
    NumJobs = 3
    w1 = w1
    w2 = w2
    Workers <- MCWorkers
    Gone = Gone
    MaxFaults = 2
SPECIFICATION Spec
INVARIANTS
    TypeOK
    AtMostOnce
    LossesExplained
    ZombiesAnnounced
    CleanExit
PROPERTIES
    JobsSettle
    Completion
    ImplementsJobPool
CHECK_DEADLOCK FALSE
