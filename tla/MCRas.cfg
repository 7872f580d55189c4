CONSTANTS
    Capacities <- MCCapacities
    ReturnAddrs <- MCReturnAddrs
    UINT_SPACE = 16
    MaxCalls = 5
    MaxReturns = 5
SPECIFICATION RasSpec
INVARIANTS
    RasTypeOK
    StackIsSurvivingFrames
    StatisticsAddUp
CHECK_DEADLOCK FALSE
