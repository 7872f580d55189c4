CONSTANTS
    ADDR_SPACE = 16
    STAT_SPACE = 1
    Garbage <- MCGarbage
    Configs <- MCConfigs
    Trace <- MCTrace
    MaxDepth = 2
SPECIFICATION Spec
INVARIANT
    NearTargetsUseDisp
