CONSTANTS
    ADDR_SPACE = 16
    STAT_SPACE = 1
    Garbage <- MCGarbage
    Configs <- MCConfigs
    Trace <- MCTrace
    MaxDepth = 2
SPECIFICATION Spec
INVARIANTS
    TypeOK
    VictimsExist
    OneSlotPerAddress
    EntriesWereResolved
    ResolvedBranchIsCached
PROPERTIES
    TargetsSticky
    EvictionMovesToMain
