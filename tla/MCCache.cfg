CONSTANTS
    ADDR_SPACE = 16
    STAT_SPACE = 2
    Garbage <- MCGarbage
    CacheGeometries <- MCGeometries
    Addrs <- MCAddrs
    Targets <- MCTargets
SPECIFICATION Spec
INVARIANTS
    TypeOK
PROPERTIES
    EvictionReport
    ImplementsLruStore
