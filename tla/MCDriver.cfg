CONSTANTS
    ADDR_SPACE = 16
    STAT_SPACE = 8
    Garbage = {9}
    PC_BITS = 1
    LOCAL_BITS = 1
    PATH_BITS = 2
    Environments <- MCEnvironments
    INST_DELAY = 2
    WORD = 8
    Regs = {1}
    REG_NUL = 0
    MaxInsts = 6
    Traces <- MCTraces
SPECIFICATION Spec
INVARIANTS
    OracleIsExact
    SteadyBranchMisses
PROPERTIES
    ImplementsTester
    ImplementsBtb
CHECK_DEADLOCK FALSE
