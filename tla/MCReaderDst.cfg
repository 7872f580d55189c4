CONSTANTS
    INST_DELAY = 4
    WORD = 8
    Regs = {1}
    REG_NUL = 0
    Insts <- MCInsts
    Targets <- MCTargets
    MaxInsts = 6
SPECIFICATION Spec
INVARIANT
    DstAddressIsDst
CHECK_DEADLOCK FALSE
