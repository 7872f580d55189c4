CONSTANTS
    WORD = 32
    BitXor <- MCXor
    Sizes <- MCSizes
    Registers = {0, 1, 2}
    EmptyOp <- Plain
    Insts <- MCInsts
    MaxInsts = 5
    MaxAhead = 1
    Cuts = {2, 6}
SPECIFICATION Spec
INVARIANTS
    TypeOK
    RoundTrip
    Mirror
    Framing
    BufferHolds
PROPERTIES
    ReturnsAreFree
CHECK_DEADLOCK FALSE
