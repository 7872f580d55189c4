CONSTANTS
    PC_BITS = 1
    LOCAL_BITS = 1
    PATH_BITS = 1
    Addrs <- MCAddrs
SPECIFICATION Spec
INVARIANTS
    TypeOK
    StreakMissesBounded
    AlternationMissesBounded
PROPERTIES
    ChoiceNeedsEvidence
