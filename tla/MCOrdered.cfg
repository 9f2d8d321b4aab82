CONSTANTS
    IdCount = 8
    Lifetime = 4
    MaxSeq = 12
SPECIFICATION OrderedSpec
CHECK_DEADLOCK FALSE
INVARIANTS
    OrderedTypeOK
    IdsAreUnique
    NewerIsAccepted
PROPERTIES
    GapsAreReported
    DeliversInOrder
