CONSTANTS
    Id = {1, 2}
    MaxBlocks = 3
SPECIFICATION Spec
CHECK_DEADLOCK FALSE
INVARIANTS
    TypeOK
    ChainIsWhole
    LastKeyIsFound
