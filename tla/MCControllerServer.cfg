CONSTANTS
    upper = upper
    lower = lower
    Caller = {1, 2}
    Name = {upper, lower}
    Fold <- FoldCase
    Capacity = {1, 2}
    MaxCounter = 4
SPECIFICATION Spec
CHECK_DEADLOCK FALSE
INVARIANTS
    TypeOK
    IdIdentifiesVolume
    CreateIsIdempotent
