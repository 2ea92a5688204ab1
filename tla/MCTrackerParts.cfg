SPECIFICATION PartsSpec
CONSTANTS
    MaxQueue = 3
    MaxBatch = 2
    Attempts = 3
    MaxEvents = 6
    NoTarget = NoTarget
INVARIANTS
    Accounted
    InOrder
    Bounded
    NothingLostOrMisread
PROPERTIES
    DestroyEnds
    Delivered
CHECK_DEADLOCK FALSE
