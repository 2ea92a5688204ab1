SPECIFICATION ServicesSpec
CONSTANTS
    c1 = c1
    c2 = c2
    Consumers = {c1, c2}
    events = events
    objects = objects
    Partitions <- OnePartition
    Objects <- None
    Size = 3
    Hidden <- None
    Poison <- PoisonSecond
    BatchSize = 2
    MaxRetries = 2
    MaxMoves = 1
    NoOne = NoOne
    t1 = t1
    t2 = t2
    Tabs = {t1, t2}
    MaxSessions = 3
    Scopes <- TwoScopes
    MaxMinute = 1
    MaxCredentials = 2
    MaxCalls = 3
    MaxChanges = 2
    Repeating <- FourOperations
    Viewing <- TwoPages
    Processes = {"api"}
    Ttl = 1
    Minute = 2
    Plain <- TwoPlain
    Chaining <- ThreeChained
SYMMETRY ServicesSymmetry
INVARIANTS
    ServicesTypeOK
    NothingSkipped
    CredentialsSound
    AdmissionSound
    RatesAreTrue
PROPERTY DeliverySpec
CHECK_DEADLOCK FALSE
