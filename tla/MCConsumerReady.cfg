SPECIFICATION Spec
CONSTANTS
    c1 = c1
    c2 = c2
    Consumers = {c1}
    events = events
    objects = objects
    Partitions <- BothTopics
    Objects <- ObjectTopic
    Size = 2
    Hidden <- HiddenObject
    Poison <- PoisonEvent
    BatchSize = 2
    MaxRetries = 2
    MaxMoves = 0
    NoOne = NoOne
INVARIANT ReadyMeansReading
