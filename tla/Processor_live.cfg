SPECIFICATION FairSpec
CONSTANTS
    p1 = p1
    p2 = p2
    q1 = q1
    q2 = q2
    idA = idA
    idB = idB
    noId = noId
    NoId = noId
    NoReplica = NoReplica
    NoEvent = NoEvent
    Replicas = {p1}
    Partitions = {q1}
    Ids = {idA, idB}
    Topic <- TopicLive
    MaxMints = 0
    BatchSize = 3
    DlqConfigured = TRUE
    MaxStops = 1
    MaxFaults = 1
    MaxRebalances = 1
PROPERTY EventuallyStored
PROPERTY EventuallyCommitted
PROPERTY PoisonReachesDlq
PROPERTY SummariesComplete
CHECK_DEADLOCK FALSE
