SPECIFICATION Spec
CONSTANTS
    p1 = p1
    p2 = p2
    q1 = q1
    q2 = q2
    idA = idA
    idB = idB
    noId = noId
    NoId = noId
    NoReplica = NoReplica
    NoEvent = NoEvent
    Replicas = {p1}
    Partitions = {q1}
    Ids = {idA, idB}
    Topic <- TopicPair
    MaxMints = 0
    BatchSize = 2
    DlqConfigured = TRUE
    MaxStops = 1
    MaxFaults = 0
    MaxRebalances = 0
INVARIANT ShutdownFlushes
CHECK_DEADLOCK FALSE
