SPECIFICATION Spec
CONSTANTS
    p1 = p1
    p2 = p2
    q1 = q1
    q2 = q2
    idA = idA
    idB = idB
    noId = noId
    NoId = noId
    NoReplica = NoReplica
    NoEvent = NoEvent
    Replicas = {p1, p2}
    Partitions = {q1}
    Ids = {idA, idB}
    Topic <- TopicTwin
    MaxMints = 0
    BatchSize = 2
    DlqConfigured = FALSE
    MaxStops = 0
    MaxFaults = 1
    MaxRebalances = 2
SYMMETRY Symmetry
INVARIANT NoUnstoredCommit
INVARIANT CountedAtMostOnce
PROPERTY StoreSpec
CHECK_DEADLOCK FALSE
