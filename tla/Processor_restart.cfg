SPECIFICATION Spec
CONSTANTS
    p1 = p1
    p2 = p2
    q1 = q1
    q2 = q2
    idA = idA
    idB = idB
    noId = noId
    NoId = noId
    NoReplica = NoReplica
    NoEvent = NoEvent
    Replicas = {p1}
    Partitions = {q1, q2}
    Ids = {idA, idB}
    Topic <- TopicTwo
    MaxMints = 2
    BatchSize = 2
    DlqConfigured = TRUE
    MaxStops = 2
    MaxFaults = 1
    MaxRebalances = 0
INVARIANT TypeOK
INVARIANT CommitInv
INVARIANT CountInv
INVARIANT RewindInv
PROPERTY CommitsNeverRewind
CHECK_DEADLOCK FALSE
