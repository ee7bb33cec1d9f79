SPECIFICATION FairSpec
CONSTANTS
    r1 = r1
    r2 = r2
    NoAnswer = NoAnswer
    Requests = {r1, r2}
    Bodies <- SmallBodies
    ReadTimeout = 1
    PublishTimeout = 1
    StopDelay = 1
    DrainTimeout = 2
    MaxFaults = 1
INVARIANT TypeOK
INVARIANT AcceptedIsPublished
INVARIANT CountMatches
INVARIANT DrainAnswers
PROPERTY RequestsEnd
PROPERTY ReadyFollowsBrokers
CHECK_DEADLOCK FALSE
