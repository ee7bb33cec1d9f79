SPECIFICATION FairSpec
CONSTANTS
    NoJob = NoJob
    Jobs = {j1, j2}
    Ranges = {r1, r2}
    Servers = {s1}
    MaxCrashes = 1
    MaxFaults = 1
    MaxExpiries = 1
INVARIANT TypeOK
INVARIANT CompleteIsTrue
INVARIANT RangeLeadsToJob
PROPERTY FinalIsFinal
PROPERTY PendingEnds
PROPERTY JobsEnd
CHECK_DEADLOCK FALSE
