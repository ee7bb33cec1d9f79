SPECIFICATION FairSpec
CONSTANTS
    Events = {1, 2}
    Questions <- ThreeRanges
    Hash <- TwoHashes
    Clients = {c1, c2}
    Jobs = {j1}
    NoEntry = NoEntry
    MaxEvents = 2
    TTL = 1
    MaxFailures = 1
    OpenTimeout = 1
    MaxFaults = 2
INVARIANT TypeOK
INVARIANT CachedBelongs
INVARIANT BreakerAwaitsCalls
PROPERTY CacheCatchesUp
PROPERTY BreakerRecovers
CHECK_DEADLOCK FALSE
