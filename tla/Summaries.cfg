SPECIFICATION FairSpec
CONSTANTS
    e1 = e1
    e2 = e2
    e3 = e3
    e4 = e4
    NoRow = NoRow
    NoWorker = NoWorker
    NoEvent = NoEvent
    Workers = {w1, w2, w3}
    Events = {e1, e2, e3, e4}
    Time <- FourTimes
    Severity <- FourSeverities
    Type <- FourTypes
    Width = 10
    SampleLimit = 2
    MaxAttempts = 2
    MaxFaults = 1
INVARIANT TypeOK
INVARIANT NoLostUpdate
INVARIANT RowsAgree
INVARIANT RetrySuffices
INVARIANT HoldersGoOn
PROPERTY LedgerSpec
PROPERTY CallsReturn
CHECK_DEADLOCK FALSE
