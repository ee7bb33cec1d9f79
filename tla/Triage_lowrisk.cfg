SPECIFICATION Spec
CONSTANTS
    e1 = e1
    e2 = e2
    e3 = e3
    e4 = e4
    Events = {e1, e2, e3, e4}
    Time <- Times
    Start = 3
    End = 10
    Width = 5
    Window = 5
    SummaryLimit = 2
    EventLimit = 2
    NoBuckets = {7}
    NoEvents = {fakeEvent}
    MaxFailures = 0
INVARIANT RisksGrounded
CHECK_DEADLOCK FALSE
