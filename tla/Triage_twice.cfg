SPECIFICATION Spec
CONSTANTS
    NoJob = NoJob
    Jobs = {j1, j2}
    Ranges = {r1}
    Servers = {s1}
    MaxCrashes = 0
    MaxFaults = 0
    MaxExpiries = 0
INVARIANT OneJobPerRange
CHECK_DEADLOCK FALSE
