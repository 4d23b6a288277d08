CONSTANTS
    Task = {v}
    Suno = {}
    Realtime = {v}
    Orphan = {}
    Pass = {p1}
    Reader = {u}
    SubmitQuota = {2}
    ActualQuota = {0, 3}
    EarlyFull = TRUE
    MaxReads = 1
    MaxFaults = 0
SPECIFICATION Spec
INVARIANTS NeverOverRefunded
CHECK_DEADLOCK FALSE
