CONSTANTS
    Task = {v, s}
    Suno = {s}
    Realtime = {v}
    Orphan = {v, s}
    Pass = {p1}
    Reader = {u}
    SubmitQuota = {2}
    ActualQuota = {3}
    EarlyFull = FALSE
    MaxReads = 1
    MaxFaults = 0
SPECIFICATION FairSpec
PROPERTIES EveryTaskFinishes
CHECK_DEADLOCK FALSE
