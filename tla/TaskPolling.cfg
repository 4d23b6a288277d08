CONSTANTS
    Task = {v}
    Suno = {}
    Realtime = {}
    Orphan = {}
    Pass = {p1, p2, p3}
    Reader = {}
    SubmitQuota = {1, 3}
    ActualQuota = {2}
    EarlyFull = TRUE
    MaxReads = 0
    MaxFaults = 2
SPECIFICATION Spec
INVARIANTS TypeOK NeverOverRefunded OpenIsCharged FinishedIsBilled
PROPERTIES FinalStays
SYMMETRY PassSymmetry
CHECK_DEADLOCK FALSE
