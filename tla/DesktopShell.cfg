CONSTANTS
    w1 = w1
    w2 = w2
    w3 = w3
    Win = {w1, w2, w3}
    Null = Null
    Undefined = Undefined
    MaxRetries = 3
SPECIFICATION FairSpec
INVARIANTS TypeOK NoOrphanServer HideHasWindow Reachable
PROPERTIES QuitExits StartupEnds
CHECK_DEADLOCK FALSE
