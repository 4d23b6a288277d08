CONSTANTS
    MaxRequests = 2
    Delta <- MCDelta
    Heading = {1}
    MinCollapse = 3
    MaxText <- MCMaxText
    MaxStored = 1
    MaxMounts = 2
    EditMounts = 0
    Editable = {0, 1}
    Kind <- MCKind
SPECIFICATION FairSpec
INVARIANTS TypeOK IdleIsFinal WholeAnswer BusyWhileAwaiting
PROPERTIES LeaveKeeps GenerationEnds
CHECK_DEADLOCK FALSE
