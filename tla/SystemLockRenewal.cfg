SPECIFICATION LockSpec
CONSTANTS
    Operations = {o1, o2, o3}
    OperationIDs = {i1, i2}
    Lease = 2
    RenewInterval = 1
    LockTTL = 5
    LastInstant = 4
    MaxFaults = 0
INVARIANTS
    HolderIsNotOvertaken
CHECK_DEADLOCK FALSE
