SPECIFICATION LockSpec
CONSTANTS
    Operations = {o1, o2, o3}
    OperationIDs = {i1, i2}
    Lease = 2
    RenewInterval = 1
    LockTTL = 3
    LastInstant = 4
    MaxFaults = 1
SYMMETRY Symmetry
INVARIANTS
    CreatorIsNotOvertaken
PROPERTIES
    TakeoverOnlyAfterLease
CHECK_DEADLOCK FALSE
