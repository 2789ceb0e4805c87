SPECIFICATION LiveSpec
CONSTANTS
    r3 = r3
    p1 = p1
    p2 = p2
    Requests = {r1, r3}
    Processes = {p1, p2}
    Process <- MCProcess
    Ids = {1, 2, 3}
    None = None
    Max = 1
    MaxWait = 1
    MaxFaults = 1
    Perils = {"redisFails", "replyLost", "slotExpires", "leaseExpires",
              "waitExpires", "crash"}
INVARIANTS
    LimitHolds
    WaitersAreBounded
PROPERTIES
    LeakedIsFreed
    IdleIsUnindexed
CHECK_DEADLOCK FALSE
