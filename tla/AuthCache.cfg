SPECIFICATION LiveSpec
CONSTANTS
    r1 = r1
    h1 = h1
    h2 = h2
    Requests = {r1, r2}
    Hosts = {h1, h2}
    Editors = {h1}
    Host <- MCHost
    None = None
    MaxChanges = 1
    MaxFaults = 1
    Perils = {"redisFails", "messageLost", "dbFails", "slowLoad",
              "leaseExpires", "crash"}
INVARIANTS
    SharedEntryIsFresh
    LocalEntryIsFresh
PROPERTIES
    EventuallyFresh
    OutboxDrains
CHECK_DEADLOCK FALSE
