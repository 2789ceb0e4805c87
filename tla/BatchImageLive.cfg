SPECIFICATION FairSpec
CONSTANTS
    Hold = 2
    Workers = {w1}
    Costs = {0, 1, 2}
    OtherHolds = {0, 2}
    MaxRetries = 2
    MaxFaults = 1
    Perils = {"submitFails", "workerFails"}
PROPERTIES
    HoldIsResolved
CHECK_DEADLOCK FALSE
