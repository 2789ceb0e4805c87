SPECIFICATION FairSpec
CONSTANTS
    Workers = {w1, w2}
    MaxFaults = 1
INVARIANTS
    CreditAtMostOnce
    CreditedOnlyIfPaid
    AckedIsHandled
PROPERTIES
    Promise
    PaidIsFulfilled
CHECK_DEADLOCK FALSE
