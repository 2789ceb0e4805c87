SPECIFICATION Spec
CONSTANTS
    Calls = {c1, c2}
    Amount = 2
    Days = 3
    Deterministic = FALSE
    MaxRefunds = 2
    MaxFaults = 2
    Perils = {"executeFails", "queryFails", "replyLost", "answerLost",
              "auditFails", "overlap", "retryPending"}
SYMMETRY Symmetry
INVARIANTS
    RefundedIsPaid
    NothingGivenTwice
    RestingOrderKeepsNothing
    DeductedOnce
    LiveRefundIsOnRecord
    RefundingHasOwner
CHECK_DEADLOCK FALSE
