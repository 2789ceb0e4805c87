SPECIFICATION Spec
CONSTANTS
    Hold = 2
    Workers = {w1, w2}
    Costs = {0, 1, 2}
    OtherHolds = {0, 2}
    MaxRetries = 2
    MaxFaults = 4
    Perils = {"submitFails", "cancelFails", "recoveryFails",
              "workerFails", "replyLost", "queueDown",
              "lockExpires", "pause", "earlyCancel"}
SYMMETRY Symmetry
INVARIANTS
    TypeOK
    SettledIsCharged
    RefundedNeverProceeds
    FrozenIsOpenHolds
PROPERTIES
    BilledResultIsFinal
CHECK_DEADLOCK FALSE
