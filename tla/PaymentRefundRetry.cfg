SPECIFICATION Spec
CONSTANTS
    Calls = {c1, c2}
    Amount = 2
    Days = 3
    Deterministic = FALSE
    MaxRefunds = 2
    MaxFaults = 2
    Perils = {"executeFails"}
SYMMETRY Symmetry
INVARIANT RetryDeductsOnce
CHECK_DEADLOCK FALSE
