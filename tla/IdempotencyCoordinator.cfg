SPECIFICATION Spec
CONSTANTS
    Requests = {r1, r2, r3}
    Fingerprints = {f1, f2}
    TTL = 2
    ProcessingTimeout = 1
    Backoff = 1
    MaxClock = 4
SYMMETRY Symmetry
INVARIANTS
    OneEffectBeforeExpiry
    ReplayIsOfSamePayload
PROPERTIES
    SuccessIsKept
CHECK_DEADLOCK FALSE
