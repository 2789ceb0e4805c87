SPECIFICATION LiveSpec
CONSTANTS
    Batches = {b1, b2}
    Workers = {w1, w2}
    None = None
    MaxEnqueues = 2
    MaxFaults = 2
    Perils = {"workerFails", "beatsLost", "lockExpires", "inflightExpires"}
INVARIANTS
    InflightIsQueued
    OnePlace
    OneProcessor
PROPERTIES
    KeepsContract
    EveryBatchIsAcknowledged
CHECK_DEADLOCK FALSE
