SPECIFICATION Spec
CONSTANTS
    Workers = {w1, w2}
    MaxRuns = 2
    MaxFaults = 1
    LockLoss = FALSE
INVARIANT RequestNeverVanishes
