SPECIFICATION Spec
CONSTANTS
    Workers = {w1, w2}
    MaxRuns = 3
    MaxFaults = 3
    LockLoss = FALSE
SYMMETRY WorkerSymmetry
INVARIANTS
    TypeOK
    OneWorkerAtATime
    RunUnderWayIsOpen
    AtMostOneOpenRun
    RequestGetsARun
PROPERTIES
    ClosedForGood
    StopSparesApifyRuns
    LedgerSpec
