SPECIFICATION Spec
CONSTANTS
    PendingSecs = 2
    StaleSecs = 2
    IntervalSecs = 3
    TicksPerSecond = 2
    RunsShown = 2
    MaxNow = 9
    MaxRuns = 3
INVARIANTS
    RefusedAsShown
