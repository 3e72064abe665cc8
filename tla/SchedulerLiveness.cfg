SPECIFICATION FairSpec
CONSTANTS
    Workers = {w1, w2}
    MaxRuns = 1
    MaxFaults = 2
    LockLoss = TRUE
PROPERTIES
    EveryRunGetsClosed
    RequestGetsTaken
