SPECIFICATION PagesAdded
CONSTANTS
    BatchSize = 2
    Countries = {us, br, pt}
    MaxPages = 6
INVARIANTS
    EveryPageOnce
    BatchesFitAnActorRun
CHECK_DEADLOCK FALSE
