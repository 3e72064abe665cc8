SPECIFICATION FairSpec
CONSTANTS
    BatchSize = 1
    Pages <- OneBatch
    Country <- OneBatchCountry
    AdsOf <- OneBatchAdsOf
    Parallel = 1
    Outcomes = {"SUCCEEDED"}
    Faults = {"crash", "midstart", "answer", "call", "read", "summary", "record", "db", "delete"}
    MaxFaults = 2
INVARIANTS
    TypeOK
    ParallelLimit
    EveryAdCounted
PROPERTIES
    RunGetsClosed
