SPECIFICATION Spec
CONSTANTS
    BatchSize = 2
    Pages <- MCPages
    Country <- MCCountry
    AdsOf <- MCAdsOf
    Parallel = 2
    Outcomes = {"SUCCEEDED", "PARTIAL", "REFUSED", "FAILED"}
    Faults = {"crash", "read"}
    MaxFaults = 2
INVARIANTS
    NothingPaidTwice
    CleanRunIsComplete
    RetriedOnce
    NoAdWronglyGone
    NeverOvercounted
PROPERTIES
    DealtWithForGood
