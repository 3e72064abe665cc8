SPECIFICATION Spec
CONSTANTS
    Companies <- MCCompanies
    FbPages <- MCFbPages
    Ads <- MCAds
    PageOf <- MCPageOf
    Records <- MCRecords
    EditsListed = TRUE
    MaxPages = 3
    MaxRuns = 2
    MaxEdits = 4
    MaxFaults = 1
INVARIANT AdsOnTheirOwnPage
