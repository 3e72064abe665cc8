SPECIFICATION Spec
CONSTANTS
    Companies <- MCCompanies
    FbPages <- MCFbPages
    Ads <- MCAds
    PageOf <- MCPageOf
    Records <- MCRecords
    EditsListed = FALSE
    MaxPages = 3
    MaxRuns = 2
    MaxEdits = 4
    MaxFaults = 1
INVARIANTS NoEndWhileActive NamesAreKept
PROPERTIES HistorySpec IdOfAPageWithAdsStays
