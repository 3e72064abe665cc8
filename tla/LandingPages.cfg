SPECIFICATION Spec
CONSTANTS
    Ads = {"x"}
    Links <- MCLinks
    Tracking = {"utm"}
    Contents <- MCContents
    Unstorable = {"NUL"}
    CrawlLimit = 1
    MaxVersions = 3
    MaxFaults = 1
INVARIANTS LinkedToItsDestination VersionsDiffer CatalogIsCurrent
PROPERTIES EveryPageGetsItsTurn
