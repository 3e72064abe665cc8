SPECIFICATION Spec
CONSTANTS
    Ads = {"x"}
    Snaps <- MCSnaps
    FbPages = {101}
    Pictures = {"p1", "p2"}
    Reach <- MCReach
    Workers = 2
    MaxFaults = 2
INVARIANTS KeysNameObjects CardsAsRead ShowsItsOwnMedia
PROPERTIES MirroredMediaStays ObjectsAreImmutable
