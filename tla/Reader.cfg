SPECIFICATION Spec
CONSTANTS
    Value = {}
    Snapshot = {s1}
    Listing = {l1}
    Query = {class, discovery}
    MaxBlock = 2
    a1 = a1
    a2 = a2
    a3 = a3
    Address = {a1, a2, a3}
    MaxMembers = 3
    Lists <- SomeLists
    PageSize = 2
    MaxAddresses = 3
    Pinning = {TRUE, FALSE}
    None = None
INVARIANTS
    ReadsAreAuthenticated
    ListingIsComplete
PROPERTIES
    OnlyInFlightShared
    ReadsSettle
CHECK_DEADLOCK FALSE
