\* Two requests at a time, uploads and configs in any mix.
CONSTANTS
    Clients = {c1, c2}
    Contents <- MCContents
    Ids = {i1, i2}
    NoId = NoId
    NoContent = NoContent
    Partial = Partial
    Uploads <- MCUploads
    MaxVersions = 2
    MaxFaults = 2
SPECIFICATION FairSpec
INVARIANTS
    TypeOK
    OneDealPerDocument
    DealsAreComplete
    OrphansAreFailures
    RepliesAreTrue
    NewestConfigIsActive
PROPERTIES
    EveryRequestEnds
