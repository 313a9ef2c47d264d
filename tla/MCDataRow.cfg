\* One file over two hops, or in a circle; connect may fail, and a router crash.
CONSTANTS
    Router = {0, 1, 2}
    Routes <- RowOrCircle
    Files <- ThreeFiles
    From <- FromMany
    To <- ToRight
    Count <- Long
    TTL <- LongLived
    FirstSeq <- NearTheEnds
    Capacity = 2
    MaxTransfers = 1
    MaxFailures = 1
    MaxCrashes = 1
    MaxMoves = 0
SPECIFICATION FairSpec
INVARIANTS
    TypeOK
    TrailsAgree
    NothingRepeated
    DiesOfID0
PROPERTIES
    IsChannel
    FilesArrive
    ComesToRest
\* Once every file is sent nothing is left to do.
CHECK_DEADLOCK FALSE
