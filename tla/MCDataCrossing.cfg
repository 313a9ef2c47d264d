\* Two routers send each other more than the buffers hold.
CONSTANTS
    Router = {0, 1}
    Routes <- Across
    Files <- TwoFiles
    From <- FromBoth
    To <- ToEachOther
    Count <- ThreePacketsEach
    TTL <- LongLivedBoth
    FirstSeq <- Apart
    Capacity = 2
    MaxTransfers = 2
    MaxFailures = 0
    MaxCrashes = 0
    MaxMoves = 0
SPECIFICATION FairSpec
PROPERTIES
    AlwaysSent
\* Once every file is sent nothing is left to do.
CHECK_DEADLOCK FALSE
