\* Two files that share the last hops; the way of one of them changes.
CONSTANTS
    Router = {0, 1, 2, 3}
    Routes <- MeetingOrDetour
    Files <- TwoFiles
    From <- FromBoth
    To <- ToTheSame
    Count <- ThreePacketsEach
    TTL <- LongLivedBoth
    FirstSeq <- Apart
    Capacity = 2
    MaxTransfers = 2
    MaxFailures = 0
    MaxCrashes = 0
    MaxMoves = 1
SPECIFICATION Spec
INVARIANTS
    NothingUnread
    NothingLost
    LatestAreNoted
\* Once every file is sent nothing is left to do.
CHECK_DEADLOCK FALSE
