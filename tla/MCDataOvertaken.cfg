\* Two files that share the last hop: is a closed file complete?
CONSTANTS
    Router = {0, 1, 2, 3}
    Routes <- MeetingOnly
    Files <- TwoFiles
    From <- FromBoth
    To <- ToTheSame
    Count <- TwoPacketsEach
    TTL <- LongLivedBoth
    FirstSeq <- Apart
    Capacity = 2
    MaxTransfers = 2
    MaxFailures = 0
    MaxCrashes = 0
    MaxMoves = 0
SPECIFICATION Spec
INVARIANTS
    ReceivedWhenClosed
\* Once every file is sent nothing is left to do.
CHECK_DEADLOCK FALSE
