\* Fixed links; a neighbor may be given up: where the costs end up if none is.
CONSTANTS
    N = 3
    INF = 15
    LinkCost <- Line
    NewCosts = {}
    Junk <- OldField
    MaxUpdates = 0
    MaxCrashes = 0
    MaxRemovals = 1
    MaxInFlight = 1
    LeastLink <- Line
    LeastDist <- ShortestPath
SPECIFICATION FairSpec
PROPERTY SettlesAvoiding0
