\* Fixed links, fair scheduling: are these the cheapest paths?
CONSTANTS
    N = 3
    INF = 15
    LinkCost <- LineThrough0
    NewCosts = {}
    Junk = {}
    MaxUpdates = 0
    MaxCrashes = 0
    MaxRemovals = 0
    MaxInFlight = 1
    LeastLink <- LineThrough0
    LeastDist <- ShortestPath
SPECIFICATION FairSpec
PROPERTY SettlesOnShortest
