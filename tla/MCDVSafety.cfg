\* Three routers, fixed links; datagrams lost, duplicated and reordered: where the
\* costs end up.
CONSTANTS
    N = 3
    INF = 15
    LinkCost <- ShortcutThrough1
    NewCosts = {}
    Junk = {}
    MaxUpdates = 0
    MaxCrashes = 0
    MaxRemovals = 0
    MaxInFlight = 2
    LeastLink <- ShortcutThrough1
    LeastDist <- ShortestPath
SPECIFICATION FairSpec
INVARIANTS
    HopPaysForRoute
    CheapestAtRest
PROPERTY SettlesAvoiding0
