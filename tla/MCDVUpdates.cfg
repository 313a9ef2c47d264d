\* The controller changes one cost at one router.
CONSTANTS
    N = 3
    INF = 8
    LinkCost <- Line
    NewCosts <- CheaperOrDearer
    Junk = {}
    MaxUpdates = 1
    MaxCrashes = 0
    MaxRemovals = 0
    MaxInFlight = 1
    LeastLink <- LineAtLeast
    LeastDist <- LineAtLeastDist
SPECIFICATION Spec
INVARIANTS
    TypeOK
    ReachableHasHop
    NeverTooCheap
    HopPaysForRoute
    RoutesFitAtRest
PROPERTY
    OutOfReachOnlyByUpdate
