\* A router crashes; neighbors are given up.
CONSTANTS
    N = 3
    INF = 8
    LinkCost <- Line
    NewCosts = {}
    Junk <- OldOrUnknownField
    MaxUpdates = 0
    MaxCrashes = 1
    MaxRemovals = 1
    MaxInFlight = 1
    LeastLink <- Line
    LeastDist <- ShortestPath
SPECIFICATION Spec
INVARIANTS
    ReachableHasHop
    UnreachableHasNoHop
    HopIsNeighbor
PROPERTY WorseOnlyForAReason
