\* Two neighbors; one datagram lost, one router crashed.
CONSTANTS
    Interval = 2
    FirstInterval = 3
    MaxLost = 1
    MaxCrashes = 1
    Horizon = 8
SPECIFICATION FairSpec
INVARIANTS
    BeatsGoOn
PROPERTIES
    GivenUpByOneItHears
    GivenUpIsMutual
CHECK_DEADLOCK FALSE
