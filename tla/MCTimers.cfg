\* Two neighbors that fall silent at any time, handlers of up to two seconds.
CONSTANTS
    Nbr = {0, 1}
    Interval = 2
    FirstInterval = 3
    MaxBusy = 2
    Horizon = 12
SPECIFICATION FairSpec
INVARIANTS
    TypeOK
    SilenceIsNoticed
PROPERTIES
    GivenUpWhenSilent
    LosesOneHeard
    ExitsOnlyWhenLate
    SilentIsGivenUp
CHECK_DEADLOCK FALSE
