CONSTANTS
    N = 3
    Interval = 2
    Idle = 4
    MaxWork = 1
    MaxFetches = 1
    MaxEvents = 3
SPECIFICATION FairSpec
INVARIANT CycleInv
INVARIANT OneTurnLost
PROPERTY Recovers
