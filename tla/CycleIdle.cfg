CONSTANTS
    N = 2
    Interval = 2
    Idle = 3
    MaxWork = 3
    MaxFetches = 1
    MaxEvents = 0
SPECIFICATION FairSpec
PROPERTY NoStarvation
