CONSTANTS
    Callers = {p, q}
    NoCaller = none
    Blocks = {b}
    Indexes <- SomeIndexes
    MaxList = 2
    MaxIndexBytes = 6
    Envelope = 1
    Trailer = 1
    MaxCalls = 3
    MaxDials = 2
SPECIFICATION FairSpec
INVARIANT SessionInv
INVARIANT OwnAnswer
PROPERTY IsRpc
CHECK_DEADLOCK FALSE
