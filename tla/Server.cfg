CONSTANTS
    Conns = {c1, c2}
    Peers = {p}
    MaxSessions = 1
    NoConn = none
SPECIFICATION FairSpec
INVARIANT ServerInv
INVARIANT StoreOpenWhileUsed
INVARIANT SlotsAccounted
PROPERTY ShutdownCompletes
PROPERTY ReadsAvailable
PROPERTY SlotFreed
CHECK_DEADLOCK FALSE
