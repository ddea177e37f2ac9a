CONSTANTS
    Peers = {"p", "q", "local"}
    Folders = {"f"}
    Values <- MCValues
    FileSystems <- MCFileSystems
    MaxPeers = 2
    MaxFolders = 2
    MaxLines = 12
SPECIFICATION ParseSpec
INVARIANT Faithful
INVARIANT RootsApart
INVARIANT OneWriter
CHECK_DEADLOCK FALSE
