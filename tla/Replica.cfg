CONSTANTS
    Paths <- TreePaths
    Above <- TreeAbove
    Rank <- TreeRank
    Block <- MCBlock
    Contents <- MCContents
    Modes <- MCModes
    Manifests <- TreeManifests
    MaxEntries = 2
    MaxEdits = 2
    MaxFaults = 1
    LateWriteback = FALSE
SPECIFICATION Spec
INVARIANT ReplicaInv
INVARIANT DiskExplained
INVARIANT IndexMatchesHeld
INVARIANT SuccessMeansSynced
INVARIANT AlarmExplained
INVARIANT IndexWithinLimit
PROPERTY OnlyOwnReplaced
