CONSTANTS
    Paths <- MCPaths
    Above <- MCAbove
    Rank <- MCRank
    Block <- MCBlock
    Contents <- MCContents
    Modes <- MCModes
    MaxEntries = 2
    Manifests <- MCManifests
    MaxEdits = 1
    MaxFaults = 1
    LateWriteback = FALSE
    Trees <- MCTrees
    MaxChanges = 2
SPECIFICATION SyncSpec
INVARIANT Provenance
PROPERTY Settles
