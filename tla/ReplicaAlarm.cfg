CONSTANTS
    Paths <- FilePaths
    Above <- FileAbove
    Rank <- FileRank
    Block <- MCBlock
    Contents <- MCContents
    Modes <- MCModes
    Manifests <- FileManifests
    MaxEntries = 1
    MaxEdits = 0
    MaxFaults = 1
    LateWriteback = TRUE
SPECIFICATION Spec
INVARIANT AlarmGenuine
