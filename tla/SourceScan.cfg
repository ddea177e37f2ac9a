CONSTANTS
    Paths <- MCPaths
    Above <- MCAbove
    Rank <- MCRank
    Block <- MCBlock
    Contents <- MCContents
    Modes <- MCModes
    MaxEntries = 2
    MaxEdits = 3
    MaxFaults = 1
SPECIFICATION FairSpec
INVARIANT SourceInv
INVARIANT ParentsListed
INVARIANT IndexIsRegular
INVARIANT AnswerIsScanned
PROPERTY ServedIsListed
PROPERTY Publishes
PROPERTY KeepsPromise
