CONSTANTS
    Folders = {"a", "b"}
    Paths = {"p", "q", "r"}
    MaxLength = 3
    MaxEntries = 2
    MaxManifestBytes = 8
    MaxCrashes = 1
SPECIFICATION Spec
INVARIANT BudgetInv
INVARIANT NeverRefusedLate
INVARIANT ListAccepts
