CONSTANTS
    Block = {a, b}
    MaxBlocks = 2
    MaxWrites = 3
SPECIFICATION FairSpec
INVARIANT ReadInv
INVARIANT WholeRead
PROPERTY Answers
CHECK_DEADLOCK FALSE
