SPECIFICATION Spec
CONSTANTS
    Keys = {1, 2, 4, 5, 7}
    Points = {0, 2, 3, 4, 6, 8}
    MaxRanges = 3
    Indexes <- SmallIndexes
    BatchSize = 3
    BlockSize = 2
    MaxRemoves = 1
    NoFile = NoFile
INVARIANTS
    Complete
    VisitedOnce
    EntriesKept
PROPERTIES
    Terminates
CHECK_DEADLOCK FALSE
