SPECIFICATION Spec
CONSTANTS
    Keys = {1, 2}
    Vals = {v1, v2}
    Workload = {"write", "remove"}
    Retry = TRUE
    NoFooter = FALSE
    RecordsInBlob = 2
    MaxBases = 3
    MaxOps = 5
    MaxFailures = 0
    Blank = Blank
    NoLoc = NoLoc
    Absent = Absent
    Broken = Broken
INVARIANTS
    TypeOK
    AckedReadable
    OneLive
    CacheMatchesDisk
    CountExact
    LocsInBounds
    SortsOldBases
PROPERTIES
    SortsPreserve
    DroppedBasesEmpty
CONSTRAINT NotCrossed
SYMMETRY ValSymmetry
CHECK_DEADLOCK FALSE
