SPECIFICATION Spec
CONSTANTS
    Keys = {1, 2}
    Vals = {v1}
    Workload = {"write", "patch", "prepare", "plain", "commit", "remove"}
    Retry = FALSE
    NoFooter = FALSE
    RecordsInBlob = 2
    MaxBases = 3
    MaxOps = 4
    MaxFailures = 1
    Blank = Blank
    NoLoc = NoLoc
    Absent = Absent
    Broken = Broken
INVARIANTS
    AckedReadable
    HeaderMatchesIndex
    OldValid
    FrozenWhileSorting
CONSTRAINT NotCrossed
CHECK_DEADLOCK FALSE
