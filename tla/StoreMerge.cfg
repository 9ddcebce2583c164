SPECIFICATION Spec
CONSTANTS
    Keys = {1, 2}
    Vals = {v1}
    Workload = {"write", "remove"}
    Retry = FALSE
    NoFooter = TRUE
    RecordsInBlob = 1
    MaxBases = 4
    MaxOps = 4
    MaxFailures = 1
    Blank = Blank
    NoLoc = NoLoc
    Absent = Absent
    Broken = Broken
INVARIANTS
    AckedReadable
PROPERTIES
    SortsPreserve
CONSTRAINT NotCrossed
CHECK_DEADLOCK FALSE
