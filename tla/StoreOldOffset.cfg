SPECIFICATION Spec
CONSTANTS
    Keys = {1, 2}
    Vals = {v1, v2}
    Workload = {"write"}
    Retry = TRUE
    NoFooter = FALSE
    RecordsInBlob = 2
    MaxBases = 3
    MaxOps = 5
    MaxFailures = 0
    Blank = Blank
    NoLoc = NoLoc
    Absent = Absent
    Broken = Broken
INVARIANTS
    NoOldOffsets
SYMMETRY ValSymmetry
CHECK_DEADLOCK FALSE
