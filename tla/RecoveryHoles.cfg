SPECIFICATION Spec
CONSTANTS
    Keys = {1,2,3}
    RecordsInBlob = 6
    IndexBlockSize = 3
    CorruptMax = 0
    Workload = {"write"}
    MaxBases = 1
    MaxEvents = 8
    NoFile = NoFile
    Linked = Linked
    NoLoc = NoLoc
    Nobody = Nobody
    Sorter = Sorter
INVARIANT AppendsBehindRecords
CHECK_DEADLOCK FALSE
