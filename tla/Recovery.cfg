SPECIFICATION Spec
CONSTANTS
    Keys = {1, 2}
    RecordsInBlob = 3
    IndexBlockSize = 3
    CorruptMax = 0
    Workload = {"write", "remove"}
    MaxBases = 3
    MaxEvents = 8
    NoFile = NoFile
    Linked = Linked
    NoLoc = NoLoc
    Nobody = Nobody
    Sorter = Sorter
INVARIANTS
    TypeOK
    SettledSurvive
    OpensAfterCrash
    SortedMatchesIndex
    NamesFresh
CHECK_DEADLOCK FALSE
