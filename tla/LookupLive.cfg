SPECIFICATION LiveSpec
CONSTANTS
    Threads = {t1, t2}
    FirstBases = 3
    MaxTries = 0
    MaxBases = 4
    MaxLookups = 2
    MaxRounds = 1
    NULL = NULL
    Nobody = Nobody
    Sorter = Sorter
PROPERTIES
    LookupsReturn
    SorterFinishes
CHECK_DEADLOCK FALSE
