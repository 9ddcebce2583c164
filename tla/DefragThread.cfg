SPECIFICATION Spec
CONSTANTS
    RecordsInBlob = 2
    BlobSize = 3
    DefragPercentage = 50
    MergeSize = 2
    MinTimeout = 1
    Setups <- SmallSetups
    MaxBases = 5
    MaxEvents = 3
    NoBase = NoBase
    Nobody = Nobody
    Forever = Forever
    Sync = Sync
    Thread = Thread
    Periodic = Periodic
    Caller = Caller
INVARIANTS
    TypeOK
    RunComplete
PROPERTIES
    GroupsFit
    RequestsServed
    CleanupReturns
CHECK_DEADLOCK FALSE
