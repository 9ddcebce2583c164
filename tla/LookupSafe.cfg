SPECIFICATION SafetySpec
CONSTANTS
    Threads = {t1, t2}
    FirstBases = 3
    MaxTries = 0
    MaxBases = 5
    MaxLookups = 1
    MaxRounds = 3
    NULL = NULL
    Nobody = Nobody
    Sorter = Sorter
SYMMETRY ThreadSymmetry
INVARIANTS
    TypeOK
    HeldOpen
    NeverMissed
    RetriesPaid
    LinksAgree
