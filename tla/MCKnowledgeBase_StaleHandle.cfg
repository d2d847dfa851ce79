SPECIFICATION Spec
CONSTANTS
    i1 = i1
    i2 = i2
    q1 = q1
    q2 = q2
    Ingests <- MCIngests
    Lookups <- MCLookups
    Chunks <- MCChunks
    Corpora <- MCCorpora
    Rankings <- MCRankings
    Batch = 3
    MinChunks = 4
    K = 2
    OverFetch = 2
    MaxCrashes = 1
    MaxRestarts = 1
INVARIANT HandleIsPersisted
SYMMETRY Symmetry
CHECK_DEADLOCK FALSE
