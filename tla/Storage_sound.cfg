SPECIFICATION Spec
CONSTANTS
    g1 = g1
    g2 = g2
    c1 = c1
    c2 = c2
    Segments = {g1}
    Callers = {c1, c2}
    Capacity = 0
    MaxStarts = 1
    MaxFailedReads = 1
    p1 = p1
    p2 = p2
    s1 = s1
    s2 = s2
    t1 = t1
    t2 = t2
    Paths = {p1, p2}
    Stores = {s1, s2}
    Tasks = {t1, t2}
    Scenarios <- Careful
    MaxWrites = 3
    MaxCrashes = 1
    Titles = {p1}
    Others = 4
    Situations <- Settled
    MaxSyncs = 3
    MaxImports = 1
INVARIANTS
    TruncatedOnlyByOverlap
    StoreOutlivesFiles
    OrphansWereLooseTwice
    LibraryFilesKeepRecords
CHECK_DEADLOCK FALSE
