SPECIFICATION ImportsSpec
CONSTANTS
    i1 = i1
    w1 = w1
    w2 = w2
    b1 = b1
    c1 = c1
    Items = {i1}
    Workers = {w1}
    Backgrounds = {b1}
    Clients = {c1}
    Ops = {"cancel", "retry", "restart", "remove", "sabRemove", "pause", "resume"}
    PoolSize = 1
    MaxRestarts = 1
    t1 = t1
    t2 = t2
    d1 = d1
    d2 = d2
    Targets = {t1}
    Packs = {{t1}}
    Downloads = {d1, d2}
    MaxFailures = 2
    Grace = 1
    Window = 1
    MaxErrors = 1
    MaxReboots = 1
    n1 = n1
    n2 = n2
    h1 = h1
    h2 = h2
    f1 = f1
    f2 = f2
    p1 = p1
    p2 = p2
    Nzbs = {n1, n2}
    Hands = {h1, h2}
    Folders = {f1, f2}
    Parts = {p1, p2}
    MaxCopy = 3
    Cases <- SoundCases
    MaxServerStarts = 1
    MaxRetries = 1
INVARIANTS
    NoOrphanProcessing
    OnlyStaleLooksShareItems
    CompletedAreServed
    
    
PROPERTIES
    ProcessingEnds
    ActsAfterGrace
    FailedImportsAreGivenUp
    HealthyFilesStay
