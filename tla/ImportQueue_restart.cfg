SPECIFICATION BothSpec
CONSTANTS
    i1 = i1
    w1 = w1
    w2 = w2
    c1 = c1
    Items = {i1}
    Workers = {w1, w2}
    Backgrounds = {}
    Clients = {c1}
    Ops = {"restart"}
    PoolSize = 2
    MaxRestarts = 1
    Streams = {s1, s2}
    Removers = {k1}
    HistoryLimit = 1
    QueueLimit = 1
    Acquirers = {a1, a2}
    MaxCapacity = 3
    StreamBaseHeadroom = 1
    StreamAdditionalHeadroom = 1
SYMMETRY Symmetry
INVARIANTS
    ClaimsAreExclusive
