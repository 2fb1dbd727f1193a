SPECIFICATION BothSpec
CONSTANTS
    i1 = i1
    b1 = b1
    c1 = c1
    w1 = w1
    w2 = w2
    Items = {i1}
    Workers = {w1, w2}
    Backgrounds = {b1}
    Clients = {c1}
    Ops = {"cancel", "retry", "restart"}
    PoolSize = 2
    MaxRestarts = 0
    Streams = {s1, s2}
    Removers = {k1}
    HistoryLimit = 1
    QueueLimit = 1
    Acquirers = {a1, a2}
    MaxCapacity = 3
    StreamBaseHeadroom = 1
    StreamAdditionalHeadroom = 1
SYMMETRY Symmetry
INVARIANTS
    NoPhantomStreams
    NoIdleHeadroom
    OnlyStaleLooksShareItems
    OnlyAskedRunsAreCancelled
