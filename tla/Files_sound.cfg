SPECIFICATION FairSpec
CONSTANTS
    FileSize = 7
    SkipLimit = 2
    ScrubLimit = 3
    MaxLen = 3
    Clients <- PlainClients
    w1 = w1
    w2 = w2
    Workers = {w1, w2}
    QueueSize = 2
    MaxReaders = 5
    x = x
    y = y
    Categories = {x, y}
    Settings <- SmallSettings
    Scenes <- SmallScenes
    MaxChanges = 1
    MaxSettings = 1
    MaxFailures = 1
    Acquirers = {a1, a2, a3}
    MaxCapacity = 3
    MaxStreams = 2
    MaxPendingNotify = 2
    StreamBaseHeadroom = 1
    StreamAdditionalHeadroom = 1
INVARIANTS
    SlotAccounting
    BytesAreThoseAsked
    NothingStaysOpen
    NoticedChangesAreDue
PROPERTIES
    ImplementsBoundedSlots
    FifoGrants
    EveryWaiterServed
    FileCallsEnd
    ChangesAreScanned
CHECK_DEADLOCK FALSE
