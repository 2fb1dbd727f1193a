SPECIFICATION FairSpec
CONSTANTS
    Total = 3
    MaxPrefetch = 2
    Lazy = TRUE
INVARIANTS
    WorkStaysInWindow
    NoSkippedSegment
PROPERTIES
    ReadsReturn
