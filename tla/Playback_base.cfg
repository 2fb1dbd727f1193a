SPECIFICATION Spec
CONSTANTS
    a = a
    b = b
    c1 = c1
    c2 = c2
    t1 = t1
    Players = {a, b}
    Channels = {c1, c2}
    Titles = {t1}
    Happenings <- SmallHappenings
    MaxRequests = 2
    MaxEncoders = 2
    Custom = {"mine"}
    Movies = {"films"}
    Series = {"shows"}
    SourceOrder <- SmallOrder
    Reserved <- ReservedThree
    Libraries <- StableLibraries
    Length <- SmallLength
    Long = 2
    Break = 1
    Horizon = 4
    Threshold = 1
    Retry = 1
    Tolerance = 0
    Occasions <- SmallOccasions
    MaxTime = 4
    MaxVersions = 2
    Gone = Gone
    Devices <- SmallDevices
    Media <- SmallMedia
    Servers <- SmallServers
INVARIANTS
    BaseLayersArePlayed
CHECK_DEADLOCK FALSE
