SPECIFICATION ReplaySpec
CONSTANTS
    Pts <- MCPts
    TicksPerSec = 2
    Capacities <- MCCapacities
    Reorder = 2
    Requests <- MCRequests
    MaxArrivals = 4
    MicrosPerSec = 5
    MillisPerSec = 1
    AudioTimes <- MCAudioTimes
    AudioLead = 2
    MaxMarks = 2
INVARIANTS
    BytesExact
    Gapless
    ClipAsPromised
    ClipHasSound
    ChaptersAreMarks
PROPERTIES
    ImplementsFrameStore
CHECK_DEADLOCK FALSE
