SPECIFICATION FairSpec
CONSTANTS
    a = a
    b = b
    x = x
    Paths <- MCPaths
    Present <- MCPresent
    DaemonClips <- MCDaemonClips
    OutputOf <- MCOutputOf
    Offline = Offline
    None = None
    MaxWrites = 3
    MaxChanges = 1
    MaxClicks = 1
PROPERTIES
    ClipsAppear
    BadgeCatchesUp
    SweepsWait
CHECK_DEADLOCK FALSE
