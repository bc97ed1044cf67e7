SPECIFICATION FairSpec
CONSTANTS
    unset = unset
    Base <- MCBase
    Edits <- MCEdits
    CliEdits <- MCCliEdits
    Unset = unset
    None = None
    MaxRequests = 4
    MaxEdits = 1
    MaxStops = 1
INVARIANTS
    RestartLoads
    EngineAgrees
PROPERTIES
    BusyEnds
CHECK_DEADLOCK FALSE
