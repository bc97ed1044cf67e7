SPECIFICATION Spec
CONSTANTS
    Clients = {"cli"}
    Followers = {"hud"}
    QueueLen = 1
    WireLen = 1
    MaxStimuli = 3
    MaxStops = 1
INVARIANTS
    NothingMissed
    HudIsTrue
PROPERTIES
    FaultsAreTold
CHECK_DEADLOCK FALSE
