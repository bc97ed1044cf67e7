SPECIFICATION Spec
CONSTANTS
    Pts <- MCPts
    TicksPerSec = 1
    Capacities <- MCCapacities
    Reorder = 1
    MaxArrivals = 6
    MinDead = 1
    Budget = 2
    MaxRead = 3
INVARIANTS
    FootageIntact
    AccountsExact
PROPERTIES
    ImplementsFrameStore
CHECK_DEADLOCK FALSE
