SPECIFICATION Spec
CONSTANTS
    Clients = {c1}
    Encoders = {h264, hevc}
    BootEncoder = h264
    Nobody = nobody
    Retries = 1
    DisarmProbes = 2
    Patience = 1
    AutoArm = TRUE
    ClearOnSave = TRUE
    MaxQueue = 2
INVARIANTS
    NothingLeaked
    ArmedIsTrue
PROPERTIES
    RecoveryKeepsFootage
