SPECIFICATION FairSpec
CONSTANTS
    Clients = {c1}
    Encoders = {h264}
    BootEncoder = h264
    Nobody = nobody
    Retries = 1
    DisarmProbes = 2
    Patience = 1
    AutoArm = TRUE
    ClearOnSave = FALSE
    MaxQueue = 2
PROPERTIES
    StallRecovers
    RequestAnswered
