SPECIFICATION Spec
CONSTANTS
    Duration = 5
    VideoEnd = 5
    KeyFrames <- MCKeyFrames
    AudioTicks <- MCAudioTicks
    DecoderOpens = TRUE
    QueueMax = 2
    PausedQueueMax = 1
    AudioBufMax = 4
    SilenceChunk = 1
    RefillBelow = 2
    LeadMax = 4
    GapMax = 4
    SettleTicks = 2
    PauseHonoured = TRUE
    SeekTargets <- MCSeekTargets
    Ranges <- MCRanges
    MaxCommands = 2
INVARIANTS
    LookAheadFollowsSeek
    NeverFrozen
PROPERTIES
    PlaybackEnds
    SeekSettles
CHECK_DEADLOCK FALSE
