SPECIFICATION RecordSpec
CONSTANTS
    Den = 2000
    AudioPreroll = 3000
    VideoTimes = {1, 2, 6}
    PtsLeads = {1}
    AudioTimes = {500, 1500, 3500, 7000}
    Jitter = 1
    VideoCap = 2
    AudioCap = 2
    AudioWindow = 4000
    MaxVideo = 4
    MaxAudio = 3
INVARIANTS
    FilePlays
    AudioInPlace
    LikeTheClipMuxer
