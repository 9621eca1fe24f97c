SPECIFICATION FairSpec
CONSTANTS
    AudioLength = 2
    VideoLength = 6
    QueueCapacity = 1
    DecoderDepth = 1
    DeviceCapacity = 1
    EarlyTolerance = 0
    LateTolerance = 0
    MaxEpoch = 0
PROPERTIES
    PlaybackEnds
    TimeRunsForward
