SPECIFICATION Spec
CONSTANTS
    AudioLength = 4
    VideoLength = 4
    QueueCapacity = 1
    DecoderDepth = 1
    DeviceCapacity = 1
    EarlyTolerance = 0
    LateTolerance = 1
    MaxEpoch = 1
INVARIANTS
    NoInternalError
    PacketsFlow
    ClockTellsWhatIsHeard
    CompletionIsComplete
    NothingBeforeBoundary
