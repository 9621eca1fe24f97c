SPECIFICATION FairSpec
CONSTANTS
    Files <- MCFiles
    RegionStart = 3
    FramesPerPacket = 2
    ReadSizes = {5, 100}
    Coordinated = TRUE
    OthersAt = {0}
    NanosPerSecond = 10
    CapacityFrames = 3
    MaxElapsed = 3
    SeekTargets <- MCSeekTargets
    MaxSeek = 1
INVARIANTS
    LayoutIsTheFile
    HeardIsTheData
    SeekIsExact
    PositionIsReal
PROPERTIES
    PlaysToTheEnd
