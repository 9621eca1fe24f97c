SPECIFICATION FairSpec
CONSTANTS
    FrameCount = 5
    BlockSizes = {1, 3}
    StreamCapacity = 2
    MaxSeek = 2
INVARIANTS
    PlaysExactlyWhenWanted
PROPERTIES
    IsADevice
    Finishes
