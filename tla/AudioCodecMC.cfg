SPECIFICATION FairSpec
CONSTANTS
    PacketCount = 5
    Spacing = 2
    Lead = 4
    NanosPerMicro = 2
    InputSlots = 2
    OutputSlots = 2
    MaxFlush = 2
INVARIANTS
    Decodable
    HeardFromBoundary
PROPERTIES
    IsAQueue
    Drains
