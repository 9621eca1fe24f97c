SPECIFICATION FairSpec
CONSTANTS
    PacketCount = 7
    KeyPackets = {0, 3, 4}
    Lead = 4
    InputSlots = 3
    OutputSlots = 3
    MaxFlush = 3
INVARIANTS
    NoInternalError
    TokenNamesSlot
    Decodable
    TimesSurvive
PROPERTIES
    IsAQueue
    Drains
