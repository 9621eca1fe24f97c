SPECIFICATION Spec
CONSTANTS
    MaxEpoch = 2
    MaxInFlight = 2
    Faults = {"panic"}
    UserCommands = {"Pause", "Play", "Prepare", "Release", "Seek", "Stop"}
PROPERTIES
    OldWorkIsHarmless
