SPECIFICATION Spec
CONSTANTS
    MaxEpoch = 2
    MaxInFlight = 2
    Faults = {}
    UserCommands = {"Pause", "Play", "Prepare", "Release", "Seek", "Stop"}
INVARIANTS
    ShutdownIsClean
