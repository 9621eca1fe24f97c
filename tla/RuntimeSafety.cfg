SPECIFICATION Spec
CONSTANTS
    MaxEpoch = 2
    MaxInFlight = 3
    Faults = {"build", "pipeline", "thread"}
    UserCommands = {"Pause", "Play", "Prepare", "Release", "Seek", "Stop"}
INVARIANTS
    FatalOnlyAtEpochLimit
    SessionsMatch
    EventChain
    ThreadsAgree
PROPERTIES
    ProgressInContext
    OldWorkIsHarmless
    UserContract
