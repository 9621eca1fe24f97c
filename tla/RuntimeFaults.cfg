SPECIFICATION FairSpec
CONSTANTS
    MaxEpoch = 2
    MaxInFlight = 2
    Faults = {"build", "panic", "pipeline", "thread"}
    UserCommands = {"Play", "Prepare", "Seek", "Stop"}
INVARIANTS
    WorkersAreOwned
PROPERTIES
    OwnerContract
    ShutdownReturns
    RequestsAreAnswered
    FailedWorkerIsRetired
