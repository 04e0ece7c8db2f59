SPECIFICATION FairSpec
CONSTANTS
    Handles = {h1, h2}
    None = None
    RxSize = 2
    ChunkSize = 1
    MaxTries = 2
    MaxIn = 2
    MaxOut = 2
    MaxFailures = 2
    ShellPath = FALSE
    OwnFiles = 0
    FixedFiles = 1
INVARIANTS
    TypeOK NoDanglingToken NoChildLost CleanBetweenClients ConsoleBacked
PROPERTIES
    ImplementsService WaitsEnd MakesRoom
CHECK_DEADLOCK FALSE
