SPECIFICATION FairSessionSpec
CONSTANTS
    MaxAuthTries = 2
    Window = 4
    RingCap = 7
    ReadMax = 2
    DataChunk = 2
    Mod32 = 8
    DataSizes = {1, 3}
    Grants = {}
    PktLimits = {}
    Dims = {80}
    WriteSizes = {3}
    MaxKex = 2
    Faults = {"ok"}
    Timeouts = TRUE
    ClientCloses = FALSE
    ShellExits = TRUE
    Guesses = {"none"}
    Tries = {"right"}
    ClientWindow = 3
    ClientMaxPkt = 0
    MaxTyped = 0
    MaxWritten = 3
    MaxRekeys = 0
CONSTRAINT
    WireBound
PROPERTIES
    WritesReturn
