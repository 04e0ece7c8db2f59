SPECIFICATION FairSessionSpec
CONSTANTS
    MaxAuthTries = 2
    Window = 4
    RingCap = 7
    ReadMax = 2
    DataChunk = 2
    Mod32 = 8
    DataSizes = {1, 3}
    Grants = {}
    PktLimits = {}
    Dims = {80}
    WriteSizes = {3}
    MaxKex = 2
    Faults = {"ok"}
    Timeouts = FALSE
    ClientCloses = TRUE
    ShellExits = TRUE
    Guesses = {"none","right","wrong"}
    Tries = {"right"}
    ClientWindow = 3
    ClientMaxPkt = 2
    MaxTyped = 4
    MaxWritten = 3
    MaxRekeys = 1
PROPERTIES
    ShellStarts WritesReturn CloseReturns InputResumesUnlessRekeyed
