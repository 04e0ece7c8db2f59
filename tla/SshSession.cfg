SPECIFICATION SessionSpec
CONSTANTS
    MaxAuthTries = 2
    Window = 4
    RingCap = 7
    ReadMax = 2
    DataChunk = 2
    Mod32 = 8
    DataSizes = {1, 3}
    Grants = {}
    PktLimits = {}
    Dims = {80}
    WriteSizes = {3}
    MaxKex = 2
    Faults = {"ok","closed"}
    Timeouts = TRUE
    ClientCloses = TRUE
    ShellExits = TRUE
    Guesses = {"none","right","wrong"}
    Tries = {"right","wrong"}
    ClientWindow = 3
    ClientMaxPkt = 2
    MaxTyped = 5
    MaxWritten = 3
    MaxRekeys = 1
INVARIANTS
    SessionTypeOK KeysMatchStream InputCreditConserved NoInputLost OutputCreditConserved
PROPERTIES
    NeverRejected
