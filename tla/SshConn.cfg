SPECIFICATION Spec
CONSTANTS
    MaxAuthTries = 2
    Window = 2
    RingCap = 3
    ReadMax = 1
    DataChunk = 1
    Mod32 = 4
    DataSizes = {2}
    Grants = {2}
    PktLimits = {1}
    Dims = {0, 80}
    WriteSizes = {2}
    MaxKex = 2
INVARIANTS
    TypeOK KeysInStep SecuredFirst ShellNeedsPassword SealedSession
PROPERTIES
    ClosedIsFinal SilentAfterClose DataWaitsForKeys KeepsPromise
