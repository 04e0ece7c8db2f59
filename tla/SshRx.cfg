SPECIFICATION FairSpec
CONSTANTS
    LineMax = 3
    VersionBuf = 4
    Clear = 1
    Block = 2
    MaxPacket = 4
    Slack = 2
    MacLen <- MacLens
    Lines = {3, 5}
    Totals = {2, 4, 6}
    MaxUnits = 5
INVARIANTS
    TypeOK RoomLeft
PROPERTIES
    ImplementsStream AllHandled
CHECK_DEADLOCK FALSE
