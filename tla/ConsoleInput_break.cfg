SPECIFICATION Spec
CONSTANTS
    EscMax = 4
    KeyRing = 4
    MaxNotify = 1
    MaxInjects = 4
    Forms = {"^c"}
    TypedBytes = {"ESC", "[", "^C", "CR", "LF"}
    MaxTyped = 4
    MaxEaten = 2
INVARIANTS
    BreakBeforeExit
CHECK_DEADLOCK FALSE
