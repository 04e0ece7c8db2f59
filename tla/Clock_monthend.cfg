SPECIFICATION Spec
CONSTANTS
    DaySecs = 12
    Every = 2
    PerSecond = 2
    Limit = 3
INVARIANT NeverEarly
CHECK_DEADLOCK FALSE
