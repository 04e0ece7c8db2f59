SPECIFICATION Spec
CONSTANTS
    Sizes <- MCSizes
    MinSize <- MCMinSize
    DefaultSize <- MCDefaultSize
    TabWidth = 2
INVARIANTS
    TypeOK CursorAgrees
